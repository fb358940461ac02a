--------------------------- MODULE ModelWorkProofs ---------------------------
(***************************************************************************)
(* Theorems about the commands that prepare the data of a model and about  *)
(* those that train, compare and test models, for every number of          *)
(* processes, of rows, of fires and of versions.                           *)
(***************************************************************************)
EXTENDS ModelWork, ScoreMetricsProofs

-----------------------------------------------------------------------------
(* Bundles of static features.                                             *)

Manifests ==
  [status : {Nothing} \cup Statuses, table : {Nothing} \cup Tables, values : {Nothing} \cup Contents]

BundleSteps ==
  {"idle", "look", "manifest", "copy", "check", "activate", "register", "enable"}

Bundlings ==
  [step : BundleSteps, content : {Nothing} \cup Contents, row : Manifests,
   seen : {Nothing} \cup SUBSET Contents]

BundleTypes ==
  /\ loads \in 1..Len(Loads)
  /\ manifest \in [Contents -> Manifests]
  /\ journal.current \in {Nothing} \cup Contents
  /\ bundler \in [Bundlers -> Bundlings]

\* Only a registration alone leaves a row without values; a draft is its own.
RowFaithful(c) ==
  /\ manifest[c].values \in {Nothing, c}
  /\ manifest[c].status # Nothing /\ manifest[c].values = Nothing =>
       manifest[c].table = "cell_static"
  /\ manifest[c].status = "draft" => manifest[c].table = "cell_static"
  /\ manifest[c].status = Nothing => manifest[c] = Absent

\* What a command is about, and that its copy was compared before it counts.
BundlerFaithful(b) ==
  /\ bundler[b].step # "idle" => Bundled(b) \in Contents
  /\ bundler[b].step = "activate" => bundler[b].row.values = Bundled(b)
  /\ bundler[b].step = "enable" => manifest[Bundled(b)].status # Nothing

IsActive(c) == manifest[c].status = "active"

OneActive == \A c, d \in Contents : IsActive(c) /\ IsActive(d) => c = d

\* The journal names the active bundle unless one was only registered.
JournalKept ==
  \/ \A c \in Contents : IsActive(c) <=> c = journal.current
  \/ \E c \in Contents : IsActive(c) /\ manifest[c].table = "cell_static"

BundleInv ==
  /\ BundleTypes
  /\ \A c \in Contents : RowFaithful(c)
  /\ \A b \in Bundlers : BundlerFaithful(b)
  /\ OneActive
  /\ JournalKept

LEMMA StaticType == ASSUME loads \in 1..Len(Loads) PROVE Static \in Contents
<1>1. Loads \in Seq(Contents)
  BY BundlesAssumption
<1> QED
  BY <1>1 DEF Static

\* What an activation makes of the rows: it supersedes the active one.
LEMMA ActivatedRows ==
  ASSUME manifest \in [Contents -> Manifests], NEW c \in Contents, NEW row \in Manifests
  PROVE  /\ Activated(c, row) \in [Contents -> Manifests]
         /\ Activated(c, row)[c] = [row EXCEPT !.status = "active"]
         /\ \A d \in Contents : d # c =>
              /\ Activated(c, row)[d] \in {manifest[d], [manifest[d] EXCEPT !.status = "superseded"]}
              /\ Activated(c, row)[d].status # "active"
              /\ manifest[d].status # "active" => Activated(c, row)[d] = manifest[d]
<1>1. ASSUME NEW d \in Contents
      PROVE  /\ Superseding(manifest[d]) \in Manifests
             /\ Superseding(manifest[d]) \in {manifest[d], [manifest[d] EXCEPT !.status = "superseded"]}
             /\ Superseding(manifest[d]).status # "active"
             /\ manifest[d].status # "active" => Superseding(manifest[d]) = manifest[d]
  <2>1. manifest[d] \in Manifests
    OBVIOUS
  <2> QED
    BY <2>1 DEF Superseding, Manifests, Statuses
<1>2. [row EXCEPT !.status = "active"] \in Manifests
  BY DEF Manifests, Statuses
<1> QED
  BY <1>1, <1>2 DEF Activated

LEMMA BundleInitInv == BundleInit => BundleInv
<1> SUFFICES ASSUME BundleInit PROVE BundleInv
  OBVIOUS
<1>1. Loads \in Seq(Contents) /\ Loads # <<>> /\ Nothing \notin Statuses \cup Contents
  BY BundlesAssumption
<1>2. loads \in 1..Len(Loads)
  BY <1>1 DEF BundleInit
<1>3. Absent \in Manifests /\ NotBundling \in Bundlings
  BY DEF Absent, NotBundling, Manifests, Bundlings, BundleSteps
<1>4. BundleTypes
  BY <1>2, <1>3 DEF BundleInit, BundleTypes
<1>5. \A c \in Contents : manifest[c] = Absent
  BY DEF BundleInit
<1>6. \A c \in Contents : RowFaithful(c) /\ ~IsActive(c)
  BY <1>1, <1>5 DEF RowFaithful, Absent, IsActive, Statuses
<1>7. OneActive /\ JournalKept
  BY <1>1, <1>6 DEF OneActive, JournalKept, BundleInit
<1>8. \A b \in Bundlers : BundlerFaithful(b)
  BY DEF BundlerFaithful, BundleInit, NotBundling, Bundled
<1> QED
  BY <1>4, <1>6, <1>7, <1>8 DEF BundleInv

\* A step of a command that leaves the rows and the journal.
LEMMA BundlerGoes ==
  ASSUME BundleInv, NEW b \in Bundlers, NEW next \in Bundlings, GoOn(b, next),
         UNCHANGED <<loads, manifest, journal>>,
         next.step # "idle" => next.content \in Contents,
         next.step = "activate" => next.row.values = next.content,
         next.step = "enable" => manifest[next.content].status # Nothing
  PROVE  BundleInv'
<1>1. BundleTypes'
  BY DEF BundleInv, BundleTypes, GoOn
<1>2. ASSUME NEW o \in Bundlers PROVE BundlerFaithful(o)'
  <2>1. CASE o = b
    BY <2>1 DEF BundlerFaithful, Bundled, GoOn, BundleInv, BundleTypes
  <2>2. CASE o # b
    <3>1. bundler'[o] = bundler[o]
      BY <2>2 DEF GoOn, BundleInv, BundleTypes
    <3> QED
      BY <3>1 DEF BundlerFaithful, Bundled, BundleInv
  <2> QED
    BY <2>1, <2>2
<1>3. OneActive' /\ JournalKept' /\ \A c \in Contents : RowFaithful(c)'
  BY DEF BundleInv, OneActive, JournalKept, RowFaithful, IsActive
<1> QED
  BY <1>1, <1>2, <1>3 DEF BundleInv

\* A step that changes rows and puts a command to rest or on its way: it keeps
\* the rows that are not its own, but for superseding them.
LEMMA BundlerWrites ==
  ASSUME BundleInv, NEW b \in Bundlers, NEW next \in Bundlings, GoOn(b, next),
         UNCHANGED loads, manifest' \in [Contents -> Manifests],
         journal'.current \in {Nothing} \cup Contents,
         \A c \in Contents : RowFaithful(c)',
         \A c \in Contents : manifest[c].status # Nothing => manifest'[c].status # Nothing,
         OneActive', JournalKept',
         next.step # "idle" => next.content \in Contents,
         next.step # "activate",
         next.step = "enable" => manifest'[next.content].status # Nothing
  PROVE  BundleInv'
<1>1. BundleTypes'
  BY DEF BundleInv, BundleTypes, GoOn
<1>2. ASSUME NEW o \in Bundlers PROVE BundlerFaithful(o)'
  <2>1. CASE o = b
    BY <2>1 DEF BundlerFaithful, Bundled, GoOn, BundleInv, BundleTypes
  <2>2. CASE o # b
    <3>1. bundler'[o] = bundler[o]
      BY <2>2 DEF GoOn, BundleInv, BundleTypes
    <3> QED
      BY <3>1 DEF BundlerFaithful, Bundled, BundleInv
  <2> QED
    BY <2>1, <2>2
<1> QED
  BY <1>1, <1>2 DEF BundleInv

LEMMA ActivationInv ==
  ASSUME BundleInv, NEW b \in Bundlers, GoOn(b, NotBundling), UNCHANGED loads,
         NEW c \in Contents, NEW row \in Manifests,
         MayActivate(manifest[c].status), manifest' = Activated(c, row),
         row.values \in {Nothing, c}, row.values = Nothing => row.table = "cell_static",
         journal'.current = c \/ (row.table = "cell_static" /\ UNCHANGED journal)
  PROVE  BundleInv'
<1>1. NotBundling \in Bundlings /\ NotBundling.step = "idle"
  BY DEF Absent, NotBundling, Manifests, Bundlings, BundleSteps
<1>2. /\ manifest' \in [Contents -> Manifests]
      /\ manifest'[c] = [row EXCEPT !.status = "active"]
      /\ \A d \in Contents : d # c =>
           /\ manifest'[d] \in {manifest[d], [manifest[d] EXCEPT !.status = "superseded"]}
           /\ manifest'[d].status # "active"
           /\ manifest[d].status # "active" => manifest'[d] = manifest[d]
  BY ActivatedRows DEF BundleInv, BundleTypes
<1>3. journal'.current \in {Nothing} \cup Contents
  BY DEF BundleInv, BundleTypes
<1>4. Nothing \notin Statuses
  BY BundlesAssumption
<1>5. /\ manifest'[c].status = "active" /\ manifest'[c].table = row.table
      /\ manifest'[c].values = row.values
  BY <1>2 DEF Manifests
<1>6. ASSUME NEW d \in Contents PROVE RowFaithful(d)'
  <2>1. CASE d = c
    BY <1>4, <1>5, <2>1 DEF RowFaithful, Statuses
  <2>2. CASE d # c
    <3>1. manifest[d] \in Manifests /\ RowFaithful(d)
      BY DEF BundleInv, BundleTypes
    <3>2. CASE manifest'[d] = manifest[d]
      BY <3>1, <3>2 DEF RowFaithful
    <3>3. CASE /\ manifest'[d] = [manifest[d] EXCEPT !.status = "superseded"]
               /\ manifest[d].status = "active"
      BY <1>4, <3>1, <3>3 DEF RowFaithful, Manifests, Statuses
    <3> QED
      BY <1>2, <2>2, <3>2, <3>3
  <2> QED
    BY <2>1, <2>2
<1>7. \A d \in Contents : manifest[d].status # Nothing => manifest'[d].status # Nothing
  <2> SUFFICES ASSUME NEW d \in Contents, manifest[d].status # Nothing, d # c
               PROVE  manifest'[d].status # Nothing
    BY <1>4, <1>5 DEF Statuses
  <2>1. manifest[d] \in Manifests
    BY DEF BundleInv, BundleTypes
  <2> QED
    BY <1>2, <1>4, <2>1 DEF Manifests, Statuses
<1>8. \A d \in Contents : IsActive(d)' <=> d = c
  BY <1>2, <1>5 DEF IsActive
<1>9. OneActive'
  BY <1>8 DEF OneActive
<1>10. JournalKept'
  <2>1. CASE journal'.current = c
    BY <1>8, <2>1 DEF JournalKept
  <2>2. CASE row.table = "cell_static"
    BY <1>5, <1>8, <2>2 DEF JournalKept
  <2> QED
    BY <2>1, <2>2
<1> HIDE DEF MayActivate, Activated
<1> QED
  BY <1>1, <1>2, <1>3, <1>6, <1>7, <1>9, <1>10, BundlerWrites

LEMMA BundleNextInv == BundleInv /\ [BundleNext]_bundles => BundleInv'
<1> SUFFICES ASSUME BundleInv, [BundleNext]_bundles PROVE BundleInv'
  OBVIOUS
<1>1. CASE UNCHANGED bundles
  BY <1>1 DEF bundles, BundleInv, BundleTypes, OneActive, JournalKept, RowFaithful, IsActive,
              BundlerFaithful, Bundled
<1>2. CASE Load
  <2>1. Len(Loads) \in Nat /\ loads \in 1..Len(Loads)
    BY BundlesAssumption DEF BundleInv, BundleTypes
  <2>2. loads' \in 1..Len(Loads)
    BY <1>2, <2>1 DEF Load
  <2> QED
    BY <1>2, <2>2 DEF Load, BundleInv, BundleTypes, OneActive, JournalKept, RowFaithful, IsActive,
                      BundlerFaithful, Bundled
<1>3. ASSUME NEW b \in Bundlers PROVE
        /\ bundler[b] \in Bundlings /\ BundlerFaithful(b)
        /\ NotBundling \in Bundlings /\ NotBundling.step = "idle"
        /\ EndBundling(b) <=> GoOn(b, NotBundling)
  BY DEF BundleInv, BundleTypes, Absent, NotBundling, Manifests, Bundlings, BundleSteps,
         EndBundling, GoOn
<1>4. ASSUME NEW b \in Bundlers, EndBundling(b), UNCHANGED <<loads, manifest, journal>>
      PROVE  BundleInv'
  BY <1>3, <1>4, BundlerGoes
<1>5. ASSUME NEW b \in Bundlers, Summarise(b) PROVE BundleInv'
  <2>1. Static \in Contents
    BY StaticType DEF BundleInv, BundleTypes
  <2>2. PICK step \in {"look", "register"} :
          GoOn(b, [bundler[b] EXCEPT !.step = step, !.content = Static])
    BY <1>5 DEF Summarise
  <2> DEFINE next == [bundler[b] EXCEPT !.step = step, !.content = Static]
  <2>3. next \in Bundlings /\ next.step \in {"look", "register"} /\ next.content \in Contents
    BY <1>3, <2>1 DEF Bundlings, BundleSteps
  <2>4. UNCHANGED <<loads, manifest, journal>>
    BY <1>5 DEF Summarise
  <2> HIDE DEF next
  <2> QED
    BY <2>2, <2>3, <2>4, BundlerGoes DEF next
<1>6. ASSUME NEW b \in Bundlers, LookActive(b) PROVE BundleInv'
  <2>1. CASE EndBundling(b)
    BY <1>4, <1>6, <2>1 DEF LookActive
  <2>2. CASE GoOn(b, [bundler[b] EXCEPT !.step = "manifest"])
    <3> DEFINE next == [bundler[b] EXCEPT !.step = "manifest"]
    <3>1. next \in Bundlings /\ next.step = "manifest" /\ next.content = Bundled(b)
      BY <1>3 DEF Bundlings, BundleSteps, Bundled
    <3>2. Bundled(b) \in Contents
      BY <1>3, <1>6 DEF BundlerFaithful, LookActive
    <3>3. UNCHANGED <<loads, manifest, journal>>
      BY <1>6 DEF LookActive
    <3> HIDE DEF next
    <3> QED
      BY <2>2, <3>1, <3>2, <3>3, BundlerGoes DEF next
  <2> QED
    BY <1>6, <2>1, <2>2 DEF LookActive
<1>7. ASSUME NEW b \in Bundlers, EnsureManifest(b) PROVE BundleInv'
  <2>1. Bundled(b) \in Contents /\ UNCHANGED <<loads, manifest, journal>>
    BY <1>3, <1>7 DEF BundlerFaithful, EnsureManifest
  <2> DEFINE found == manifest[Bundled(b)]
             row == IF found = Absent THEN Draft("feature_snapshot_values") ELSE found
             step == IF found.status = "superseded" THEN "check" ELSE "copy"
             next == [bundler[b] EXCEPT !.step = step, !.row = row]
  <2>2. found \in Manifests
    BY <2>1 DEF BundleInv, BundleTypes
  <2>3. row \in Manifests
    BY <2>2 DEF Draft, Manifests, Statuses, Tables
  <2>4. EndBundling(b) \/ GoOn(b, next)
    BY <1>7 DEF EnsureManifest
  <2>5. CASE GoOn(b, next)
    <3>1. step \in {"check", "copy"}
      OBVIOUS
    <3> HIDE DEF row, step
    <3>2. next \in Bundlings /\ next.step \in {"check", "copy"} /\ next.content = Bundled(b)
      BY <1>3, <2>3, <3>1 DEF Bundlings, BundleSteps, Bundled
    <3> HIDE DEF next
    <3> QED
      BY <2>1, <2>5, <3>2, BundlerGoes
  <2> QED
    BY <1>4, <2>1, <2>4, <2>5
<1>8. ASSUME NEW b \in Bundlers, Copy(b) PROVE BundleInv'
  <2>1. Bundled(b) \in Contents /\ UNCHANGED <<loads, manifest, journal>>
    BY <1>3, <1>8 DEF BundlerFaithful, Copy
  <2>2. Static \in Contents
    BY StaticType DEF BundleInv, BundleTypes
  <2> DEFINE next == [bundler[b] EXCEPT !.step = "check", !.row = [@ EXCEPT !.values = Static]]
  <2>3. [bundler[b].row EXCEPT !.values = Static] \in Manifests
    BY <1>3, <2>2 DEF Manifests, Bundlings
  <2>4. next \in Bundlings /\ next.step = "check" /\ next.content = Bundled(b)
    BY <1>3, <2>3 DEF Bundlings, BundleSteps, Bundled
  <2>5. GoOn(b, next)
    BY <1>8 DEF Copy
  <2> HIDE DEF next
  <2> QED
    BY <2>1, <2>4, <2>5, BundlerGoes
<1>9. ASSUME NEW b \in Bundlers, CheckCopy(b) PROVE BundleInv'
  <2>1. Bundled(b) \in Contents /\ UNCHANGED <<loads, manifest, journal>>
    BY <1>3, <1>9 DEF BundlerFaithful, CheckCopy
  <2> DEFINE next == [bundler[b] EXCEPT !.step = "activate", !.seen = Frozen]
  <2>2. CASE CopyIsExact(b) /\ GoOn(b, next)
    <3>1. Frozen \in SUBSET Contents
      BY DEF Frozen
    <3>2. /\ next \in Bundlings /\ next.content = Bundled(b)
          /\ next.row = bundler[b].row
      BY <1>3, <3>1 DEF Bundlings, BundleSteps, Bundled
    <3>3. next.row.values = next.content /\ next.step = "activate"
      BY <1>3, <2>2, <3>2 DEF CopyIsExact, Bundlings
    <3> HIDE DEF next
    <3> QED
      BY <2>1, <2>2, <3>2, <3>3, BundlerGoes
  <2> QED
    BY <1>4, <1>9, <2>1, <2>2 DEF CheckCopy
<1>10. ASSUME NEW b \in Bundlers, ActivateBundle(b) PROVE BundleInv'
  <2>1. Bundled(b) \in Contents /\ UNCHANGED loads /\ GoOn(b, NotBundling)
    BY <1>3, <1>10 DEF BundlerFaithful, ActivateBundle
  <2>2. CASE UNCHANGED <<manifest, journal>>
    BY <1>4, <1>10, <2>1, <2>2 DEF ActivateBundle
  <2>3. CASE /\ MayActivate(manifest[Bundled(b)].status)
             /\ manifest' = Activated(Bundled(b), bundler[b].row)
             /\ journal'.current = Bundled(b)
    <3>1. bundler[b].row \in Manifests
      BY <1>3 DEF Bundlings
    <3>2. bundler[b].row.values = Bundled(b)
      BY <1>3, <1>10 DEF BundlerFaithful, ActivateBundle
    <3>3. Bundled(b) # Nothing
      BY <2>1, BundlesAssumption
    <3> QED
      BY <2>1, <2>3, <3>1, <3>2, <3>3, ActivationInv
  <2> QED
    BY <1>10, <2>2, <2>3 DEF ActivateBundle
<1>11. ASSUME NEW b \in Bundlers, RegisterManifest(b) PROVE BundleInv'
  <2>0. PICK c \in Contents : c = Bundled(b)
    BY <1>3, <1>11 DEF BundlerFaithful, RegisterManifest
  <2> DEFINE next == [bundler[b] EXCEPT !.step = "enable"]
             row == IF manifest[c] = Absent THEN Draft("cell_static") ELSE manifest[c]
  <2>1. UNCHANGED <<loads, journal>> /\ GoOn(b, next)
    BY <1>11 DEF RegisterManifest
  <2>2. manifest[c] \in Manifests /\ manifest \in [Contents -> Manifests] /\ RowFaithful(c)
    BY <2>1 DEF BundleInv, BundleTypes
  <2>3. manifest' = [manifest EXCEPT ![c] = row]
    BY <1>11, <2>0 DEF RegisterManifest
  <2>4. Nothing \notin Statuses
    BY BundlesAssumption
  <2>5. \/ manifest[c] = Absent /\ row = Draft("cell_static")
        \/ row = manifest[c]
    OBVIOUS
  <2>6. row \in Manifests
    BY <2>2 DEF Draft, Manifests, Statuses, Tables
  <2>7. manifest' \in [Contents -> Manifests] /\ manifest'[c] = row
    BY <2>1, <2>2, <2>3, <2>6
  <2>8. \A d \in Contents : d # c => manifest'[d] = manifest[d]
    BY <2>2, <2>3
  <2>9. CASE row = manifest[c] /\ manifest[c] # Absent
    <3>1. manifest' = manifest
      BY <2>1, <2>2, <2>3, <2>9
    <3>2. next \in Bundlings /\ next.content = c /\ next.step = "enable"
      BY <1>3, <2>0 DEF Bundlings, BundleSteps, Bundled
    <3>3. manifest[c].status # Nothing
      BY <2>2, <2>9 DEF RowFaithful
    <3> HIDE DEF next
    <3> QED
      BY <2>1, <3>1, <3>2, <3>3, BundlerGoes
  <2>10. CASE manifest[c] = Absent
    <3>1. row = Draft("cell_static")
      BY <2>10
    <3>2. /\ manifest'[c].status = "draft" /\ manifest'[c].table = "cell_static"
          /\ manifest'[c].values = Nothing
      BY <2>7, <3>1 DEF Draft
    <3>3. ~IsActive(c) /\ ~IsActive(c)'
      BY <2>4, <2>10, <3>2 DEF IsActive, Absent, Statuses
    <3>4. \A d \in Contents : /\ IsActive(d)' <=> IsActive(d)
                              /\ IsActive(d) => manifest'[d] = manifest[d]
      <4> SUFFICES ASSUME NEW d \in Contents
                   PROVE  /\ IsActive(d)' <=> IsActive(d)
                          /\ IsActive(d) => manifest'[d] = manifest[d]
        OBVIOUS
      <4>1. CASE d = c
        BY <3>3, <4>1
      <4>2. CASE d # c
        BY <2>8, <4>2 DEF IsActive
      <4> QED
        BY <4>1, <4>2
    <3>5. \A d \in Contents : RowFaithful(d)'
      <4> SUFFICES ASSUME NEW d \in Contents PROVE RowFaithful(d)'
        OBVIOUS
      <4>1. CASE d = c
        BY <2>4, <3>2, <4>1 DEF RowFaithful, Statuses
      <4>2. CASE d # c
        <5>1. manifest'[d] = manifest[d]
          BY <2>8, <4>2
        <5> QED
          BY <5>1 DEF RowFaithful, BundleInv
      <4> QED
        BY <4>1, <4>2
    <3>6. OneActive' /\ JournalKept'
      BY <2>1, <3>4 DEF OneActive, JournalKept, BundleInv
    <3>7. \A d \in Contents : manifest[d].status # Nothing => manifest'[d].status # Nothing
      BY <2>4, <2>8, <3>2 DEF Statuses
    <3>8. next \in Bundlings /\ next.content = c /\ next.step = "enable"
      BY <1>3, <2>0 DEF Bundlings, BundleSteps, Bundled
    <3>9. manifest'[c].status # Nothing
      BY <2>4, <3>2 DEF Statuses
    <3>10. journal'.current \in {Nothing} \cup Contents
      BY <2>1 DEF BundleInv, BundleTypes
    <3> HIDE DEF next, row
    <3> QED
      BY <2>1, <2>7, <3>5, <3>6, <3>7, <3>8, <3>9, <3>10, BundlerWrites
  <2> QED
    BY <2>5, <2>9, <2>10
<1>12. ASSUME NEW b \in Bundlers, ActivateRegistered(b) PROVE BundleInv'
  <2>1. Bundled(b) \in Contents /\ UNCHANGED <<loads, journal>> /\ GoOn(b, NotBundling)
    BY <1>3, <1>12 DEF BundlerFaithful, ActivateRegistered
  <2>2. CASE UNCHANGED manifest
    BY <1>4, <1>12, <2>1, <2>2 DEF ActivateRegistered
  <2>3. CASE /\ MayActivate(manifest[Bundled(b)].status)
             /\ manifest' = Activated(Bundled(b), manifest[Bundled(b)])
    <3>1. manifest[Bundled(b)] \in Manifests /\ RowFaithful(Bundled(b))
      BY <2>1 DEF BundleInv, BundleTypes
    <3>2. manifest[Bundled(b)].status # Nothing
      BY <1>3, <1>12 DEF BundlerFaithful, ActivateRegistered
    <3>3. manifest[Bundled(b)].status = "draft"
      BY <2>3, <3>1, <3>2 DEF MayActivate, Manifests, Statuses
    <3>4. manifest[Bundled(b)].table = "cell_static" /\ manifest[Bundled(b)].values \in {Nothing, Bundled(b)}
      BY <3>1, <3>3 DEF RowFaithful
    <3> DEFINE row == manifest[Bundled(b)]
    <3>5. /\ row \in Manifests /\ row.table = "cell_static" /\ row.values \in {Nothing, Bundled(b)}
          /\ manifest' = Activated(Bundled(b), row)
      BY <2>3, <3>1, <3>4
    <3> HIDE DEF row
    <3> QED
      BY <2>1, <2>3, <3>5, ActivationInv
  <2> QED
    BY <1>12, <2>2, <2>3 DEF ActivateRegistered
<1>13. ASSUME NEW b \in Bundlers, BundlingStops(b) PROVE BundleInv'
  BY <1>4, <1>13 DEF BundlingStops
<1> QED
  BY <1>1, <1>2, <1>5, <1>6, <1>7, <1>8, <1>9, <1>10, <1>11, <1>12, <1>13 DEF BundleNext

(* Between the contents that are loaded and the copies that commands make  *)
(* of them, at most one bundle is active, the values of each are those of  *)
(* its checksum, and the journal agrees unless a bundle was only           *)
(* registered (StaticBundles).                                             *)
THEOREM BundlesFaithfulHolds == BundleSpec => []BundlesFaithful
<1>1. BundleInv => BundlesFaithful
  <2> SUFFICES ASSUME BundleInv PROVE BundlesFaithful
    OBVIOUS
  <2> DEFINE active == {c \in Contents : manifest[c].status = "active"}
             registered == {c \in Contents : manifest[c].table = "cell_static"}
  <2>1. Cardinality(active) <= 1
    <3>1. CASE active = {}
      BY <3>1, FS_EmptySet
    <3>2. CASE active # {}
      <4>1. PICK c \in active : TRUE
        BY <3>2
      <4>2. active = {c}
        BY <4>1 DEF BundleInv, OneActive, IsActive
      <4>3. Cardinality({c}) = 1
        BY FS_Singleton
      <4> QED
        BY <4>2, <4>3
    <3> QED
      BY <3>1, <3>2
  <2>2. \A c \in Contents :
          /\ manifest[c].values \in {Nothing, c}
          /\ manifest[c].status # Nothing /\ manifest[c].values = Nothing => c \in registered
    BY DEF BundleInv, RowFaithful
  <2>3. active = {journal.current} \ {Nothing} \/ active \cap registered # {}
    <3>1. CASE \A c \in Contents : IsActive(c) <=> c = journal.current
      <4>1. Nothing \notin Contents /\ journal.current \in {Nothing} \cup Contents
        BY BundlesAssumption DEF BundleInv, BundleTypes
      <4>2. \A c \in Contents : c \in active <=> c = journal.current
        BY <3>1 DEF IsActive
      <4>3. active \subseteq Contents
        OBVIOUS
      <4> HIDE DEF active
      <4> QED
        BY <4>1, <4>2, <4>3
    <3>2. CASE \E c \in Contents : IsActive(c) /\ manifest[c].table = "cell_static"
      BY <3>2 DEF IsActive
    <3> QED
      BY <3>1, <3>2 DEF BundleInv, JournalKept
  <2> HIDE DEF active, registered
  <2> QED
    BY <2>1, <2>2, <2>3 DEF BundlesFaithful, active, registered
<1> QED
  BY <1>1, BundleInitInv, BundleNextInv, PTL DEF BundleSpec

(* A bundle that was active changes no more but to be superseded, in every *)
(* step of every command (StaticBundles).                                  *)
THEOREM BundlesFrozenHolds == BundleSpec => BundlesFrozen
<1> DEFINE Kept ==
      \A c \in Contents :
        /\ manifest[c].status = "active" =>
             manifest'[c] \in {manifest[c], [manifest[c] EXCEPT !.status = "superseded"]}
        /\ manifest[c].status = "superseded" => manifest'[c] = manifest[c]
<1>1. BundleInv /\ [BundleNext]_bundles => [Kept]_bundles
  <2> SUFFICES ASSUME BundleInv, BundleNext PROVE Kept
    OBVIOUS
  <2>1. CASE UNCHANGED manifest
    BY <2>1
  <2>2. ASSUME NEW c \in Contents, NEW row \in Manifests, MayActivate(manifest[c].status),
               manifest' = Activated(c, row)
        PROVE  Kept
    <3>1. manifest \in [Contents -> Manifests]
      BY DEF BundleInv, BundleTypes
    <3>2. \A d \in Contents : d # c =>
               /\ Activated(c, row)[d] \in {manifest[d], [manifest[d] EXCEPT !.status = "superseded"]}
               /\ Activated(c, row)[d].status # "active"
               /\ manifest[d].status # "active" => Activated(c, row)[d] = manifest[d]
      <4> HIDE DEF Kept
      <4> QED
        BY ONLY <3>1, ActivatedRows
    <3>3. manifest[c].status \notin {"active", "superseded"}
      BY <2>2 DEF MayActivate
    <3> QED
      BY <2>2, <3>2, <3>3
  <2>3. ASSUME NEW b \in Bundlers, bundler[b].step # "idle"
        PROVE  /\ Bundled(b) \in Contents /\ bundler[b].row \in Manifests
               /\ manifest[Bundled(b)] \in Manifests
    BY <2>3 DEF BundleInv, BundleTypes, BundlerFaithful, Bundlings
  <2>4. ASSUME NEW b \in Bundlers, ActivateBundle(b) PROVE Kept
    BY <2>1, <2>2, <2>3, <2>4 DEF ActivateBundle
  <2>5. ASSUME NEW b \in Bundlers, ActivateRegistered(b) PROVE Kept
    BY <2>1, <2>2, <2>3, <2>5 DEF ActivateRegistered
  <2>6. ASSUME NEW b \in Bundlers, RegisterManifest(b) PROVE Kept
    <3>1. Nothing \notin Statuses
      BY BundlesAssumption
    <3>2. Absent.status \notin {"active", "superseded"}
      BY <3>1 DEF Absent, Statuses
    <3>3. \A c \in Contents : manifest[c] # Absent => manifest'[c] = manifest[c]
      BY <2>3, <2>6 DEF RegisterManifest, BundleInv, BundleTypes
    <3> QED
      BY <3>2, <3>3
  <2> QED
    BY <2>1, <2>4, <2>5, <2>6 DEF BundleNext, Load, Summarise, LookActive, EnsureManifest, Copy,
         CheckCopy, BundlingStops
<1>2. BundleInv /\ [BundleNext]_bundles => BundleInv'
  BY BundleNextInv
<1> QED
  BY <1>1, <1>2, BundleInitInv, PTL DEF BundleSpec, BundlesFrozen

-----------------------------------------------------------------------------
(* Builds of the dataset versions.                                         *)

BuilderSteps ==
  {"idle", "known", "candidates", "find", "create", "mark", "start", "rows", "fail",
   "delete", "exclude", "finish", "done"}
Todos == {<<"strict", "inclusive">>, <<"inclusive">>}
Readings == [known : SUBSET Fires, events : SUBSET Fires]
Counts == {Cardinality(S) : S \in SUBSET (Days \X {0, 1})}

BuilderRecords ==
  [step : BuilderSteps, kind : {None} \cup Kinds, seed : {None} \cup Seeds,
   window : SUBSET Fires, known : SUBSET Fires, events : SUBSET Fires,
   repeated : SUBSET Fires, todo : {<<>>} \cup Todos, build : Nat]

BuildRows ==
  [version : Versions, status : {"running", "failed", "succeeded"}, count : {0} \cup Counts,
   read : Readings]

Causes == ({"fire"} \X Fires) \cup ({"day"} \X Days)

DatasetTypes ==
  /\ fires \in SUBSET Fires /\ assessed \in SUBSET Fires /\ duplicates \in SUBSET Fires
  /\ builder \in [Builders -> BuilderRecords]
  /\ version \in [Versions -> {None} \cup VersionRows]
  /\ rows \in [Versions -> SUBSET (Days \X {0, 1})]
  /\ links \in [Versions -> SUBSET (Days \X Fires)]
  /\ excluded \in [Versions -> SUBSET (Nat \X Causes)]
  /\ builds \in Seq(BuildRows)
  /\ commands \in Nat /\ faults \in Nat

HasBuild == {"rows", "fail", "delete", "exclude", "finish", "done"}
Linked == {"delete", "exclude", "finish", "done"}
HasVersion == HasBuild \cup {"mark", "start"}
HasTodo == HasVersion \cup {"find", "create"}

StatusAt(step) ==
  CASE step = "fail" -> "failed" [] step = "done" -> "succeeded" [] OTHER -> "running"

\* A command and its build, which is of what the command has read; of a
\* version that exists, and whose links it has added.
BuilderSound(b) ==
  LET r == builder[b] IN
  /\ r.step # "idle" => r.kind \in Kinds /\ r.seed \in Seeds
  /\ r.step \in HasTodo => r.todo \in Todos
  /\ r.step \notin HasBuild => r.build = 0
  /\ r.step \in HasBuild =>
       /\ r.build \in DOMAIN builds
       /\ builds[r.build].version = Current(b)
       /\ builds[r.build].status = StatusAt(r.step)
       /\ builds[r.build].read = [known |-> r.known, events |-> r.events]
  /\ r.step \in HasVersion => version[Current(b)] # None
  /\ r.step \in Linked => LinksOf(r, Head(r.todo)) \subseteq links[Current(b)]

OwnBuilds ==
  \A b, c \in Builders : b # c /\ builder[b].build # 0 => builder[b].build # builder[c].build

\* Every label has a reason.
RowExplained(v, d) ==
  /\ <<d, 0>> \in rows[v] =>
       \E n \in BuildsOf(v) : \A e \in builds[n].read.known : DayOf(e) # d
  /\ <<d, 1>> \in rows[v] <=> \E e \in Fires : <<d, e>> \in links[v]
  /\ \A e \in Fires : <<d, e>> \in links[v] => DayOf(e) = d

Dropped(v) == {x[2] : x \in excluded[v]}

Accounted(v, e) ==
  \/ <<DayOf(e), e>> \in links[v]
  \/ <<"fire", e>> \in Dropped(v)
  \/ <<"day", DayOf(e)>> \in Dropped(v) /\ v[2] = "strict"
  \/ v[1] = "candidate" /\ DayOf(e) \in Unreadable
  \/ \E b \in Builders : builder[b].step = "exclude" /\ Current(b) = v
  \/ \E m \in BuildsOf(v) : e \notin builds[m].read.events

\* The build has replaced the exclusions, or succeeded.
Excluding(n) ==
  \/ builds[n].status = "succeeded"
  \/ \E b \in Builders : builder[b].build = n /\ builder[b].step = "finish"

BuildAccounted(n) ==
  Excluding(n) => \A e \in builds[n].read.events : Accounted(builds[n].version, e)

\* Rows were put in a version by a build that does it no more.
RowsBuilt(v) ==
  rows[v] # {} =>
    \E n \in BuildsOf(v) : \A b \in Builders : builder[b].build = n => builder[b].step # "rows"

InProgress == HasBuild \cup {"start"}

VersionEnded(v) ==
  version[v] # None =>
    /\ version[v].status = "building" =>
         faults > 0 \/ \E b \in Builders : builder[b].step \in InProgress /\ Current(b) = v
    /\ version[v].status = "failed" => \E n \in BuildsOf(v) : builds[n].status = "failed"
    /\ version[v].status = "validated" => \E n \in BuildsOf(v) : builds[n].status = "succeeded"

BuildEnded(n) ==
  builds[n].status = "running" => faults > 0 \/ \E b \in Builders : builder[b].build = n

DatasetInv ==
  /\ DatasetTypes
  /\ \A b \in Builders : BuilderSound(b)
  /\ OwnBuilds
  /\ \A v \in Versions, d \in Days : RowExplained(v, d)
  /\ \A n \in DOMAIN builds : BuildAccounted(n)
  /\ \A v \in Versions : RowsBuilt(v)
  /\ \A v \in Versions : VersionEnded(v)
  /\ \A n \in DOMAIN builds : BuildEnded(n)

LEMMA FirstAmong ==
  ASSUME NEW n, NEW pool, NEW among PROVE First(n, pool, among) \subseteq among
BY DEF First

LEMMA PositiveType ==
  ASSUME NEW r, NEW variant
  PROVE  \A d : d \in PositiveDays(r, variant) <=>
           /\ d \in Days /\ SplitOf(d) # None /\ Eligible(r, d) # {}
           /\ r.kind = "candidate" => d \notin Unreadable
           /\ variant = "strict" => d \notin Suspect
BY DEF PositiveDays

\* What is derived from what was read, and no cell-day with a known fire.
LEMMA DerivedTypes ==
  ASSUME NEW r \in BuilderRecords, NEW variant
  PROVE  /\ NegativeDays(r) \subseteq Days \ KnownDays(r)
         /\ RowsOf(r, variant) \subseteq Days \X {0, 1}
         /\ LinksOf(r, variant) \subseteq Days \X Fires
         /\ Exclusions(r) \subseteq Causes
         /\ Cardinality(RowsOf(r, variant)) \in Counts
<1>1. NegativeDays(r) \subseteq Days \ KnownDays(r)
  <2>1. PilotDays(r) \subseteq Days \ KnownDays(r)
    BY FirstAmong DEF PilotDays
  <2>2. ASSUME NEW s PROVE SampledDays(r, s) \subseteq Days \ KnownDays(r)
    <3> DEFINE open == {d \in Days \ Unreadable :
                          /\ SplitOf(d) = s /\ d \notin KnownDays(r)
                          /\ \A e \in r.window : DayOf(e) \in Unreadable \/ ~Near(d, DayOf(e))}
               needed == Ratio * Cardinality({d \in PositiveDays(r, "inclusive") : SplitOf(d) = s})
    <3>1. SampledDays(r, s) = First(needed, Pool(r.seed), open)
      BY DEF SampledDays
    <3>2. open \subseteq Days \ KnownDays(r)
      OBVIOUS
    <3> HIDE DEF open, needed
    <3> QED
      BY <3>1, <3>2, FirstAmong
  <2> QED
    BY <2>1, <2>2 DEF NegativeDays
<1>2. RowsOf(r, variant) \subseteq Days \X {0, 1}
  BY <1>1, PositiveType DEF RowsOf
<1>3. LinksOf(r, variant) \subseteq Days \X Fires
  <2>1. \A d : Eligible(r, d) \subseteq Fires
    BY DEF Eligible, BuilderRecords
  <2>2. \A d \in PositiveDays(r, variant) : d \in Days
    BY PositiveType
  <2> QED
    BY <2>1, <2>2 DEF LinksOf
<1>4. Exclusions(r) \subseteq Causes
  <2>1. PositiveDays(r, "inclusive") \subseteq Days /\ r.events \subseteq Fires
    BY PositiveType DEF BuilderRecords
  <2> QED
    BY <2>1 DEF Exclusions, Causes
<1> QED
  BY <1>1, <1>2, <1>3, <1>4 DEF Counts

LEMMA RowLabels ==
  ASSUME NEW r \in BuilderRecords, NEW variant, NEW d
  PROVE  /\ <<d, 0>> \in RowsOf(r, variant) => d \notin KnownDays(r)
         /\ <<d, 1>> \in RowsOf(r, variant) <=> d \in PositiveDays(r, variant)
<1>1. NegativeDays(r) \subseteq Days \ KnownDays(r)
  BY DerivedTypes
<1> QED
  BY <1>1 DEF RowsOf

LEMMA LinkLabels ==
  ASSUME NEW r, NEW variant, NEW d, NEW e
  PROVE  <<d, e>> \in LinksOf(r, variant) <=>
           d \in PositiveDays(r, variant) /\ e \in r.events \ r.repeated /\ DayOf(e) = d
<1>1. e \in Eligible(r, d) <=> e \in r.events \ r.repeated /\ DayOf(e) = d
  BY DEF Eligible
<1> QED
  BY <1>1 DEF LinksOf

LEMMA LinksDepend ==
  ASSUME NEW r, NEW s, NEW variant, r.events = s.events, r.repeated = s.repeated,
         r.kind = s.kind
  PROVE  LinksOf(r, variant) = LinksOf(s, variant)
<1>1. \A d : Eligible(r, d) = Eligible(s, d)
  BY DEF Eligible
<1>2. PositiveDays(r, variant) = PositiveDays(s, variant)
  BY <1>1 DEF PositiveDays
<1> QED
  BY <1>1, <1>2 DEF LinksOf

\* A fire that was read is linked, or excluded by itself or with its cell-day,
\* or its cell-day cannot be read and the dataset is a candidate.
LEMMA EveryFire ==
  ASSUME NEW r \in BuilderRecords, NEW variant, NEW e \in r.events
  PROVE  \/ <<DayOf(e), e>> \in LinksOf(r, variant)
         \/ <<"fire", e>> \in Exclusions(r)
         \/ <<"day", DayOf(e)>> \in Exclusions(r) /\ variant = "strict"
         \/ r.kind = "candidate" /\ DayOf(e) \in Unreadable
<1>1. CASE SplitOf(DayOf(e)) = None \/ e \in r.repeated
  BY <1>1 DEF Exclusions
<1>2. CASE /\ SplitOf(DayOf(e)) # None /\ e \notin r.repeated
           /\ ~(r.kind = "candidate" /\ DayOf(e) \in Unreadable)
  <2>1. DayOf(e) \in Days
    BY DatasetsAssumption DEF BuilderRecords
  <2>2. e \in Eligible(r, DayOf(e))
    BY <1>2 DEF Eligible
  <2>3. CASE variant = "strict" /\ DayOf(e) \in Suspect
    <3>1. DayOf(e) \in PositiveDays(r, "inclusive")
      BY <1>2, <2>1, <2>2, PositiveType
    <3> QED
      BY <2>3, <3>1 DEF Exclusions
  <2>4. CASE ~(variant = "strict" /\ DayOf(e) \in Suspect)
    <3>1. DayOf(e) \in PositiveDays(r, variant)
      BY <1>2, <2>1, <2>2, <2>4, PositiveType
    <3> QED
      BY <1>2, <3>1, LinkLabels
  <2> QED
    BY <2>3, <2>4
<1> QED
  BY <1>1, <1>2

LEMMA CurrentType ==
  ASSUME DatasetTypes, NEW b \in Builders, BuilderSound(b), builder[b].step \in HasTodo
  PROVE  /\ Current(b) \in Versions /\ Head(builder[b].todo) \in Variants
         /\ Current(b)[1] = builder[b].kind /\ Current(b)[2] = Head(builder[b].todo)
<1>1. builder[b].step # "idle"
  BY DEF HasTodo, HasVersion, HasBuild
<1>2. builder[b].kind \in Kinds /\ builder[b].todo \in Todos
  BY <1>1 DEF BuilderSound
<1>3. \A t \in Todos : Head(t) \in Variants
  BY DEF Todos, Variants
<1> QED
  BY <1>2, <1>3 DEF Current, Versions

LEMMA CurrentPrime ==
  ASSUME NEW o, builder'[o].kind = builder[o].kind, builder'[o].todo = builder[o].todo
  PROVE  Current(o)' = Current(o)
BY DEF Current

\* What a step of a command leaves: the other commands, the other builds, what
\* its own build has read, and rows, links and versions.
Keeps(b) ==
  /\ \A o \in Builders : o # b => builder'[o] = builder[o]
  /\ \A n \in DOMAIN builds :
       /\ n \in DOMAIN builds'
       /\ builds'[n].version = builds[n].version /\ builds'[n].read = builds[n].read
       /\ n # builder[b].build => builds'[n] = builds[n]
  /\ \A n \in DOMAIN builds' : n \in DOMAIN builds \/ n = builder'[b].build
  /\ builder'[b].build \in {0, builder[b].build, Len(builds) + 1}
  /\ \A v \in Versions : /\ links[v] \subseteq links'[v]
                         /\ version[v] # None => version'[v] # None

LEMMA KeepsAlone ==
  ASSUME DatasetTypes, NEW b \in Builders, NEW r, Go(b, r), r.build \in {0, builder[b].build},
         UNCHANGED <<links, version, builds>>
  PROVE  Keeps(b)
BY DEF Keeps, Go, DatasetTypes

\* A build whose row changes, but not what it is of.
LEMMA BuildChanges ==
  ASSUME NEW old \in Seq(BuildRows), NEW new, NEW n \in DOMAIN old, NEW row \in BuildRows,
         new = [old EXCEPT ![n] = row]
  PROVE  /\ new \in Seq(BuildRows) /\ DOMAIN new = DOMAIN old /\ Len(new) = Len(old)
         /\ new[n] = row
         /\ \A m \in DOMAIN old : m # n => new[m] = old[m]
<1>1. Len(old) \in Nat /\ old \in [1..Len(old) -> BuildRows] /\ DOMAIN old = 1..Len(old)
  OBVIOUS
<1>2. new \in [1..Len(old) -> BuildRows]
  BY <1>1
<1> QED
  BY <1>1, <1>2

\* What a step of a command does to the command itself.
LEMMA BuilderStep ==
  ASSUME DatasetTypes, NEW b \in Builders, BuilderSound(b), BuildStep(b)
  PROVE  DatasetTypes' /\ Keeps(b) /\ BuilderSound(b)'
<1> DEFINE r == builder[b]
           Done == DatasetTypes' /\ Keeps(b) /\ BuilderSound(b)'
<1>0. r \in BuilderRecords /\ NotBuilding \in BuilderRecords
  BY DEF DatasetTypes, NotBuilding, BuilderRecords, BuilderSteps
<1>1. ASSUME NEW next \in BuilderRecords, Go(b, next), UNCHANGED <<fires, assessed, duplicates, stored>>,
             commands' \in Nat, faults' \in Nat, next.build \in {0, r.build}
      PROVE  DatasetTypes' /\ Keeps(b) /\ builder'[b] = next
  <2>1. builder' = [builder EXCEPT ![b] = next] /\ builder \in [Builders -> BuilderRecords]
    BY <1>1 DEF Go, DatasetTypes
  <2>2. builder' \in [Builders -> BuilderRecords] /\ builder'[b] = next
    BY <2>1
  <2>3. DatasetTypes'
    BY <1>1, <2>2 DEF DatasetTypes, stored
  <2>4. Keeps(b)
    BY <1>1, KeepsAlone DEF stored
  <2> QED
    BY <2>2, <2>3, <2>4
<1>2. ASSUME StopBuilding(b), UNCHANGED <<fires, assessed, duplicates, stored>>, commands' \in Nat, faults' \in Nat
      PROVE  Done
  <2>1. DatasetTypes' /\ Keeps(b) /\ builder'[b] = NotBuilding
    BY <1>0, <1>1, <1>2 DEF StopBuilding, NotBuilding
  <2> QED
    BY <2>1 DEF BuilderSound, NotBuilding, HasTodo, HasVersion, HasBuild, Linked
<1>3. commands \in Nat /\ faults \in Nat /\ commands + 1 \in Nat /\ faults + 1 \in Nat
  BY DEF DatasetTypes
<1>4. ASSUME NEW kind, MayStart(b, kind), NEW s \in CommandSeeds[commands + 1] PROVE s \in Seeds
  BY <1>3, <1>4, DatasetsAssumption DEF MayStart, Seeds
<1>5. CASE StartPilot(b)
  <2>1. PICK s \in CommandSeeds[commands + 1] :
          Go(b, [NotBuilding EXCEPT !.step = "candidates", !.kind = "pilot", !.seed = s])
    BY <1>5 DEF StartPilot
  <2> DEFINE next == [NotBuilding EXCEPT !.step = "candidates", !.kind = "pilot", !.seed = s]
  <2>2. s \in Seeds
    BY <1>4, <1>5 DEF StartPilot
  <2>3. /\ next \in BuilderRecords /\ next.build = 0 /\ next.step = "candidates" /\ next.kind = "pilot"
        /\ next.seed = s
    BY <2>2 DEF NotBuilding, BuilderRecords, BuilderSteps, Kinds
  <2> HIDE DEF next
  <2>4. DatasetTypes' /\ Keeps(b) /\ builder'[b] = next
    BY <1>1, <1>3, <1>5, <2>1, <2>3 DEF StartPilot, sources, next
  <2> QED
    BY <2>2, <2>3, <2>4 DEF BuilderSound, HasTodo, HasVersion, HasBuild, Linked, Kinds
<1>6. CASE StartCandidate(b)
  <2>1. PICK s \in CommandSeeds[commands + 1] :
          Go(b, [NotBuilding EXCEPT !.step = "known", !.kind = "candidate", !.seed = s,
                                    !.window = InPeriod(assessed)])
    BY <1>6 DEF StartCandidate
  <2> DEFINE next == [NotBuilding EXCEPT !.step = "known", !.kind = "candidate", !.seed = s,
                                         !.window = InPeriod(assessed)]
  <2>2. s \in Seeds /\ InPeriod(assessed) \in SUBSET Fires
    BY <1>4, <1>6 DEF StartCandidate, DatasetTypes, InPeriod
  <2>3. /\ next \in BuilderRecords /\ next.build = 0 /\ next.step = "known" /\ next.kind = "candidate"
        /\ next.seed = s
    BY <2>2 DEF NotBuilding, BuilderRecords, BuilderSteps, Kinds
  <2> HIDE DEF next
  <2>4. DatasetTypes' /\ Keeps(b) /\ builder'[b] = next
    BY <1>1, <1>3, <1>6, <2>1, <2>3 DEF StartCandidate, sources, next
  <2> QED
    BY <2>2, <2>3, <2>4 DEF BuilderSound, HasTodo, HasVersion, HasBuild, Linked, Kinds
\* The two readings.
<1>7. ASSUME NEW next \in BuilderRecords, Go(b, next), UNCHANGED <<fires, assessed, duplicates, stored>>,
             commands' = commands, faults' = faults, r.step \in {"known", "candidates"},
             next.step \in {"known", "candidates", "find"}, next.kind = r.kind, next.seed = r.seed,
             next.todo \in Todos, next.build = r.build
      PROVE  Done
  <2>1. DatasetTypes' /\ Keeps(b) /\ builder'[b] = next
    BY <1>1, <1>3, <1>7
  <2>2. r.kind \in Kinds /\ r.seed \in Seeds /\ r.build = 0
    BY <1>7 DEF BuilderSound, HasBuild
  <2> QED
    BY <1>7, <2>1, <2>2 DEF BuilderSound, HasTodo, HasVersion, HasBuild, Linked
<1>8. CASE ReadKnown(b)
  <2> DEFINE next == [r EXCEPT !.known = InPeriod(fires), !.step = AfterKnown(r.kind),
                               !.todo = <<"strict", "inclusive">>]
  <2>1. AfterKnown(r.kind) \in {"find", "candidates"} /\ InPeriod(fires) \in SUBSET Fires
    BY DEF AfterKnown, DatasetTypes, InPeriod
  <2>2. /\ next \in BuilderRecords /\ next.step \in {"known", "candidates", "find"}
        /\ next.kind = r.kind /\ next.seed = r.seed /\ next.todo \in Todos /\ next.build = r.build
    BY <1>0, <2>1 DEF BuilderRecords, BuilderSteps, Todos
  <2>3. Go(b, next)
    BY <1>8 DEF ReadKnown
  <2> HIDE DEF next
  <2> QED
    BY <1>7, <1>8, <2>2, <2>3 DEF ReadKnown, sources
<1>9. CASE ReadCandidates(b)
  <2> DEFINE next == [r EXCEPT !.events = InPeriod(assessed) \ Natural, !.repeated = InPeriod(duplicates) \ Natural,
                               !.step = AfterCandidates(r.kind), !.todo = <<"strict", "inclusive">>]
  <2>1. /\ AfterCandidates(r.kind) \in {"find", "known"}
        /\ InPeriod(assessed) \in SUBSET Fires /\ InPeriod(duplicates) \in SUBSET Fires
    BY DEF AfterCandidates, DatasetTypes, InPeriod
  <2>2. /\ next \in BuilderRecords /\ next.step \in {"known", "candidates", "find"}
        /\ next.kind = r.kind /\ next.seed = r.seed /\ next.todo \in Todos /\ next.build = r.build
    BY <1>0, <2>1 DEF BuilderRecords, BuilderSteps, Todos
  <2>3. Go(b, next)
    BY <1>9 DEF ReadCandidates
  <2> HIDE DEF next
  <2> QED
    BY <1>7, <1>9, <2>2, <2>3 DEF ReadCandidates, sources
\* A step that changes nothing of the command but where it is.
<1>10. ASSUME NEW step \in BuilderSteps, Step(b, step)
       PROVE  /\ builder'[b] = [r EXCEPT !.step = step]
              /\ builder' \in [Builders -> BuilderRecords]
              /\ \A o \in Builders : o # b => builder'[o] = builder[o]
              /\ builder'[b].step = step /\ builder'[b].build = r.build
              /\ builder'[b].kind = r.kind /\ builder'[b].seed = r.seed /\ builder'[b].todo = r.todo
              /\ builder'[b].events = r.events /\ builder'[b].known = r.known
              /\ builder'[b].repeated = r.repeated
              /\ Current(b)' = Current(b)
  <2>1. /\ builder' = [builder EXCEPT ![b] = [r EXCEPT !.step = step]]
        /\ builder \in [Builders -> BuilderRecords]
    BY <1>10 DEF Step, Go, DatasetTypes
  <2>2. [r EXCEPT !.step = step] \in BuilderRecords
    BY <1>0, <1>10 DEF BuilderRecords
  <2>3. builder'[b] = [r EXCEPT !.step = step]
    BY <2>1
  <2>4. builder'[b].kind = r.kind /\ builder'[b].todo = r.todo
    BY <1>0, <2>3 DEF BuilderRecords
  <2> QED
    BY <1>0, <2>1, <2>2, <2>3, <2>4, CurrentPrime DEF BuilderRecords
<1>11. CASE FindVersion(b)
  <2>1. CASE StopBuilding(b)
    BY <1>2, <1>3, <1>11, <2>1 DEF FindVersion, sources
  <2>2. ASSUME NEW step \in {"create", "mark"}, Step(b, step),
               step = "mark" => version[Current(b)] # None
        PROVE  Done
    <3>1. step \in BuilderSteps
      BY DEF BuilderSteps
    <3>2. DatasetTypes'
      BY <1>10, <1>11, <2>2, <3>1 DEF FindVersion, DatasetTypes, stored, sources
    <3>3. Keeps(b)
      BY <1>10, <1>11, <2>2, <3>1 DEF FindVersion, Keeps, stored, sources
    <3>4. r.kind \in Kinds /\ r.seed \in Seeds /\ r.todo \in Todos /\ r.build = 0
      BY <1>11 DEF FindVersion, BuilderSound, HasTodo, HasVersion, HasBuild
    <3>5. BuilderSound(b)'
      BY <1>10, <1>11, <2>2, <3>1, <3>4
         DEF FindVersion, stored, BuilderSound, HasTodo, HasVersion, HasBuild, Linked
    <3> QED
      BY <3>2, <3>3, <3>5
  <2> QED
    BY <1>11, <2>1, <2>2 DEF FindVersion
<1>12. ASSUME r.step \in HasTodo
       PROVE  Current(b) \in Versions /\ r.kind \in Kinds /\ r.seed \in Seeds /\ r.todo \in Todos
  BY <1>12, CurrentType DEF BuilderSound, HasTodo, HasVersion, HasBuild
<1>13. CASE CreateVersion(b)
  <2>1. CASE StopBuilding(b) /\ version' = version
    BY <1>2, <1>3, <1>13, <2>1 DEF CreateVersion, sources, stored
  <2>2. CASE /\ version[Current(b)] = None
             /\ version' = [version EXCEPT ![Current(b)] = [status |-> "draft", seed |-> r.seed]]
             /\ Step(b, "mark")
    <3>1. /\ Current(b) \in Versions /\ r.kind \in Kinds /\ r.seed \in Seeds /\ r.todo \in Todos
          /\ r.build = 0
      BY <1>12, <1>13 DEF CreateVersion, HasTodo, HasVersion, HasBuild, BuilderSound
    <3>2. "mark" \in BuilderSteps
      BY DEF BuilderSteps
    <3>3. [status |-> "draft", seed |-> r.seed] \in VersionRows
      BY <3>1 DEF VersionRows
    <3>4. /\ version' \in [Versions -> {None} \cup VersionRows] /\ version'[Current(b)] # None
          /\ \A v \in Versions : version[v] # None => version'[v] # None
      BY <2>2, <3>1, <3>3, DatasetsAssumption DEF DatasetTypes
    <3>5. DatasetTypes'
      BY <1>10, <1>13, <2>2, <3>2, <3>4 DEF CreateVersion, DatasetTypes, sources
    <3>6. Keeps(b)
      BY <1>10, <1>13, <2>2, <3>2, <3>4 DEF CreateVersion, Keeps
    <3>7. BuilderSound(b)'
      BY <1>10, <2>2, <3>1, <3>2, <3>4 DEF BuilderSound, HasTodo, HasVersion, HasBuild, Linked
    <3> QED
      BY <3>5, <3>6, <3>7
  <2> QED
    BY <1>13, <2>1, <2>2 DEF CreateVersion
<1>14. ASSUME NEW status \in {"draft", "building", "validated", "failed"}, r.step \in HasVersion,
              SetStatus(Current(b), status)
       PROVE  /\ version' \in [Versions -> {None} \cup VersionRows]
              /\ \A v \in Versions : version[v] # None => version'[v] # None
  <2>1. Current(b) \in Versions /\ version[Current(b)] # None
    BY <1>12, <1>14 DEF HasTodo, BuilderSound
  <2>2. version[Current(b)] \in VersionRows /\ version \in [Versions -> {None} \cup VersionRows]
    BY <2>1 DEF DatasetTypes
  <2>3. [version[Current(b)] EXCEPT !.status = status] \in VersionRows
    BY <2>2 DEF VersionRows
  <2> QED
    BY <1>14, <2>1, <2>2, <2>3, DatasetsAssumption DEF SetStatus
<1>15. CASE MarkBuilding(b)
  <2>1. "start" \in BuilderSteps /\ r.step \in HasVersion /\ Step(b, "start") /\ r.step \in HasTodo
    BY <1>15 DEF MarkBuilding, BuilderSteps, HasTodo, HasVersion
  <2>2. /\ version' \in [Versions -> {None} \cup VersionRows]
        /\ \A v \in Versions : version[v] # None => version'[v] # None
    BY <1>14, <1>15, <2>1 DEF MarkBuilding
  <2>3. DatasetTypes'
    BY <1>10, <1>15, <2>1, <2>2 DEF MarkBuilding, DatasetTypes, sources
  <2>4. Keeps(b)
    BY <1>10, <1>15, <2>1, <2>2 DEF MarkBuilding, Keeps
  <2>5. version'[Current(b)'] # None /\ r.build = 0
    BY <1>10, <1>12, <1>15, <2>1, <2>2 DEF BuilderSound, MarkBuilding, HasBuild
  <2>6. BuilderSound(b)'
    BY <1>10, <1>12, <2>1, <2>5 DEF BuilderSound, HasTodo, HasVersion, HasBuild, Linked
  <2> QED
    BY <2>3, <2>4, <2>6
<1>16. CASE StartBuild(b)
  <2> DEFINE row == [version |-> Current(b), status |-> "running", count |-> 0,
                     read |-> [known |-> r.known, events |-> r.events]]
             next == [r EXCEPT !.step = "rows", !.build = Len(builds) + 1]
  <2>1. /\ r.step \in HasTodo /\ r.step \in HasVersion
        /\ builds' = Append(builds, row) /\ Go(b, next)
    BY <1>16 DEF StartBuild, HasTodo, HasVersion
  <2>2. Current(b) \in Versions /\ r.kind \in Kinds /\ r.seed \in Seeds /\ r.todo \in Todos
    BY <1>12, <2>1
  <2>3. row \in BuildRows
    BY <1>0, <2>2 DEF BuildRows, Readings, BuilderRecords
  <2>4. builds \in Seq(BuildRows) /\ Len(builds) \in Nat
    BY DEF DatasetTypes
  <2> HIDE DEF row
  <2>5. /\ builds' \in Seq(BuildRows) /\ Len(builds') = Len(builds) + 1
        /\ builds'[Len(builds) + 1] = row
        /\ DOMAIN builds = 1..Len(builds) /\ DOMAIN builds' = 1..(Len(builds) + 1)
        /\ \A n \in 1..Len(builds) : builds'[n] = builds[n]
    BY <2>1, <2>3, <2>4
  <2>6. /\ next \in BuilderRecords /\ next.step = "rows" /\ next.build = Len(builds) + 1
        /\ next.kind = r.kind /\ next.seed = r.seed /\ next.todo = r.todo
        /\ next.known = r.known /\ next.events = r.events
    <3>1. Len(builds) + 1 \in Nat /\ "rows" \in BuilderSteps
      BY <2>4 DEF BuilderSteps
    <3> DEFINE id == Len(builds) + 1
    <3> HIDE DEF id
    <3>2. next = [r EXCEPT !.step = "rows", !.build = id] /\ id \in Nat
      BY <3>1 DEF id
    <3>3. next.build = Len(builds) + 1
      BY <1>0, <3>2 DEF BuilderRecords, id
    <3> HIDE DEF next
    <3> QED
      BY <1>0, <3>1, <3>2, <3>3 DEF BuilderRecords
  <2> HIDE DEF next
  <2>7. /\ builder'[b] = next /\ builder' \in [Builders -> BuilderRecords]
        /\ \A o \in Builders : o # b => builder'[o] = builder[o]
    BY <2>1, <2>6 DEF Go, DatasetTypes
  <2>8. Current(b)' = Current(b)
    BY <2>6, <2>7, CurrentPrime
  <2>9. DatasetTypes'
    BY <1>16, <2>5, <2>7 DEF StartBuild, DatasetTypes, sources
  <2>10. Keeps(b)
    <3>1. Len(builds) + 1 \in DOMAIN builds'
      BY <2>4, <2>5
    <3>2. \A n \in DOMAIN builds' : n \in DOMAIN builds \/ n = Len(builds) + 1
      BY <2>4, <2>5
    <3>3. \A n \in DOMAIN builds : n \in DOMAIN builds' /\ builds'[n] = builds[n]
      BY <2>4, <2>5
    <3> QED
      BY <1>16, <2>6, <2>7, <3>2, <3>3 DEF StartBuild, Keeps
  <2>11. version[Current(b)] # None /\ version' = version
    BY <1>16, <2>1 DEF BuilderSound, StartBuild
  <2>12. /\ Len(builds) + 1 \in DOMAIN builds'
         /\ row.version = Current(b) /\ row.status = "running"
         /\ row.read = [known |-> r.known, events |-> r.events]
    BY <2>4, <2>5 DEF row
  <2>13. BuilderSound(b)'
    BY <2>2, <2>5, <2>6, <2>7, <2>8, <2>11, <2>12
       DEF BuilderSound, HasTodo, HasVersion, HasBuild, Linked, StatusAt
  <2> QED
    BY <2>9, <2>10, <2>13
\* Steps of a command that has a build.
<1>17. ASSUME r.step \in HasBuild
       PROVE  /\ r.step \in HasTodo /\ r.step \in HasVersion
              /\ Current(b) \in Versions /\ r.kind \in Kinds /\ r.seed \in Seeds /\ r.todo \in Todos
              /\ r.build \in DOMAIN builds /\ builds[r.build] \in BuildRows
              /\ builds[r.build].version = Current(b)
              /\ builds[r.build].status = StatusAt(r.step)
              /\ builds[r.build].read = [known |-> r.known, events |-> r.events]
              /\ version[Current(b)] # None
              /\ r.step \in Linked => LinksOf(r, Head(r.todo)) \subseteq links[Current(b)]
  <2>1. r.step \in HasTodo /\ r.step \in HasVersion
    BY <1>17 DEF HasTodo, HasVersion
  <2>2. r.build \in DOMAIN builds /\ builds \in Seq(BuildRows)
    BY <1>17 DEF BuilderSound, DatasetTypes
  <2>3. builds[r.build] \in BuildRows
    BY <2>2
  <2> QED
    BY <1>12, <1>17, <2>1, <2>2, <2>3 DEF BuilderSound
<1>18. ASSUME NEW step \in HasBuild, r.step \in HasBuild, Step(b, step), version' = version,
              \A v \in Versions : links[v] \subseteq links'[v],
              links' \in [Versions -> SUBSET (Days \X Fires)],
              rows' \in [Versions -> SUBSET (Days \X {0, 1})],
              excluded' \in [Versions -> SUBSET (Nat \X Causes)],
              UNCHANGED <<fires, assessed, duplicates, commands>>, faults' \in Nat,
              NEW row \in BuildRows, builds' \in Seq(BuildRows), DOMAIN builds' = DOMAIN builds,
              builds'[r.build] = row, \A m \in DOMAIN builds : m # r.build => builds'[m] = builds[m],
              row.version = Current(b), row.status = StatusAt(step),
              row.read = builds[r.build].read,
              step \in Linked => LinksOf(r, Head(r.todo)) \subseteq links'[Current(b)]
       PROVE  Done
  <2>1. step \in BuilderSteps
    BY <1>18 DEF HasBuild, BuilderSteps
  <2>2. r.build \in DOMAIN builds
    BY <1>17, <1>18
  <2>4. DatasetTypes'
    BY <1>10, <1>18, <2>1 DEF DatasetTypes
  <2>5. Keeps(b)
    BY <1>10, <1>17, <1>18, <2>1 DEF Keeps
  <2>6. LinksOf(builder'[b], Head(builder'[b].todo)) = LinksOf(r, Head(r.todo))
    <3>1. /\ builder'[b].events = r.events /\ builder'[b].repeated = r.repeated
          /\ builder'[b].todo = r.todo /\ builder'[b].kind = r.kind
      BY <1>10, <1>18, <2>1
    <3> HIDE DEF r
    <3> QED
      BY <3>1, LinksDepend
  <2>7. step \in HasVersion /\ step \in HasTodo
    BY <1>18 DEF HasVersion, HasTodo
  <2>8. step # "idle"
    BY <1>18 DEF HasBuild
  <2>10. BuilderSound(b)'
    BY <1>10, <1>17, <1>18, <2>1, <2>2, <2>6, <2>7, <2>8 DEF BuilderSound
  <2> QED
    BY <2>4, <2>5, <2>10
\* Of these, the ones that leave the rows of builds.
<1>19. ASSUME NEW step \in HasBuild, r.step \in HasBuild, Step(b, step), StatusAt(step) = StatusAt(r.step),
              \A v \in Versions : links[v] \subseteq links'[v],
              links' \in [Versions -> SUBSET (Days \X Fires)],
              rows' \in [Versions -> SUBSET (Days \X {0, 1})],
              excluded' \in [Versions -> SUBSET (Nat \X Causes)],
              UNCHANGED <<fires, assessed, duplicates, commands, version, builds, faults>>,
              step \in Linked => LinksOf(r, Head(r.todo)) \subseteq links'[Current(b)]
       PROVE  Done
  <2>1. builds \in Seq(BuildRows)
    BY DEF DatasetTypes
  <2> QED
    BY <1>3, <1>17, <1>18, <1>19, <2>1
<1>20. CASE PersistRows(b)
  <2> DEFINE variant == Head(r.todo)
  <2>1. r.step = "rows" /\ r.step \in HasBuild /\ "delete" \in HasBuild
    BY <1>20 DEF PersistRows, HasBuild
  <2>2. Current(b) \in Versions
    BY <1>17, <2>1
  <2>3. RowsOf(r, variant) \subseteq Days \X {0, 1} /\ LinksOf(r, variant) \subseteq Days \X Fires
    BY <1>0, DerivedTypes
  <2>4. /\ rows' = [rows EXCEPT ![Current(b)] = @ \cup RowsOf(r, variant)]
        /\ links' = [links EXCEPT ![Current(b)] = @ \cup LinksOf(r, variant)]
    BY <1>20 DEF PersistRows, RowsKept
  <2>5. /\ rows \in [Versions -> SUBSET (Days \X {0, 1})]
        /\ links \in [Versions -> SUBSET (Days \X Fires)]
    BY DEF DatasetTypes
  <2> HIDE DEF variant
  <2>6. /\ links' \in [Versions -> SUBSET (Days \X Fires)]
        /\ \A v \in Versions : links[v] \subseteq links'[v]
        /\ LinksOf(r, variant) \subseteq links'[Current(b)]
    BY <2>2, <2>3, <2>4, <2>5
  <2>7. rows' \in [Versions -> SUBSET (Days \X {0, 1})]
    BY <2>2, <2>3, <2>4, <2>5
  <2>8. StatusAt("delete") = StatusAt(r.step)
    BY <2>1 DEF StatusAt
  <2>9. Step(b, "delete") /\ UNCHANGED <<fires, assessed, duplicates, commands, version, builds, faults, excluded>>
    BY <1>20 DEF PersistRows, sources
  <2>10. excluded \in [Versions -> SUBSET (Nat \X Causes)]
    BY DEF DatasetTypes
  <2> QED
    BY <1>19, <2>1, <2>6, <2>7, <2>8, <2>9, <2>10 DEF variant
\* The two that change the row of their build.
<1>21. ASSUME NEW step \in HasBuild, r.step \in HasBuild, Step(b, step),
              UNCHANGED <<fires, assessed, duplicates, commands, version, rows, links, excluded>>, faults' \in Nat,
              NEW row \in BuildRows, builds' = [builds EXCEPT ![r.build] = row],
              row.version = builds[r.build].version, row.status = StatusAt(step),
              row.read = builds[r.build].read, step \in Linked => r.step \in Linked
       PROVE  Done
  <2>1. r.build \in DOMAIN builds /\ builds \in Seq(BuildRows)
    BY <1>17, <1>21 DEF DatasetTypes
  <2>2. /\ builds' \in Seq(BuildRows) /\ DOMAIN builds' = DOMAIN builds
        /\ builds'[r.build] = row
        /\ \A m \in DOMAIN builds : m # r.build => builds'[m] = builds[m]
    BY <1>21, <2>1, BuildChanges
  <2>3. /\ links \in [Versions -> SUBSET (Days \X Fires)]
        /\ rows \in [Versions -> SUBSET (Days \X {0, 1})]
        /\ excluded \in [Versions -> SUBSET (Nat \X Causes)]
    BY DEF DatasetTypes
  <2>4. /\ row.version = Current(b) /\ version' = version
        /\ UNCHANGED <<fires, assessed, duplicates, commands>>
        /\ links' \in [Versions -> SUBSET (Days \X Fires)]
        /\ rows' \in [Versions -> SUBSET (Days \X {0, 1})]
        /\ excluded' \in [Versions -> SUBSET (Nat \X Causes)]
        /\ \A v \in Versions : links[v] \subseteq links'[v]
    BY <1>17, <1>21, <2>3
  <2>5. step \in Linked => LinksOf(r, Head(r.todo)) \subseteq links'[Current(b)]
    BY <1>17, <1>21
  <2> HIDE DEF Done
  <2> QED
    BY <1>18, <1>21, <2>2, <2>4, <2>5
<1>22. CASE PersistRowsFails(b)
  <2> DEFINE row == [builds[r.build] EXCEPT !.status = "failed"]
  <2>1. r.step \in HasBuild /\ "fail" \in HasBuild /\ "fail" \notin Linked
    BY <1>22 DEF PersistRowsFails, HasBuild, Linked
  <2>2. builds[r.build] \in BuildRows
    BY <1>17, <2>1
  <2>3. /\ row \in BuildRows /\ row.version = builds[r.build].version
        /\ row.status = StatusAt("fail") /\ row.read = builds[r.build].read
    BY <2>2 DEF BuildRows, StatusAt
  <2>4. builds' = [builds EXCEPT ![r.build] = row]
    BY <1>22 DEF PersistRowsFails
  <2> HIDE DEF row
  <2> QED
    BY <1>3, <1>21, <1>22, <2>1, <2>3, <2>4 DEF PersistRowsFails, sources
<1>23. CASE FinishBuild(b)
  <2> DEFINE count == Cardinality(RowsOf(r, Head(r.todo)))
             row == [builds[r.build] EXCEPT !.status = "succeeded", !.count = count]
  <2>1. r.step \in HasBuild /\ "done" \in HasBuild /\ r.step \in Linked
    BY <1>23 DEF FinishBuild, HasBuild, Linked
  <2>2. builds[r.build] \in BuildRows
    BY <1>17, <2>1
  <2>3. count \in Counts
    BY <1>0, DerivedTypes
  <2>4. builds' = [builds EXCEPT ![r.build] = row]
    BY <1>23 DEF FinishBuild
  <2> HIDE DEF count
  <2>5. /\ row \in BuildRows /\ row.version = builds[r.build].version
        /\ row.status = StatusAt("done") /\ row.read = builds[r.build].read
    BY <2>2, <2>3 DEF BuildRows, StatusAt
  <2> HIDE DEF row
  <2> QED
    BY <1>3, <1>21, <1>23, <2>1, <2>4, <2>5 DEF FinishBuild, sources
<1>24. CASE MarkVersionFailed(b)
  <2>1. r.step \in HasVersion /\ StopBuilding(b) /\ SetStatus(Current(b), "failed")
    BY <1>24 DEF MarkVersionFailed, HasVersion, HasBuild
  <2>2. /\ version' \in [Versions -> {None} \cup VersionRows]
        /\ \A v \in Versions : version[v] # None => version'[v] # None
    BY <1>14, <2>1
  <2>3. /\ builder' \in [Builders -> BuilderRecords] /\ builder'[b] = NotBuilding
        /\ \A o \in Builders : o # b => builder'[o] = builder[o]
    BY <1>0, <2>1 DEF StopBuilding, Go, DatasetTypes
  <2>4. DatasetTypes'
    BY <1>24, <2>2, <2>3 DEF MarkVersionFailed, DatasetTypes, sources
  <2>5. Keeps(b)
    BY <1>24, <2>2, <2>3 DEF MarkVersionFailed, Keeps, NotBuilding
  <2>6. BuilderSound(b)'
    BY <2>3 DEF BuilderSound, NotBuilding, HasTodo, HasVersion, HasBuild, Linked
  <2> QED
    BY <2>4, <2>5, <2>6
<1>25. CASE DeleteExclusions(b)
  <2>1. /\ r.step \in HasBuild /\ "exclude" \in HasBuild /\ r.step \in Linked
        /\ StatusAt("exclude") = StatusAt(r.step)
    BY <1>25 DEF DeleteExclusions, HasBuild, Linked, StatusAt
  <2>2. Current(b) \in Versions /\ LinksOf(r, Head(r.todo)) \subseteq links[Current(b)]
    BY <1>17, <2>1
  <2>3. /\ excluded' \in [Versions -> SUBSET (Nat \X Causes)]
        /\ links \in [Versions -> SUBSET (Days \X Fires)]
        /\ rows \in [Versions -> SUBSET (Days \X {0, 1})]
    BY <1>25, <2>2 DEF DeleteExclusions, DatasetTypes
  <2> QED
    BY <1>19, <1>25, <2>1, <2>2, <2>3 DEF DeleteExclusions, sources
<1>26. CASE InsertExclusions(b)
  <2>1. /\ r.step \in HasBuild /\ "finish" \in HasBuild /\ r.step \in Linked
        /\ StatusAt("finish") = StatusAt(r.step)
    BY <1>26 DEF InsertExclusions, HasBuild, Linked, StatusAt
  <2>2. Current(b) \in Versions /\ LinksOf(r, Head(r.todo)) \subseteq links[Current(b)]
    BY <1>17, <2>1
  <2>3. {<<r.build, x>> : x \in Exclusions(r)} \in SUBSET (Nat \X Causes)
    <3>1. r.build \in Nat
      BY <1>0 DEF BuilderRecords
    <3>2. Exclusions(r) \subseteq Causes
      BY <1>0, DerivedTypes
    <3> QED
      BY <3>1, <3>2
  <2>4. /\ links \in [Versions -> SUBSET (Days \X Fires)]
        /\ rows \in [Versions -> SUBSET (Days \X {0, 1})]
        /\ excluded \in [Versions -> SUBSET (Nat \X Causes)]
    BY DEF DatasetTypes
  <2> DEFINE more == {<<r.build, x>> : x \in Exclusions(r)}
  <2>5. excluded' = [excluded EXCEPT ![Current(b)] = @ \cup more]
    BY <1>26 DEF InsertExclusions
  <2> HIDE DEF more
  <2>6. excluded' \in [Versions -> SUBSET (Nat \X Causes)]
    BY <2>2, <2>3, <2>4, <2>5 DEF more
  <2> QED
    BY <1>19, <1>26, <2>1, <2>2, <2>4, <2>6 DEF InsertExclusions, sources
<1>27. CASE MarkBuilt(b)
  <2>1. r.step \in HasVersion /\ r.step \in HasBuild /\ BuiltStatus(r.kind) \in {"validated", "draft"}
    BY <1>27 DEF MarkBuilt, HasVersion, HasBuild, BuiltStatus
  <2>2. /\ version' \in [Versions -> {None} \cup VersionRows]
        /\ \A v \in Versions : version[v] # None => version'[v] # None
    BY <1>14, <1>27, <2>1 DEF MarkBuilt
  <2>3. r.todo \in Todos /\ r.kind \in Kinds /\ r.seed \in Seeds
    BY <1>17, <2>1
  <2> DEFINE next == IF Len(r.todo) = 1 THEN NotBuilding
                     ELSE [r EXCEPT !.step = "find", !.todo = Tail(@), !.build = 0]
  <2>4. Go(b, next)
    BY <1>27 DEF MarkBuilt, StopBuilding, Go
  <2>5. CASE Len(r.todo) = 1
    <3>1. next = NotBuilding
      BY <2>5
    <3>2. /\ builder' \in [Builders -> BuilderRecords] /\ builder'[b] = NotBuilding
          /\ \A o \in Builders : o # b => builder'[o] = builder[o]
      BY <1>0, <2>4, <3>1 DEF Go, DatasetTypes
    <3>3. DatasetTypes'
      BY <1>27, <2>2, <3>2 DEF MarkBuilt, DatasetTypes, sources
    <3>4. Keeps(b)
      BY <1>27, <2>2, <3>2 DEF MarkBuilt, Keeps, NotBuilding
    <3>5. BuilderSound(b)'
      BY <3>2 DEF BuilderSound, NotBuilding, HasTodo, HasVersion, HasBuild, Linked
    <3> QED
      BY <3>3, <3>4, <3>5
  <2>6. CASE Len(r.todo) # 1
    <3>1. r.todo = <<"strict", "inclusive">>
      BY <2>3, <2>6 DEF Todos
    <3>2. Tail(r.todo) = <<"inclusive">>
      BY <3>1
    <3>3. /\ next \in BuilderRecords /\ next.step = "find" /\ next.build = 0
          /\ next.kind = r.kind /\ next.seed = r.seed /\ next.todo \in Todos
      BY <1>0, <2>6, <3>2 DEF BuilderRecords, BuilderSteps, Todos
    <3> HIDE DEF next
    <3>4. /\ builder' \in [Builders -> BuilderRecords] /\ builder'[b] = next
          /\ \A o \in Builders : o # b => builder'[o] = builder[o]
      BY <2>4, <3>3 DEF Go, DatasetTypes
    <3>5. DatasetTypes'
      BY <1>27, <2>2, <3>4 DEF MarkBuilt, DatasetTypes, sources
    <3>6. Keeps(b)
      BY <1>27, <2>2, <3>3, <3>4 DEF MarkBuilt, Keeps
    <3>7. BuilderSound(b)'
      BY <2>3, <3>3, <3>4 DEF BuilderSound, HasTodo, HasVersion, HasBuild, Linked
    <3> QED
      BY <3>5, <3>6, <3>7
  <2> QED
    BY <2>5, <2>6
<1>28. CASE BuildStops(b)
  BY <1>2, <1>3, <1>28 DEF BuildStops, sources
<1> QED
  BY <1>5, <1>6, <1>8, <1>9, <1>11, <1>13, <1>15, <1>16, <1>20, <1>22, <1>23, <1>24, <1>25, <1>26,
     <1>27, <1>28 DEF BuildStep

\* What every step of a command keeps, also of what another has begun.
LEMMA KeptByOthers ==
  ASSUME DatasetTypes, DatasetTypes', NEW b \in Builders, Keeps(b), BuilderSound(b)',
         \A o \in Builders : BuilderSound(o), OwnBuilds
  PROVE  /\ \A o \in Builders : BuilderSound(o)'
         /\ OwnBuilds'
         /\ \A v \in Versions : BuildsOf(v) \subseteq BuildsOf(v)'
<1>1. ASSUME NEW o \in Builders, o # b PROVE BuilderSound(o)'
  <2>1. builder'[o] = builder[o]
    BY <1>1 DEF Keeps
  <2>2. Current(o)' = Current(o)
    BY <2>1, CurrentPrime
  <2>3. BuilderSound(o)
    OBVIOUS
  <2>4. CASE builder[o].step \in HasBuild
    <3>1. builder[o].build \in DOMAIN builds /\ builder[o].step \in HasTodo
      BY <2>3, <2>4 DEF BuilderSound, HasTodo, HasVersion
    <3>2. builder[o].build # 0
      <4>1. builds \in Seq(BuildRows)
        BY DEF DatasetTypes
      <4>2. DOMAIN builds = 1..Len(builds) /\ Len(builds) \in Nat
        BY <4>1
      <4> QED
        BY <3>1, <4>2
    <3>3. builder[o].build # builder[b].build
      BY <1>1, <3>2 DEF OwnBuilds
    <3>4. builder[o].build \in DOMAIN builds' /\ builds'[builder[o].build] = builds[builder[o].build]
      BY <3>1, <3>3 DEF Keeps
    <3>5. Current(o) \in Versions
      BY <2>3, <3>1, CurrentType
    <3>6. links[Current(o)] \subseteq links'[Current(o)]
      BY <3>5 DEF Keeps
    <3>7. version[Current(o)] # None => version'[Current(o)] # None
      BY <3>5 DEF Keeps
    <3>8. LinksOf(builder[o], Head(builder[o].todo))' = LinksOf(builder[o], Head(builder[o].todo))
      BY <2>1, LinksDepend DEF LinksOf, Eligible, PositiveDays
    <3> QED
      BY <2>1, <2>2, <2>3, <2>4, <3>4, <3>6, <3>7, <3>8 DEF BuilderSound
  <2>5. CASE builder[o].step \notin HasBuild
    <3>1. CASE builder[o].step \in HasVersion
      <4>1. Current(o) \in Versions
        BY <2>3, <3>1, CurrentType DEF HasTodo
      <4>2. version[Current(o)] # None => version'[Current(o)] # None
        BY <4>1 DEF Keeps
      <4> QED
        BY <2>1, <2>2, <2>3, <2>5, <3>1, <4>2 DEF BuilderSound, HasBuild, Linked
    <3>2. CASE builder[o].step \notin HasVersion
      BY <2>1, <2>2, <2>3, <2>5, <3>2 DEF BuilderSound, HasBuild, Linked
    <3> QED
      BY <3>1, <3>2
  <2> QED
    BY <2>4, <2>5
<1>2. OwnBuilds'
  <2> SUFFICES ASSUME NEW x \in Builders, NEW y \in Builders, x # y, builder'[x].build # 0
               PROVE  builder'[x].build # builder'[y].build
    BY DEF OwnBuilds
  <2>1. builds \in Seq(BuildRows)
    BY DEF DatasetTypes
  <2>2. DOMAIN builds = 1..Len(builds) /\ Len(builds) \in Nat
    BY <2>1
  <2>3. \A o \in Builders : builder[o].build = 0 \/ builder[o].build \in DOMAIN builds
    BY DEF BuilderSound
  <2>4. \A o \in Builders : o # b => builder'[o].build = builder[o].build
    BY DEF Keeps
  <2>5. builder'[b].build \in {0, builder[b].build, Len(builds) + 1}
    BY DEF Keeps
  <2>6. \A o \in Builders : builder[o].build # Len(builds) + 1
    BY <2>2, <2>3
  <2>7. \A o, c \in Builders : o # c /\ builder[o].build # 0 => builder[o].build # builder[c].build
    BY DEF OwnBuilds
  <2>8. CASE x # b /\ y # b
    BY <2>4, <2>7, <2>8
  <2>9. CASE x = b
    BY <2>4, <2>5, <2>6, <2>7, <2>9
  <2>10. CASE y = b
    BY <2>4, <2>5, <2>6, <2>7, <2>10
  <2> QED
    BY <2>8, <2>9, <2>10
<1>3. \A v \in Versions : BuildsOf(v) \subseteq BuildsOf(v)'
  BY DEF Keeps, BuildsOf
<1> QED
  BY <1>1, <1>2, <1>3

LEMMA ExplainedKept ==
  ASSUME NEW b \in Builders, Keeps(b), NEW v \in Versions, NEW d \in Days, RowExplained(v, d),
         UNCHANGED <<rows, links>>
  PROVE  RowExplained(v, d)'
<1>1. \A n \in BuildsOf(v) : n \in BuildsOf(v)' /\ builds'[n].read = builds[n].read
  BY DEF Keeps, BuildsOf
<1> QED
  BY <1>1 DEF RowExplained

\* Labels with their reasons.
LEMMA ExplainedStep ==
  ASSUME DatasetTypes, NEW b \in Builders, BuilderSound(b), BuildStep(b), Keeps(b),
         NEW v \in Versions, NEW d \in Days, RowExplained(v, d)
  PROVE  RowExplained(v, d)'
<1>1. CASE UNCHANGED <<rows, links>>
  BY <1>1, ExplainedKept
<1>2. CASE PersistRows(b)
  <2> DEFINE r == builder[b]
             n == r.build
             variant == Head(r.todo)
  <2>1. builder[b].step = "rows" /\ builds' = builds
    BY <1>2 DEF PersistRows
  <2>2. /\ Current(b) \in Versions /\ r \in BuilderRecords
        /\ n \in DOMAIN builds /\ builds[n].version = Current(b)
        /\ builds[n].read.known = r.known
    BY <2>1, CurrentType DEF BuilderSound, HasTodo, HasVersion, HasBuild, DatasetTypes
  <2>3. /\ rows' = [rows EXCEPT ![Current(b)] = @ \cup RowsOf(r, variant)]
        /\ links' = [links EXCEPT ![Current(b)] = @ \cup LinksOf(r, variant)]
        /\ rows \in [Versions -> SUBSET (Days \X {0, 1})]
        /\ links \in [Versions -> SUBSET (Days \X Fires)]
    BY <1>2 DEF PersistRows, RowsKept, DatasetTypes
  <2> HIDE DEF variant
  <2>4. CASE v # Current(b)
    BY <2>1, <2>3, <2>4 DEF RowExplained, BuildsOf
  <2>5. CASE v = Current(b)
    <3>1. /\ rows'[v] = rows[v] \cup RowsOf(r, variant)
          /\ links'[v] = links[v] \cup LinksOf(r, variant)
      BY <2>2, <2>3, <2>5
    <3>2. /\ <<d, 0>> \in RowsOf(r, variant) => \A e \in builds[n].read.known : DayOf(e) # d
          /\ <<d, 1>> \in RowsOf(r, variant) <=> d \in PositiveDays(r, variant)
      BY <2>2, RowLabels DEF KnownDays
    <3>3. n \in BuildsOf(v)
      BY <2>2, <2>5 DEF BuildsOf
    <3>4. d \in PositiveDays(r, variant) <=> \E e \in Fires : <<d, e>> \in LinksOf(r, variant)
      <4>1. ASSUME d \in PositiveDays(r, variant) PROVE \E e \in Fires : <<d, e>> \in LinksOf(r, variant)
        <5>1. PICK e \in Eligible(r, d) : TRUE
          BY <4>1, PositiveType
        <5>2. e \in Fires
          BY <2>2 DEF Eligible, BuilderRecords
        <5>3. <<d, e>> \in LinksOf(r, variant)
          BY <4>1, <5>1, LinkLabels DEF Eligible
        <5> QED
          BY <5>2, <5>3
      <4> QED
        BY <4>1, LinkLabels
    <3>5. \A e \in Fires : <<d, e>> \in LinksOf(r, variant) => DayOf(e) = d
      BY LinkLabels
    <3>6. BuildsOf(v)' = BuildsOf(v)
      BY <2>1 DEF BuildsOf
    <3>7. <<d, 0>> \in rows'[v] =>
            \E m \in BuildsOf(v) : \A e \in builds[m].read.known : DayOf(e) # d
      BY <3>1, <3>2, <3>3 DEF RowExplained
    <3>8. <<d, 1>> \in rows'[v] <=> \E e \in Fires : <<d, e>> \in links'[v]
      BY <3>1, <3>2, <3>4 DEF RowExplained
    <3>9. \A e \in Fires : <<d, e>> \in links'[v] => DayOf(e) = d
      BY <3>1, <3>5 DEF RowExplained
    <3> QED
      BY <2>1, <3>6, <3>7, <3>8, <3>9 DEF RowExplained
  <2> QED
    BY <2>4, <2>5
<1> QED
  BY <1>1, <1>2 DEF BuildStep, StartPilot, StartCandidate, ReadKnown, ReadCandidates, FindVersion,
     CreateVersion, MarkBuilding, StartBuild, PersistRowsFails, MarkVersionFailed, DeleteExclusions,
     InsertExclusions, FinishBuild, MarkBuilt, BuildStops, stored

\* What each step may write, and where it leaves the command.
LEMMA StepWrites ==
  ASSUME DatasetTypes, NEW b \in Builders, BuildStep(b)
  PROVE  /\ builder[b].step = "exclude" => InsertExclusions(b)
         /\ InsertExclusions(b) \/ DeleteExclusions(b) \/ excluded' = excluded
         /\ StartBuild(b) \/ PersistRowsFails(b) \/ FinishBuild(b) \/ builds' = builds
         /\ PersistRows(b) \/ UNCHANGED <<rows, links>>
         /\ CreateVersion(b) \/ MarkBuilding(b) \/ MarkVersionFailed(b) \/ MarkBuilt(b) \/ version' = version
         /\ builder'[b].step = "finish" => InsertExclusions(b)
         /\ builder'[b].step = "rows" => StartBuild(b)
         /\ faults' \in {faults, faults + 1}
<1>1. /\ builder[b].step = "exclude" => InsertExclusions(b)
      /\ InsertExclusions(b) \/ DeleteExclusions(b) \/ excluded' = excluded
      /\ StartBuild(b) \/ PersistRowsFails(b) \/ FinishBuild(b) \/ builds' = builds
      /\ PersistRows(b) \/ UNCHANGED <<rows, links>>
      /\ CreateVersion(b) \/ MarkBuilding(b) \/ MarkVersionFailed(b) \/ MarkBuilt(b) \/ version' = version
      /\ faults' \in {faults, faults + 1}
  BY DEF BuildStep, StartPilot, StartCandidate, ReadKnown, ReadCandidates, FindVersion,
     CreateVersion, MarkBuilding, StartBuild, PersistRows, PersistRowsFails, MarkVersionFailed,
     DeleteExclusions, InsertExclusions, FinishBuild, MarkBuilt, BuildStops, stored, MayStart
<1>2. builder \in [Builders -> BuilderRecords]
  BY DEF DatasetTypes
<1>3. ASSUME NEW step, Step(b, step) PROVE builder'[b].step = step
  BY <1>2, <1>3 DEF Step, Go, BuilderRecords
<1>4. ASSUME StopBuilding(b) PROVE builder'[b].step = "idle"
  BY <1>2, <1>4 DEF StopBuilding, Go, NotBuilding
<1>5. CASE StartPilot(b) \/ StartCandidate(b)
  <2>1. ASSUME NEW r, Go(b, r) PROVE builder'[b] = r
    BY <1>2, <2>1 DEF Go
  <2>2. ASSUME StartPilot(b) PROVE builder'[b].step = "candidates"
    <3>1. PICK s : Go(b, [NotBuilding EXCEPT !.step = "candidates", !.kind = "pilot", !.seed = s])
      BY <2>2 DEF StartPilot
    <3>2. builder'[b] = [NotBuilding EXCEPT !.step = "candidates", !.kind = "pilot", !.seed = s]
      BY <2>1, <3>1
    <3> QED
      BY <3>2 DEF NotBuilding
  <2>3. ASSUME StartCandidate(b) PROVE builder'[b].step = "known"
    <3>1. PICK s : Go(b, [NotBuilding EXCEPT !.step = "known", !.kind = "candidate", !.seed = s,
                                             !.window = InPeriod(assessed)])
      BY <2>3 DEF StartCandidate
    <3>2. builder'[b] = [NotBuilding EXCEPT !.step = "known", !.kind = "candidate", !.seed = s,
                                            !.window = InPeriod(assessed)]
      BY <2>1, <3>1
    <3> QED
      BY <3>2 DEF NotBuilding
  <2> QED
    BY <1>1, <1>5, <2>2, <2>3
<1>6. CASE ReadKnown(b)
  <2>1. AfterKnown(builder[b].kind) \in {"find", "candidates"}
    BY DEF AfterKnown
  <2>2. builder'[b].step = AfterKnown(builder[b].kind)
    BY <1>2, <1>6 DEF ReadKnown, Go, BuilderRecords
  <2>3. builder'[b].step # "finish" /\ builder'[b].step # "rows"
    BY <2>1, <2>2
  <2> QED
    BY <1>1, <2>3
<1>7. CASE ReadCandidates(b)
  <2>1. AfterCandidates(builder[b].kind) \in {"find", "known"}
    BY DEF AfterCandidates
  <2>2. builder'[b].step = AfterCandidates(builder[b].kind)
    <3>1. /\ builder[b].step = "candidates" /\ builder[b] \in BuilderRecords
          /\ builder'[b] = [builder[b] EXCEPT !.events = InPeriod(assessed) \ Natural,
                                              !.repeated = InPeriod(duplicates) \ Natural,
                                              !.step = AfterCandidates(builder[b].kind),
                                              !.todo = <<"strict", "inclusive">>]
      BY <1>2, <1>7 DEF ReadCandidates, Go
    <3> QED
      BY <3>1 DEF BuilderRecords
  <2>3. builder'[b].step # "finish" /\ builder'[b].step # "rows"
    BY <2>1, <2>2
  <2> QED
    BY <1>1, <2>3
<1>8. CASE MarkBuilt(b)
  <2>1. CASE StopBuilding(b)
    BY <1>1, <1>4, <2>1
  <2>2. CASE ~StopBuilding(b)
    <3>1. /\ builder[b] \in BuilderRecords
          /\ builder'[b] = [builder[b] EXCEPT !.step = "find", !.todo = Tail(@), !.build = 0]
      BY <1>2, <1>8, <2>2 DEF MarkBuilt, Go
    <3>2. builder'[b].step = "find"
      BY <3>1 DEF BuilderRecords
    <3> QED
      BY <1>1, <3>2
  <2> QED
    BY <2>1, <2>2
<1>9. CASE StartBuild(b)
  <2>1. builder'[b].step = "rows"
    BY <1>2, <1>9 DEF StartBuild, Go, BuilderRecords
  <2> QED
    BY <1>1, <1>9, <2>1
<1> QED
  BY <1>1, <1>3, <1>4, <1>5, <1>6, <1>7, <1>8, <1>9 DEF BuildStep, FindVersion, CreateVersion,
     MarkBuilding, PersistRows, PersistRowsFails, MarkVersionFailed, DeleteExclusions,
     InsertExclusions, FinishBuild, BuildStops

LEMMA BuildIds ==
  ASSUME DatasetTypes
  PROVE  DOMAIN builds = 1..Len(builds) /\ Len(builds) \in Nat
<1>1. builds \in Seq(BuildRows)
  BY DEF DatasetTypes
<1> QED
  BY <1>1

LEMMA RowsBuiltStep ==
  ASSUME DatasetTypes, NEW b \in Builders, \A o \in Builders : BuilderSound(o), OwnBuilds,
         BuildStep(b), Keeps(b), NEW v \in Versions, RowsBuilt(v)
  PROVE  RowsBuilt(v)'
<1>1. \A n \in BuildsOf(v) : n \in BuildsOf(v)' /\ n \in DOMAIN builds
  BY DEF Keeps, BuildsOf
<1>2. builder'[b].step = "rows" => builder'[b].build \notin DOMAIN builds
  <2>1. StartBuild(b) => builder'[b].build = Len(builds) + 1
    BY DEF StartBuild, Go, DatasetTypes, BuilderRecords
  <2> QED
    BY <2>1, BuildIds, StepWrites
<1>3. \A o \in Builders : o # b => builder'[o] = builder[o]
  BY DEF Keeps
<1>4. CASE rows'[v] = rows[v]
  <2> SUFFICES ASSUME rows[v] # {}
               PROVE  \E n \in BuildsOf(v)' :
                        \A o \in Builders : builder'[o].build = n => builder'[o].step # "rows"
    BY <1>4 DEF RowsBuilt
  <2>1. PICK n \in BuildsOf(v) : \A o \in Builders : builder[o].build = n => builder[o].step # "rows"
    BY DEF RowsBuilt
  <2>2. \A o \in Builders : builder'[o].build = n => builder'[o].step # "rows"
    BY <1>1, <1>2, <1>3, <2>1
  <2> QED
    BY <1>1, <2>2
<1>5. CASE PersistRows(b) /\ v = Current(b)
  <2>1. PICK n : n = builder[b].build
    OBVIOUS
  <2>2. builder[b].step = "rows" /\ builds' = builds /\ Step(b, "delete")
    BY <1>5 DEF PersistRows
  <2>3. n \in DOMAIN builds /\ builds[n].version = v
    BY <1>5, <2>1, <2>2 DEF BuilderSound, HasBuild
  <2>4. n \in BuildsOf(v)'
    BY <2>2, <2>3 DEF BuildsOf
  <2>5. builder'[b].step = "delete"
    BY <2>2 DEF Step, Go, DatasetTypes, BuilderRecords
  <2>6. n # 0
    BY <2>3, BuildIds
  <2>7. \A o \in Builders : o # b => builder'[o].build # n
    BY <1>3, <2>1, <2>6 DEF OwnBuilds
  <2> QED
    BY <2>4, <2>5, <2>7 DEF RowsBuilt
<1>6. CASE PersistRows(b) /\ v # Current(b)
  <2>1. rows'[v] = rows[v]
    BY <1>6 DEF PersistRows, DatasetTypes
  <2> QED
    BY <1>4, <2>1
<1> QED
  BY <1>4, <1>5, <1>6, StepWrites

\* Exclusions are taken back only while others come, and those of a build leave
\* none of its fires unaccounted for.
LEMMA AccountedStep ==
  ASSUME DatasetTypes, NEW b \in Builders, BuilderSound(b), BuildStep(b), Keeps(b),
         NEW v \in Versions, NEW e
  PROVE  /\ Accounted(v, e) => Accounted(v, e)'
         /\ InsertExclusions(b) /\ v = Current(b) => Accounted(v, e)'
<1>1. /\ \A n \in BuildsOf(v) : n \in BuildsOf(v)' /\ builds'[n].read = builds[n].read
      /\ links[v] \subseteq links'[v]
      /\ \A o \in Builders : o # b => builder'[o] = builder[o]
  BY DEF Keeps, BuildsOf
<1>2. \A o \in Builders : o # b => Current(o)' = Current(o)
  BY <1>1, CurrentPrime
<1>3. ASSUME excluded'[v] = excluded[v], ~(builder[b].step = "exclude" /\ Current(b) = v), Accounted(v, e)
      PROVE  Accounted(v, e)'
  <2>1. Dropped(v)' = Dropped(v)
    BY <1>3 DEF Dropped
  <2>2. (\E o \in Builders : builder[o].step = "exclude" /\ Current(o) = v) =>
          \E o \in Builders : builder'[o].step = "exclude" /\ Current(o)' = v
    BY <1>1, <1>2, <1>3
  <2> QED
    BY <1>1, <1>3, <2>1, <2>2 DEF Accounted
<1>4. ASSUME InsertExclusions(b), v = Current(b) PROVE Accounted(v, e)'
  <2>1. PICK r : r = builder[b]
    OBVIOUS
  <2>2. PICK n : n = r.build
    OBVIOUS
  <2>3. builder[b].step = "exclude" /\ builds' = builds /\ links' = links
    BY <1>4 DEF InsertExclusions
  <2>4. /\ r \in BuilderRecords /\ v[1] = r.kind /\ v[2] = Head(r.todo)
        /\ n \in DOMAIN builds /\ builds[n].version = v /\ builds[n].read.events = r.events
        /\ LinksOf(r, Head(r.todo)) \subseteq links[v]
    BY <1>4, <2>1, <2>2, <2>3, CurrentType
       DEF BuilderSound, HasTodo, HasVersion, HasBuild, Linked, DatasetTypes
  <2>5. CASE e \notin r.events
    BY <2>3, <2>4, <2>5 DEF Accounted, BuildsOf
  <2>6. CASE e \in r.events
    <3>1. excluded'[v] = excluded[v] \cup {<<n, x>> : x \in Exclusions(r)}
      BY <1>4, <2>1, <2>2 DEF InsertExclusions, DatasetTypes
    <3>2. ASSUME NEW x \in Exclusions(r) PROVE x \in Dropped(v)'
      <4>1. <<n, x>> \in excluded'[v] /\ <<n, x>>[2] = x
        BY <3>1
      <4> QED
        BY <4>1 DEF Dropped
    <3>3. \/ <<DayOf(e), e>> \in links[v]
          \/ <<"fire", e>> \in Dropped(v)'
          \/ <<"day", DayOf(e)>> \in Dropped(v)' /\ v[2] = "strict"
          \/ v[1] = "candidate" /\ DayOf(e) \in Unreadable
      BY <2>4, <2>6, <3>2, EveryFire
    <3> QED
      BY <2>3, <3>3 DEF Accounted
  <2> QED
    BY <2>5, <2>6
<1>5. CASE InsertExclusions(b)
  <2>1. v # Current(b) => excluded'[v] = excluded[v]
    BY <1>5 DEF InsertExclusions, DatasetTypes
  <2> QED
    BY <1>3, <1>4, <1>5, <2>1
<1>6. CASE DeleteExclusions(b)
  <2>1. builder[b].step = "delete" /\ Step(b, "exclude")
    BY <1>6 DEF DeleteExclusions
  <2>2. CASE v # Current(b)
    <3>1. excluded'[v] = excluded[v]
      BY <1>6, <2>2 DEF DeleteExclusions, DatasetTypes
    <3> QED
      BY <1>3, <2>1, <2>2, <3>1 DEF InsertExclusions
  <2>3. CASE v = Current(b)
    <3>1. /\ builder'[b].step = "exclude" /\ builder'[b].kind = builder[b].kind
          /\ builder'[b].todo = builder[b].todo
      BY <2>1 DEF Step, Go, DatasetTypes, BuilderRecords
    <3>2. Current(b)' = v
      BY <2>3, <3>1, CurrentPrime
    <3>3. Accounted(v, e)'
      BY <3>1, <3>2 DEF Accounted
    <3> QED
      BY <2>1, <3>3 DEF InsertExclusions
  <2> QED
    BY <2>2, <2>3
<1>7. CASE ~InsertExclusions(b) /\ ~DeleteExclusions(b)
  <2>1. excluded' = excluded /\ builder[b].step # "exclude"
    BY <1>7, StepWrites
  <2> QED
    BY <1>3, <1>7, <2>1
<1> QED
  BY <1>5, <1>6, <1>7

LEMMA BuildAccountedStep ==
  ASSUME DatasetTypes, NEW b \in Builders, \A o \in Builders : BuilderSound(o), BuildStep(b), Keeps(b),
         \A n \in DOMAIN builds : BuildAccounted(n), NEW n, n \in DOMAIN builds', Excluding(n)',
         NEW v, v = builds'[n].version, NEW e, e \in builds'[n].read.events
  PROVE  Accounted(v, e)'
<1> DEFINE Fresh == InsertExclusions(b) /\ n = builder[b].build
<1>1. n \in DOMAIN builds /\ (Excluding(n) \/ Fresh)
  <2>1. CASE \E o \in Builders : builder'[o].build = n /\ builder'[o].step = "finish"
    <3>1. PICK o \in Builders : builder'[o].build = n /\ builder'[o].step = "finish"
      BY <2>1
    <3>2. CASE o # b
      <4>1. builder'[o] = builder[o]
        BY <3>2 DEF Keeps
      <4>2. n \in DOMAIN builds
        BY <3>1, <4>1 DEF BuilderSound, HasBuild
      <4> QED
        BY <3>1, <4>1, <4>2 DEF Excluding
    <3>3. CASE o = b
      <4>1. InsertExclusions(b)
        BY <3>1, <3>3, StepWrites
      <4>2. builder'[b].build = builder[b].build /\ builder[b].step = "exclude"
        BY <4>1 DEF InsertExclusions, Step, Go, DatasetTypes, BuilderRecords
      <4>3. n \in DOMAIN builds
        BY <3>1, <3>3, <4>2 DEF BuilderSound, HasBuild
      <4> QED
        BY <3>1, <3>3, <4>1, <4>2, <4>3
    <3> QED
      BY <3>2, <3>3
  <2>2. CASE builds'[n].status = "succeeded"
    <3>1. CASE builds' = builds
      BY <2>2, <3>1 DEF Excluding
    <3>2. CASE FinishBuild(b)
      <4>1. builder[b].step = "finish" /\ builder[b].build \in DOMAIN builds
        BY <3>2 DEF FinishBuild, BuilderSound, HasBuild
      <4>2. DOMAIN builds' = DOMAIN builds
        BY <3>2 DEF FinishBuild
      <4>3. n # builder[b].build => builds'[n] = builds[n]
        BY <4>2 DEF Keeps
      <4> QED
        BY <2>2, <4>1, <4>2, <4>3 DEF Excluding
    <3>3. CASE PersistRowsFails(b)
      <4>1. builder[b].step = "rows" /\ builder[b].build \in DOMAIN builds
        BY <3>3 DEF PersistRowsFails, BuilderSound, HasBuild
      <4>2. DOMAIN builds' = DOMAIN builds
        BY <3>3 DEF PersistRowsFails
      <4>3. builds[builder[b].build] \in BuildRows
        BY <4>1 DEF DatasetTypes
      <4>4. builds'[builder[b].build].status = "failed"
        BY <3>3, <4>1, <4>3 DEF PersistRowsFails, BuildRows
      <4>5. builds'[n] = builds[n]
        BY <2>2, <4>2, <4>4 DEF Keeps
      <4> QED
        BY <2>2, <4>2, <4>5 DEF Excluding
    <3>4. CASE StartBuild(b)
      <4> DEFINE row == [version |-> Current(b), status |-> "running", count |-> 0,
                         read |-> [known |-> builder[b].known, events |-> builder[b].events]]
      <4>1. builds' = Append(builds, row) /\ row.status = "running" /\ builds \in Seq(BuildRows)
        BY <3>4 DEF StartBuild, DatasetTypes
      <4> HIDE DEF row
      <4>2. /\ builds'[Len(builds) + 1] = row
            /\ DOMAIN builds' = 1..(Len(builds) + 1)
            /\ \A m \in 1..Len(builds) : builds'[m] = builds[m]
        BY <4>1
      <4>3. n \in DOMAIN builds /\ builds'[n] = builds[n]
        BY <2>2, <4>1, <4>2, BuildIds
      <4> QED
        BY <2>2, <4>3 DEF Excluding
    <3> QED
      BY <3>1, <3>2, <3>3, <3>4, StepWrites
  <2> QED
    BY <2>1, <2>2 DEF Excluding
<1>2. builds'[n].version = builds[n].version /\ builds'[n].read = builds[n].read
  BY <1>1 DEF Keeps
<1>3. builds[n] \in BuildRows
  BY <1>1 DEF DatasetTypes
<1>4. v \in Versions /\ v = builds[n].version
  BY <1>2, <1>3 DEF BuildRows
<1>5. CASE Excluding(n)
  <2>1. Accounted(v, e)
    BY <1>1, <1>2, <1>4, <1>5 DEF BuildAccounted
  <2> QED
    BY <1>2, <1>4, <2>1, AccountedStep
<1>6. CASE Fresh
  <2>1. builder[b].step = "exclude"
    BY <1>6 DEF InsertExclusions
  <2>2. v = Current(b)
    BY <1>4, <1>6, <2>1 DEF BuilderSound, HasBuild
  <2> QED
    BY <1>2, <1>4, <1>6, <2>2, AccountedStep
<1> QED
  BY <1>1, <1>5, <1>6

\* Where a command at work on a version is after its step.
LEMMA WorkGoesOn ==
  ASSUME DatasetTypes, NEW b \in Builders, BuildStep(b)
  PROVE  /\ builder[b].step \in InProgress =>
              \/ faults' > 0 \/ MarkVersionFailed(b) \/ MarkBuilt(b)
              \/ /\ builder'[b].step \in InProgress
                 /\ builder'[b].kind = builder[b].kind /\ builder'[b].todo = builder[b].todo
         /\ \/ builder'[b].build = builder[b].build \/ builder[b].step \notin HasBuild \/ faults' > 0
            \/ MarkVersionFailed(b) \/ MarkBuilt(b)
         /\ MarkBuilding(b) =>
              /\ builder'[b].step \in InProgress
              /\ builder'[b].kind = builder[b].kind /\ builder'[b].todo = builder[b].todo
<1>1. builder \in [Builders -> BuilderRecords] /\ builder[b] \in BuilderRecords /\ faults \in Nat
  BY DEF DatasetTypes
<1>2. ASSUME NEW step, Step(b, step)
      PROVE  /\ builder'[b].step = step /\ builder'[b].build = builder[b].build
             /\ builder'[b].kind = builder[b].kind /\ builder'[b].todo = builder[b].todo
  <2>1. builder'[b] = [builder[b] EXCEPT !.step = step]
    BY <1>1, <1>2 DEF Step, Go
  <2> QED
    BY <1>1, <2>1 DEF BuilderRecords
<1>3. CASE StartBuild(b)
  <2>1. PICK n : n = Len(builds) + 1
    OBVIOUS
  <2>2. builder'[b] = [builder[b] EXCEPT !.step = "rows", !.build = n]
    BY <1>1, <1>3, <2>1 DEF StartBuild, Go
  <2>3. /\ builder'[b].step = "rows"
        /\ builder'[b].kind = builder[b].kind /\ builder'[b].todo = builder[b].todo
    BY <1>1, <2>2 DEF BuilderRecords
  <2>4. builder[b].step = "start" /\ ~MarkBuilding(b)
    BY <1>3 DEF StartBuild, MarkBuilding
  <2> QED
    BY <2>3, <2>4 DEF InProgress, HasBuild
<1>4. CASE BuildStops(b) \/ PersistRowsFails(b)
  <2>1. faults' > 0
    BY <1>1, <1>4 DEF BuildStops, PersistRowsFails
  <2>2. MarkBuilding(b) => faults' = faults /\ Step(b, "start")
    BY DEF MarkBuilding
  <2> QED
    BY <1>2, <2>1, <2>2 DEF InProgress
<1>5. CASE StartPilot(b) \/ StartCandidate(b) \/ ReadKnown(b) \/ ReadCandidates(b) \/ FindVersion(b) \/ CreateVersion(b)
  <2>1. builder[b].step \in {"idle", "known", "candidates", "find", "create"}
    BY <1>5 DEF StartPilot, StartCandidate, MayStart, ReadKnown, ReadCandidates, FindVersion, CreateVersion
  <2> QED
    BY <2>1 DEF InProgress, HasBuild, MarkBuilding
<1>6. CASE MarkBuilding(b)
  <2>1. Step(b, "start") /\ builder[b].step = "mark"
    BY <1>6 DEF MarkBuilding
  <2> QED
    BY <1>2, <2>1 DEF InProgress, HasBuild
<1>7. CASE MarkVersionFailed(b) \/ MarkBuilt(b)
  BY <1>7 DEF MarkVersionFailed, MarkBuilt, MarkBuilding
<1>8. CASE PersistRows(b) \/ DeleteExclusions(b) \/ InsertExclusions(b) \/ FinishBuild(b)
  <2>1. \E step \in {"delete", "exclude", "finish", "done"} : Step(b, step)
    BY <1>8 DEF PersistRows, DeleteExclusions, InsertExclusions, FinishBuild
  <2>2. ~MarkBuilding(b)
    BY <1>8 DEF PersistRows, DeleteExclusions, InsertExclusions, FinishBuild, MarkBuilding
  <2> QED
    BY <1>2, <2>1, <2>2 DEF InProgress, HasBuild
<1> QED
  BY <1>3, <1>4, <1>5, <1>6, <1>7, <1>8 DEF BuildStep

\* A build that has ended does not change.
LEMMA EndedBuilds ==
  ASSUME DatasetTypes, NEW b \in Builders, BuilderSound(b), BuildStep(b), Keeps(b),
         NEW n \in DOMAIN builds, builds[n].status # "running"
  PROVE  n \in DOMAIN builds' /\ builds'[n] = builds[n]
<1>1. CASE n # builder[b].build
  BY <1>1 DEF Keeps
<1>2. CASE n = builder[b].build
  <2>1. ~PersistRowsFails(b) /\ ~FinishBuild(b)
    BY <1>2 DEF PersistRowsFails, FinishBuild, BuilderSound, HasBuild, StatusAt
  <2>2. CASE StartBuild(b)
    <3>1. builder[b].build = 0
      BY <2>2 DEF StartBuild, BuilderSound, HasBuild
    <3> QED
      BY <1>2, <3>1, BuildIds
  <2> QED
    BY <2>1, <2>2, StepWrites
<1> QED
  BY <1>1, <1>2

LEMMA VersionEndedStep ==
  ASSUME DatasetTypes, NEW b \in Builders, BuilderSound(b), BuildStep(b), Keeps(b),
         NEW v \in Versions, VersionEnded(v)
  PROVE  VersionEnded(v)'
<1>1. ASSUME NEW status, status # "running", \E n \in BuildsOf(v) : builds[n].status = status
      PROVE  \E n \in BuildsOf(v)' : builds'[n].status = status
  <2>1. PICK n \in BuildsOf(v) : builds[n].status = status
    BY <1>1
  <2>2. n \in DOMAIN builds' /\ builds'[n] = builds[n]
    BY <1>1, <2>1, EndedBuilds DEF BuildsOf
  <2> QED
    BY <2>1, <2>2 DEF BuildsOf
<1>2. builder[b].step \in HasBuild =>
        /\ Current(b) \in Versions /\ version[Current(b)] \in VersionRows
        /\ builder[b].build \in BuildsOf(Current(b))
        /\ builds[builder[b].build].status = StatusAt(builder[b].step)
  BY CurrentType DEF BuilderSound, HasTodo, HasVersion, BuildsOf, DatasetTypes
<1>3. /\ \A o \in Builders : o # b => builder'[o] = builder[o]
      /\ \A o \in Builders : o # b => Current(o)' = Current(o)
  BY CurrentPrime DEF Keeps
<1>4. faults \in Nat /\ faults' \in {faults, faults + 1}
  BY StepWrites DEF DatasetTypes
<1>5. CASE version'[v] = version[v] /\ ~(MarkVersionFailed(b) \/ MarkBuilt(b))
  <2>1. ASSUME NEW o \in Builders, builder[o].step \in InProgress, Current(o) = v
        PROVE  faults' > 0 \/ \E c \in Builders : builder'[c].step \in InProgress /\ Current(c)' = v
    <3>1. CASE o # b
      BY <1>3, <2>1, <3>1
    <3>2. CASE o = b
      BY <1>5, <2>1, <3>2, WorkGoesOn, CurrentPrime
    <3> QED
      BY <3>1, <3>2
  <2> QED
    BY <1>1, <1>4, <1>5, <2>1 DEF VersionEnded
<1>6. CASE MarkVersionFailed(b) \/ MarkBuilt(b)
  <2>1. builder[b].step \in {"fail", "done"} /\ builder[b].step \in HasBuild /\ builds' = builds
    BY <1>6 DEF MarkVersionFailed, MarkBuilt, HasBuild
  <2>2. /\ version' \in [Versions -> {None} \cup VersionRows] \/ TRUE
        /\ Current(b) # v => version'[v] = version[v]
    BY <1>6 DEF MarkVersionFailed, MarkBuilt, SetStatus, DatasetTypes
  <2>3. CASE Current(b) # v
    <3>1. ASSUME NEW o \in Builders, builder[o].step \in InProgress, Current(o) = v
          PROVE  builder'[o].step \in InProgress /\ Current(o)' = v
      BY <1>3, <2>3, <3>1
    <3> QED
      BY <1>1, <1>4, <2>2, <2>3, <3>1 DEF VersionEnded
  <2>4. CASE Current(b) = v
    <3>1. CASE MarkVersionFailed(b)
      <4>1. builder[b].step = "fail" /\ SetStatus(Current(b), "failed")
        BY <3>1 DEF MarkVersionFailed
      <4>2. version'[v].status = "failed"
        BY <1>2, <2>1, <2>4, <4>1 DEF SetStatus, DatasetTypes, VersionRows
      <4>3. \E n \in BuildsOf(v)' : builds'[n].status = "failed"
        BY <1>2, <2>1, <2>4, <4>1 DEF StatusAt, BuildsOf
      <4> QED
        BY <4>2, <4>3 DEF VersionEnded
    <3>2. CASE MarkBuilt(b)
      <4>1. builder[b].step = "done" /\ SetStatus(Current(b), BuiltStatus(builder[b].kind))
        BY <3>2 DEF MarkBuilt
      <4>2. version'[v].status \in {"validated", "draft"}
        BY <1>2, <2>1, <2>4, <4>1 DEF SetStatus, DatasetTypes, VersionRows, BuiltStatus
      <4>3. \E n \in BuildsOf(v)' : builds'[n].status = "succeeded"
        BY <1>2, <2>1, <2>4, <4>1 DEF StatusAt, BuildsOf
      <4> QED
        BY <4>2, <4>3 DEF VersionEnded
    <3> QED
      BY <1>6, <3>1, <3>2
  <2> QED
    BY <2>3, <2>4
<1>7. CASE CreateVersion(b) /\ version'[v] # version[v]
  <2>1. version'[v] = [status |-> "draft", seed |-> builder[b].seed]
    BY <1>7 DEF CreateVersion, DatasetTypes
  <2> QED
    BY <2>1 DEF VersionEnded
<1>8. CASE MarkBuilding(b) /\ version'[v] # version[v]
  <2>1. builder[b].step = "mark" /\ SetStatus(Current(b), "building")
    BY <1>8 DEF MarkBuilding
  <2>2. Current(b) = v
    BY <1>8, <2>1 DEF SetStatus, DatasetTypes
  <2>3. version[v] \in VersionRows
    BY <2>1, <2>2 DEF BuilderSound, HasVersion, DatasetTypes
  <2>4. version'[v].status = "building"
    BY <2>1, <2>2, <2>3 DEF SetStatus, DatasetTypes, VersionRows
  <2>5. builder'[b].step \in InProgress /\ Current(b)' = v
    BY <1>8, <2>2, WorkGoesOn, CurrentPrime
  <2> QED
    BY <2>4, <2>5 DEF VersionEnded
<1> QED
  BY <1>5, <1>6, <1>7, <1>8, StepWrites

LEMMA BuildEndedStep ==
  ASSUME DatasetTypes, NEW b \in Builders, BuilderSound(b), BuildStep(b), Keeps(b),
         \A n \in DOMAIN builds : BuildEnded(n), NEW n, n \in DOMAIN builds'
  PROVE  BuildEnded(n)'
<1>1. CASE n \notin DOMAIN builds
  <2>1. n = builder'[b].build
    BY <1>1 DEF Keeps
  <2> QED
    BY <2>1 DEF BuildEnded
<1>2. CASE n \in DOMAIN builds /\ builds[n].status # "running"
  BY <1>2, EndedBuilds DEF BuildEnded
<1>3. CASE n \in DOMAIN builds /\ builds[n].status = "running"
  <2>1. faults > 0 \/ \E o \in Builders : builder[o].build = n
    BY <1>3 DEF BuildEnded
  <2>2. faults > 0 => faults' > 0
    <3>1. faults' \in {faults, faults + 1}
      BY StepWrites
    <3>2. faults \in Nat
      BY DEF DatasetTypes
    <3> QED
      BY <3>1, <3>2
  <2>3. ASSUME NEW o \in Builders, o # b, builder[o].build = n PROVE BuildEnded(n)'
    <3>1. builder'[o] = builder[o]
      BY <2>3 DEF Keeps
    <3> QED
      BY <2>3, <3>1 DEF BuildEnded
  <2>4. CASE builder[b].build = n
    <3>1. n # 0
      BY <1>3, BuildIds
    <3>2. builder[b].step \in HasBuild
      BY <2>4, <3>1 DEF BuilderSound
    <3>3. ~MarkVersionFailed(b) /\ ~MarkBuilt(b)
      BY <1>3, <2>4, <3>2 DEF MarkVersionFailed, MarkBuilt, BuilderSound, StatusAt
    <3> QED
      BY <2>4, <3>2, <3>3, WorkGoesOn DEF BuildEnded
  <2> QED
    BY <2>1, <2>2, <2>3, <2>4 DEF BuildEnded
<1> QED
  BY <1>1, <1>2, <1>3

LEMMA DatasetInitial == ASSUME DatasetInit, faults = 0 PROVE DatasetInv
<1>1. DatasetTypes
  BY DatasetsAssumption DEF DatasetInit, DatasetTypes, NotBuilding, BuilderRecords, BuilderSteps
<1>2. \A b \in Builders : BuilderSound(b) /\ builder[b].build = 0
  BY DEF DatasetInit, BuilderSound, NotBuilding, HasTodo, HasVersion, HasBuild, Linked
<1>3. OwnBuilds
  BY <1>2 DEF OwnBuilds
<1>4. \A v \in Versions : /\ \A d \in Days : RowExplained(v, d)
                          /\ RowsBuilt(v) /\ VersionEnded(v)
  BY DEF DatasetInit, RowExplained, RowsBuilt, VersionEnded
<1>5. DOMAIN builds = {}
  BY DEF DatasetInit
<1> QED
  BY <1>1, <1>2, <1>3, <1>4, <1>5 DEF DatasetInv

\* Imports and audits change nothing of what the commands have read and stored.
LEMMA SourcesChange ==
  ASSUME DatasetInv, UNCHANGED <<builder, stored, commands, faults>>,
         fires' \in SUBSET Fires, assessed' \in SUBSET Fires, duplicates' \in SUBSET Fires
  PROVE  DatasetInv'
<1>1. UNCHANGED <<builder, version, rows, links, excluded, builds, commands, faults>>
  BY DEF stored
<1>2. DatasetTypes'
  BY <1>1 DEF DatasetInv, DatasetTypes
<1>3. \A b \in Builders : BuilderSound(b)'
  BY <1>1 DEF DatasetInv, BuilderSound, Current
<1>4. OwnBuilds'
  BY <1>1 DEF DatasetInv, OwnBuilds
<1>5. \A v \in Versions : BuildsOf(v)' = BuildsOf(v)
  BY <1>1 DEF BuildsOf
<1>6. ASSUME NEW v \in Versions, NEW d \in Days PROVE RowExplained(v, d)'
  <2>1. RowExplained(v, d) /\ BuildsOf(v)' = BuildsOf(v)
    BY <1>5 DEF DatasetInv
  <2> QED
    BY <1>1, <2>1 DEF RowExplained
<1>7. ASSUME NEW n, n \in DOMAIN builds' PROVE BuildAccounted(n)'
  <2>1. BuildAccounted(n)
    BY <1>1, <1>7 DEF DatasetInv
  <2>2. builds' = builds /\ (Excluding(n)' <=> Excluding(n))
    BY <1>1 DEF Excluding
  <2>3. \A v, e : Accounted(v, e) => Accounted(v, e)'
    BY <1>1 DEF Accounted, Dropped, BuildsOf, Current
  <2> QED
    BY <2>1, <2>2, <2>3 DEF BuildAccounted
<1>8. \A v \in Versions : RowsBuilt(v)' /\ VersionEnded(v)'
  BY <1>1, <1>5 DEF DatasetInv, RowsBuilt, VersionEnded, Current
<1>9. \A n \in DOMAIN builds' : BuildEnded(n)'
  BY <1>1 DEF DatasetInv, BuildEnded
<1> QED
  BY <1>2, <1>3, <1>4, <1>6, <1>7, <1>8, <1>9 DEF DatasetInv

LEMMA DatasetStep == ASSUME DatasetInv, DatasetNext PROVE DatasetInv'
<1>1. ASSUME NEW e \in Fires, ImportFire(e) \/ AssessFire(e) \/ FindDuplicate(e) PROVE DatasetInv'
  <2>1. fires' \in SUBSET Fires /\ assessed' \in SUBSET Fires /\ duplicates' \in SUBSET Fires
    BY <1>1 DEF ImportFire, AssessFire, FindDuplicate, DatasetInv, DatasetTypes
  <2>2. UNCHANGED <<builder, stored, commands, faults>>
    BY <1>1 DEF ImportFire, AssessFire, FindDuplicate
  <2> QED
    BY <2>1, <2>2, SourcesChange
<1>2. ASSUME NEW b \in Builders, BuildStep(b) PROVE DatasetInv'
  <2>1. /\ DatasetTypes /\ OwnBuilds /\ BuilderSound(b) /\ \A o \in Builders : BuilderSound(o)
        /\ \A v \in Versions, d \in Days : RowExplained(v, d)
        /\ \A n \in DOMAIN builds : BuildAccounted(n) /\ BuildEnded(n)
        /\ \A v \in Versions : RowsBuilt(v) /\ VersionEnded(v)
    BY DEF DatasetInv
  <2>2. DatasetTypes' /\ Keeps(b) /\ BuilderSound(b)'
    BY <1>2, <2>1, BuilderStep
  <2>3. OwnBuilds' /\ \A o \in Builders : BuilderSound(o)'
    BY <2>1, <2>2, KeptByOthers
  <2>4. \A v \in Versions, d \in Days : RowExplained(v, d)'
    BY <1>2, <2>1, <2>2, ExplainedStep
  <2>5. ASSUME NEW n, n \in DOMAIN builds' PROVE BuildAccounted(n)'
    <3>1. ASSUME Excluding(n)', NEW v, v = builds'[n].version, NEW e, e \in builds'[n].read.events
          PROVE  Accounted(v, e)'
      BY <1>2, <2>1, <2>2, <2>5, <3>1, BuildAccountedStep
    <3>2. PICK v : v = builds'[n].version
      OBVIOUS
    <3>3. Excluding(n)' => \A e \in builds'[n].read.events : Accounted(v, e)'
      BY <3>1, <3>2
    <3> QED
      BY <3>2, <3>3 DEF BuildAccounted, Accounted, BuildsOf, Dropped
  <2>6. \A v \in Versions : RowsBuilt(v)'
    BY <1>2, <2>1, <2>2, RowsBuiltStep
  <2>7. \A v \in Versions : VersionEnded(v)'
    BY <1>2, <2>1, <2>2, VersionEndedStep
  <2>8. \A n \in DOMAIN builds' : BuildEnded(n)'
    BY <1>2, <2>1, <2>2, BuildEndedStep
  <2> QED
    BY <2>2, <2>3, <2>4, <2>5, <2>6, <2>7, <2>8 DEF DatasetInv
<1> QED
  BY <1>1, <1>2 DEF DatasetNext

\* What the invariant says of the data that is stored.
LEMMA SoundFromInv == ASSUME DatasetInv PROVE DatasetsSound
<1>1. NothingSilent
  <2>1. ASSUME NEW n \in DOMAIN builds, builds[n].status = "succeeded", NEW e \in builds[n].read.events
        PROVE  Accounted(builds[n].version, e)
    BY <2>1 DEF DatasetInv, BuildAccounted, Excluding
  <2> QED
    BY <2>1 DEF NothingSilent, Accounted, Dropped
<1>2. LabelsExplained
  BY DEF DatasetInv, RowExplained, LabelsExplained
<1>3. BuildsEnd
  <2>1. ASSUME NEW b \in Builders, NEW v \in Versions, builder[b].step \in InProgress, Current(b) = v
        PROVE  Building(v)
    <3>1. builder[b].step \in HasTodo
      BY <2>1 DEF InProgress, HasTodo, HasVersion
    <3>2. builder[b].todo \in Todos
      BY <3>1 DEF DatasetInv, BuilderSound
    <3>3. builder[b].todo # <<>>
      BY <3>2 DEF Todos
    <3>4. builder[b].step \notin {"find", "create", "mark", "known", "candidates"}
      BY <2>1 DEF InProgress, HasBuild
    <3> QED
      BY <2>1, <3>3, <3>4 DEF Building
  <2>2. \A v \in Versions : VersionEnded(v)
    BY DEF DatasetInv
  <2>3. \A n \in DOMAIN builds : BuildEnded(n)
    BY DEF DatasetInv
  <2> QED
    BY <2>1, <2>2, <2>3 DEF BuildsEnd, VersionEnded, BuildEnded
<1> QED
  BY <1>1, <1>2, <1>3 DEF DatasetsSound

-----------------------------------------------------------------------------
(* Candidates.                                                             *)

Artifacts == [print : SUBSET (Days \X {0, 1}), trained : SUBSET (Days \X {0, 1})]

CandidateTypes ==
  /\ packager \in [step : {"idle", "train", "write"}, print : SUBSET (Days \X {0, 1}),
                   trained : SUBSET (Days \X {0, 1})]
  /\ packaged \in Seq(Artifacts)
  /\ registrar \in [Registrars -> [step : {"idle", "look", "insert"}, artifact : {None} \cup Artifacts]]
  /\ registry \in Seq(Artifacts)

SeveralBuilds == \E m, n \in BuildsOf(Principal) : m # n

Traceable(a) ==
  /\ a.print \subseteq a.trained /\ a.trained \subseteq rows[Principal]
  /\ a.print # a.trained => SeveralBuilds

\* A fingerprint that was read.
Printed(p) ==
  /\ p.print # {} /\ p.print \subseteq rows[Principal]
  /\ p.print # rows[Principal] => SeveralBuilds

CandidateInv ==
  /\ CandidateTypes
  /\ packager.step # "idle" => Printed(packager)
  /\ packager.step = "write" => Traceable(packager)
  /\ \A n \in DOMAIN packaged : Traceable(packaged[n])
  /\ \A r \in Registrars : registrar[r].step # "idle" =>
       registrar[r].artifact \in Artifacts /\ Traceable(registrar[r].artifact)
  /\ Len(registry) <= 1
  /\ \A n \in DOMAIN registry : Traceable(registry[n])

LEMMA CandidateInitial == ASSUME CandidateInit PROVE CandidateInv
<1>1. CandidateTypes
  BY DEF CandidateInit, CandidateTypes, NotPackaging
<1> QED
  BY <1>1 DEF CandidateInit, CandidateInv, NotPackaging

\* Rows are added to a version that has some only by another of its builds.
LEMMA BuildsGoOn ==
  ASSUME DatasetInv, DatasetNext
  PROVE  /\ rows[Principal] \subseteq rows'[Principal]
         /\ SeveralBuilds => SeveralBuilds'
         /\ rows[Principal] # {} /\ rows'[Principal] # rows[Principal] => SeveralBuilds'
<1>1. CASE \E e \in Fires : ImportFire(e) \/ AssessFire(e) \/ FindDuplicate(e)
  <2>1. rows' = rows /\ builds' = builds
    BY <1>1 DEF ImportFire, AssessFire, FindDuplicate, stored
  <2> QED
    BY <2>1 DEF SeveralBuilds, BuildsOf
<1>2. ASSUME NEW b \in Builders, BuildStep(b)
      PROVE  /\ rows[Principal] \subseteq rows'[Principal]
             /\ SeveralBuilds => SeveralBuilds'
             /\ rows[Principal] # {} /\ rows'[Principal] # rows[Principal] => SeveralBuilds'
  <2>1. /\ DatasetTypes /\ BuilderSound(b) /\ OwnBuilds /\ RowsBuilt(Principal)
        /\ rows \in [Versions -> SUBSET (Days \X {0, 1})]
    BY PrincipalAssumption DEF DatasetInv, DatasetTypes
  <2>2. Keeps(b)
    BY <1>2, <2>1, BuilderStep
  <2>3. BuildsOf(Principal) \subseteq BuildsOf(Principal)'
    BY <2>2, PrincipalAssumption DEF Keeps, BuildsOf
  <2>4. SeveralBuilds => SeveralBuilds'
    BY <2>3 DEF SeveralBuilds
  <2>5. CASE rows' = rows
    BY <2>4, <2>5
  <2>6. CASE PersistRows(b)
    <3>1. builder[b].step = "rows" /\ builder[b].step \in HasBuild /\ builder[b].step \in HasTodo
      BY <2>6 DEF PersistRows, HasBuild, HasTodo, HasVersion
    <3>2. /\ Current(b) \in Versions /\ builder[b].build \in BuildsOf(Current(b))
      BY <2>1, <3>1, CurrentType DEF BuilderSound, BuildsOf
    <3>3. PICK new : rows' = [rows EXCEPT ![Current(b)] = @ \cup new]
      BY <2>6 DEF PersistRows, RowsKept
    <3>4. rows[Principal] \subseteq rows'[Principal]
      BY <2>1, <3>2, <3>3, PrincipalAssumption
    <3>5. ASSUME rows[Principal] # {}, rows'[Principal] # rows[Principal] PROVE SeveralBuilds
      <4>1. Current(b) = Principal
        BY <2>1, <3>3, <3>5, PrincipalAssumption
      <4>2. PICK n \in BuildsOf(Principal) :
              \A o \in Builders : builder[o].build = n => builder[o].step # "rows"
        BY <2>1, <3>5 DEF RowsBuilt
      <4>3. n # builder[b].build
        BY <3>1, <4>2
      <4> QED
        BY <3>2, <4>1, <4>2, <4>3 DEF SeveralBuilds
    <3> QED
      BY <2>4, <3>4, <3>5
  <2> QED
    BY <1>2, <2>1, <2>5, <2>6, StepWrites
<1> QED
  BY <1>1, <1>2 DEF DatasetNext

LEMMA CandidateKept ==
  ASSUME CandidateInv, UNCHANGED candidates, rows[Principal] \subseteq rows'[Principal],
         SeveralBuilds => SeveralBuilds',
         rows[Principal] # {} /\ rows'[Principal] # rows[Principal] => SeveralBuilds'
  PROVE  CandidateInv'
<1>1. UNCHANGED <<packager, packaged, registrar, registry>>
  BY DEF candidates
<1>2. CandidateTypes'
  BY <1>1 DEF CandidateInv, CandidateTypes
<1>3. \A a : Traceable(a) => Traceable(a)'
  BY DEF Traceable
<1>4. \A p : Printed(p) => Printed(p)'
  BY DEF Printed
<1>5. Traceable(packager) => Traceable(packager)'
  BY <1>1, <1>3 DEF Traceable
<1>6. Printed(packager) => Printed(packager)'
  BY <1>1, <1>4 DEF Printed
<1>7. ASSUME NEW n \in DOMAIN packaged' PROVE Traceable(packaged[n])'
  BY <1>1, <1>3, <1>7 DEF CandidateInv, Traceable
<1>8. ASSUME NEW r \in Registrars, registrar'[r].step # "idle"
      PROVE  registrar'[r].artifact \in Artifacts /\ Traceable(registrar[r].artifact)'
  BY <1>1, <1>3, <1>8 DEF CandidateInv, Traceable
<1>9. ASSUME NEW n \in DOMAIN registry' PROVE Traceable(registry[n])'
  BY <1>1, <1>3, <1>9 DEF CandidateInv, Traceable
<1> QED
  BY <1>1, <1>2, <1>5, <1>6, <1>7, <1>8, <1>9 DEF CandidateInv

LEMMA CandidateStep == ASSUME CandidateInv, DatasetTypes, CandidateNext PROVE CandidateInv'
<1>1. rows' = rows /\ builds' = builds
  BY DEF CandidateNext, ReadFingerprint, ReadTrainingRows, WriteArtifact, LoadArtifact, LookRegistered,
     InsertCandidate, datasets, stored
<1>2. /\ \A a : Traceable(a)' <=> Traceable(a)
      /\ \A p : Printed(p)' <=> Printed(p)
  BY <1>1 DEF Traceable, Printed, SeveralBuilds, BuildsOf
<1>3. /\ rows[Principal] \in SUBSET (Days \X {0, 1})
      /\ CandidateTypes
  BY PrincipalAssumption DEF DatasetTypes, CandidateInv
<1> USE <1>1, <1>2, <1>3
<1>4. CASE ReadFingerprint
  <2>1. PICK p : p = packager'
    OBVIOUS
  <2>2. p = [packager EXCEPT !.step = "train", !.print = rows[Principal]] /\ rows[Principal] # {}
    BY <1>4, <2>1 DEF ReadFingerprint
  <2>3. p.step = "train" /\ p.print = rows[Principal]
    BY <2>2 DEF CandidateTypes
  <2>4. CandidateTypes'
    BY <1>4, <2>1, <2>2 DEF ReadFingerprint, CandidateTypes
  <2>5. Printed(p)
    BY <2>2, <2>3 DEF Printed
  <2>6. UNCHANGED <<packaged, registrar, registry>>
    BY <1>4 DEF ReadFingerprint
  <2> QED
    BY <2>1, <2>3, <2>4, <2>5, <2>6 DEF CandidateInv
<1>5. CASE ReadTrainingRows
  <2>1. PICK p : p = packager'
    OBVIOUS
  <2>2. p = [packager EXCEPT !.step = "write", !.trained = rows[Principal]] /\ packager.step = "train"
    BY <1>5, <2>1 DEF ReadTrainingRows
  <2>3. p.step = "write" /\ p.print = packager.print /\ p.trained = rows[Principal]
    BY <2>2 DEF CandidateTypes
  <2>4. CandidateTypes'
    BY <1>5, <2>1, <2>2 DEF ReadTrainingRows, CandidateTypes
  <2>5. Printed(packager)
    BY <2>2 DEF CandidateInv
  <2>6. Printed(p) /\ Traceable(p)
    BY <2>3, <2>5 DEF Printed, Traceable
  <2>7. UNCHANGED <<packaged, registrar, registry>>
    BY <1>5 DEF ReadTrainingRows
  <2> QED
    BY <2>1, <2>3, <2>4, <2>6, <2>7 DEF CandidateInv
<1>6. CASE WriteArtifact
  <2>1. PICK a : a = Artifact(packager)
    OBVIOUS
  <2>2. packaged' = Append(packaged, a) /\ packager' = NotPackaging /\ packager.step = "write"
    BY <1>6, <2>1 DEF WriteArtifact
  <2>3. a \in Artifacts /\ a.print = packager.print /\ a.trained = packager.trained
    BY <2>1 DEF Artifact, Artifacts, CandidateTypes
  <2>4. CandidateTypes'
    BY <1>6, <2>2, <2>3 DEF WriteArtifact, CandidateTypes, NotPackaging
  <2>5. Traceable(packager)
    BY <2>2 DEF CandidateInv
  <2>6. Traceable(a)
    BY <2>3, <2>5 DEF Traceable
  <2>7. packaged \in Seq(Artifacts) /\ \A n \in DOMAIN packaged : Traceable(packaged[n])
    BY DEF CandidateTypes, CandidateInv
  <2>8. ASSUME NEW n, n \in DOMAIN packaged' PROVE Traceable(packaged'[n])
    <3>1. (n \in DOMAIN packaged /\ packaged'[n] = packaged[n]) \/ packaged'[n] = a
      BY <2>2, <2>3, <2>7, <2>8
    <3> QED
      BY <2>6, <2>7, <3>1
  <2>9. UNCHANGED <<registrar, registry>> /\ packager'.step = "idle"
    BY <1>6, <2>2 DEF WriteArtifact, NotPackaging
  <2> QED
    BY <2>4, <2>8, <2>9 DEF CandidateInv
<1>7. ASSUME NEW r \in Registrars, LoadArtifact(r) PROVE CandidateInv'
  <2>1. PICK n \in DOMAIN packaged :
          registrar' = [registrar EXCEPT ![r] = [step |-> "look", artifact |-> packaged[n]]]
    BY <1>7 DEF LoadArtifact
  <2>2. packaged[n] \in Artifacts /\ Traceable(packaged[n])
    BY DEF CandidateTypes, CandidateInv
  <2>3. UNCHANGED <<packager, packaged, registry>>
    BY <1>7 DEF LoadArtifact
  <2>4. CandidateTypes'
    BY <2>1, <2>2, <2>3 DEF CandidateTypes
  <2>5. ASSUME NEW q \in Registrars, registrar'[q].step # "idle"
        PROVE  registrar'[q].artifact \in Artifacts /\ Traceable(registrar'[q].artifact)
    BY <2>1, <2>2, <2>5 DEF CandidateInv, CandidateTypes
  <2> QED
    BY <2>3, <2>4, <2>5 DEF CandidateInv
<1>8. ASSUME NEW r \in Registrars, DoneRegistering(r)
      PROVE  /\ registrar' \in [Registrars -> [step : {"idle", "look", "insert"}, artifact : {None} \cup Artifacts]]
             /\ \A q \in Registrars : registrar'[q].step # "idle" => registrar'[q] = registrar[q]
  BY <1>8 DEF DoneRegistering, CandidateTypes
<1>9. ASSUME NEW r \in Registrars, LookRegistered(r) PROVE CandidateInv'
  <2>1. UNCHANGED <<packager, packaged, registry>>
    BY <1>9 DEF LookRegistered
  <2>2. CASE DoneRegistering(r)
    <3>1. CandidateTypes'
      BY <1>8, <2>1, <2>2 DEF CandidateTypes
    <3> QED
      BY <1>8, <2>1, <2>2, <3>1 DEF CandidateInv
  <2>3. CASE registrar' = [registrar EXCEPT ![r] = [@ EXCEPT !.step = "insert"]]
    <3>1. registrar[r].step = "look"
      BY <1>9 DEF LookRegistered
    <3>2. /\ registrar' \in [Registrars -> [step : {"idle", "look", "insert"}, artifact : {None} \cup Artifacts]]
          /\ \A q \in Registrars : q # r => registrar'[q] = registrar[q]
          /\ registrar'[r].artifact = registrar[r].artifact
      BY <2>3 DEF CandidateTypes
    <3>3. CandidateTypes'
      BY <2>1, <3>2 DEF CandidateTypes
    <3>4. ASSUME NEW q \in Registrars, registrar'[q].step # "idle"
        PROVE  registrar'[q].artifact \in Artifacts /\ Traceable(registrar'[q].artifact)
      BY <3>1, <3>2, <3>4 DEF CandidateInv
    <3> QED
      BY <2>1, <3>3, <3>4 DEF CandidateInv
  <2> QED
    BY <1>9, <2>2, <2>3 DEF LookRegistered
<1>10. ASSUME NEW r \in Registrars, InsertCandidate(r) PROVE CandidateInv'
  <2>1. /\ UNCHANGED <<packager, packaged>> /\ DoneRegistering(r) /\ registrar[r].step = "insert"
        /\ registry' = Registered(registrar[r].artifact)
    BY <1>10 DEF InsertCandidate
  <2>2. PICK a : a = registrar[r].artifact
    OBVIOUS
  <2>3. Traceable(a) /\ a \in Artifacts
    BY <2>1, <2>2 DEF CandidateInv
  <2>4. registry' = registry \/ registry' = <<a>>
    BY <2>1, <2>2 DEF Registered
  <2>5. registry' \in Seq(Artifacts)
    <3>1. <<a>> \in Seq(Artifacts) /\ registry \in Seq(Artifacts)
      BY <2>3 DEF CandidateTypes
    <3> QED
      BY <2>4, <3>1
  <2>6. CandidateTypes'
    BY <1>8, <2>1, <2>5 DEF CandidateTypes
  <2>7. Len(registry') <= 1
    <3>1. Len(registry) <= 1 /\ Len(<<a>>) = 1
      BY DEF CandidateInv
    <3> QED
      BY <2>4, <3>1
  <2>8. ASSUME NEW n, n \in DOMAIN registry' PROVE Traceable(registry'[n])
    BY <2>3, <2>4, <2>8 DEF CandidateInv
  <2> QED
    BY <1>8, <2>1, <2>6, <2>7, <2>8 DEF CandidateInv
<1> QED
  BY <1>4, <1>5, <1>6, <1>7, <1>9, <1>10 DEF CandidateNext

LEMMA TraceableFromInv == ASSUME DatasetTypes, CandidateInv PROVE CandidatesTraceable
<1>1. ASSUME SeveralBuilds PROVE Cardinality(BuildsOf(Principal)) > 1
  <2>1. PICK m \in BuildsOf(Principal), n \in BuildsOf(Principal) : m # n
    BY <1>1 DEF SeveralBuilds
  <2>2. IsFiniteSet(1..Len(builds)) /\ BuildsOf(Principal) \subseteq 1..Len(builds)
    BY BuildIds, FS_Interval DEF BuildsOf
  <2>3. IsFiniteSet(BuildsOf(Principal))
    BY <2>2, FS_Subset
  <2>4. IsFiniteSet({m}) /\ Cardinality({m}) = 1
    BY FS_Singleton
  <2>5. Cardinality({m} \cup {n}) = 2
    <3>1. n \notin {m}
      BY <2>1
    <3>2. Cardinality({m} \cup {n}) = Cardinality({m}) + 1
      BY ONLY <2>4, <3>1, FS_AddElement
    <3> QED
      BY <2>4, <3>2
  <2>6. {m} \cup {n} \subseteq BuildsOf(Principal)
    BY <2>1
  <2>7. Cardinality({m} \cup {n}) <= Cardinality(BuildsOf(Principal))
    BY <2>3, <2>6, FS_Subset
  <2>8. Cardinality(BuildsOf(Principal)) \in Nat
    BY <2>3, FS_CardinalityType
  <2> QED
    BY <2>5, <2>7, <2>8
<1> QED
  BY <1>1 DEF CandidateInv, Traceable, CandidatesTraceable

-----------------------------------------------------------------------------

LEMMA PackagingInvariant == PackagingSpec => [](DatasetInv /\ CandidateInv)
<1>1. PackagingInit => DatasetInv /\ CandidateInv
  BY DatasetInitial, CandidateInitial DEF PackagingInit
<1>2. ASSUME DatasetInv, CandidateInv, [PackagingNext]_<<datasets, candidates, faults>>
      PROVE  DatasetInv' /\ CandidateInv'
  <2>1. CASE DatasetNext /\ UNCHANGED candidates
    <3>1. DatasetInv'
      BY <1>2, <2>1, DatasetStep
    <3>2. /\ rows[Principal] \subseteq rows'[Principal]
          /\ SeveralBuilds => SeveralBuilds'
          /\ rows[Principal] # {} /\ rows'[Principal] # rows[Principal] => SeveralBuilds'
      BY <1>2, <2>1, BuildsGoOn
    <3>3. CandidateInv'
      BY <1>2, <2>1, <3>2, CandidateKept
    <3> QED
      BY <3>1, <3>3
  <2>2. CASE CandidateNext
    <3>1. UNCHANGED <<datasets, faults>>
      BY <2>2 DEF CandidateNext, ReadFingerprint, ReadTrainingRows, WriteArtifact, LoadArtifact,
         LookRegistered, InsertCandidate
    <3>2. UNCHANGED <<builder, stored, commands, faults>> /\ UNCHANGED <<fires, assessed, duplicates>>
      BY <3>1 DEF datasets, sources
    <3>3. fires' \in SUBSET Fires /\ assessed' \in SUBSET Fires /\ duplicates' \in SUBSET Fires
      BY <1>2, <3>2 DEF DatasetInv, DatasetTypes
    <3>4. DatasetInv'
      BY <1>2, <3>2, <3>3, SourcesChange
    <3>5. CandidateInv'
      BY <1>2, <2>2, CandidateStep DEF DatasetInv
    <3> QED
      BY <3>4, <3>5
  <2>3. CASE UNCHANGED <<datasets, candidates, faults>>
    <3>1. UNCHANGED <<builder, stored, commands, faults>> /\ UNCHANGED <<fires, assessed, duplicates>>
      BY <2>3 DEF datasets, sources
    <3>2. fires' \in SUBSET Fires /\ assessed' \in SUBSET Fires /\ duplicates' \in SUBSET Fires
      BY <1>2, <3>1 DEF DatasetInv, DatasetTypes
    <3>3. DatasetInv'
      BY <1>2, <3>1, <3>2, SourcesChange
    <3>4. rows' = rows /\ (SeveralBuilds' <=> SeveralBuilds)
      BY <3>1 DEF stored, SeveralBuilds, BuildsOf
    <3>5. CandidateInv'
      BY <1>2, <2>3, <3>4, CandidateKept
    <3> QED
      BY <3>3, <3>5
  <2> QED
    BY <1>2, <2>1, <2>2, <2>3 DEF PackagingNext
<1> QED
  BY <1>1, <1>2, PTL DEF PackagingSpec

(* Whatever the commands and the order of their steps: a fire that was     *)
(* read is accounted for, labels have their reasons, and builds and        *)
(* versions are left as the commands ended (dataset builds).               *)
THEOREM DatasetsSoundHolds == PackagingSpec => []DatasetsSound
BY PackagingInvariant, SoundFromInv, PTL

(* Whatever the commands and the order of their steps: the one artifact    *)
(* that is registered can be traced to the rows of its dataset version     *)
(* (build_candidate_artifact, register_model_candidate).                   *)
THEOREM CandidatesTraceableHolds == PackagingSpec => []CandidatesTraceable
<1>1. DatasetInv /\ CandidateInv => CandidatesTraceable
  BY TraceableFromInv DEF DatasetInv
<1> QED
  BY <1>1, PackagingInvariant, PTL

LEMMA Parts == Spec => PackagingSpec /\ BundleSpec
<1>1. Init => PackagingInit /\ BundleInit
  BY DEF Init
<1>2. [Next]_vars => [PackagingNext]_<<datasets, candidates, faults>> /\ [BundleNext]_bundles
  <2> SUFFICES ASSUME [Next]_vars
               PROVE  [PackagingNext]_<<datasets, candidates, faults>> /\ [BundleNext]_bundles
    OBVIOUS
  <2> QED
    BY DEF Next, vars
<1> QED
  BY <1>1, <1>2, PTL DEF Spec, PackagingSpec, BundleSpec

(* The commands that prepare the data of a model, run in any order: what   *)
(* they build can be traced to what it was built from.                     *)
THEOREM ModelDataSound ==
  Spec => /\ [](DatasetsSound /\ CandidatesTraceable /\ BundlesFaithful)
          /\ BundlesFrozen
BY Parts, DatasetsSoundHolds, CandidatesTraceableHolds, BundlesFaithfulHolds, BundlesFrozenHolds, PTL

-----------------------------------------------------------------------------
(* Experiments and comparison.                                             *)

AllRows == UNION {Built[v].before \cup Built[v].after : v \in DOMAIN Built}

DataTypes ==
  /\ table = [v \in DOMAIN Built |-> table[v]]
  /\ study \in [step : {"fingerprint", "rows", "recheck", "done", "failed"}, turn : Nat,
                print : SUBSET AllRows, rows : SUBSET AllRows]
  /\ comparison \in [step : {"active", "fingerprint", "rows", "other", "recheck", "done", "failed"},
                     model : {Missing} \cup Int, print : SUBSET AllRows, rows : SUBSET AllRows,
                     other : SUBSET AllRows]

\* A version is built at most once.
TablesBuilt == \A v \in DOMAIN Built : table[v] \in {Built[v].before, Built[v].after}

Turning == study.step \in {"fingerprint", "rows", "recheck"} => study.turn \in 1..Len(StudyVersions)

\* Rows read after the fingerprint are those of it, unless the version was
\* built between: then it is not as it was at the fingerprint ever again.
PrintOf(print, v) == table[v] = print \/ table[v] = Built[v].after
RowsReadOf(print, read, v) ==
  PrintOf(print, v) /\ (read = print \/ (read = table[v] /\ table[v] = Built[v].after))

StudyReads ==
  /\ study.step = "rows" => PrintOf(study.print, StudyVersions[study.turn])
  /\ study.step = "recheck" => RowsReadOf(study.print, study.rows, StudyVersions[study.turn])

ComparisonReads ==
  /\ comparison.step = "rows" => PrintOf(comparison.print, MainVersion)
  /\ comparison.step \in {"other", "recheck"} =>
       RowsReadOf(comparison.print, comparison.rows, MainVersion)

FreeOfLeaks(m) ==
  IF m.kind = "spatial" THEN \A f \in m.fit, s \in m.scored : ParentOf(f) # ParentOf(s)
  ELSE Earlier(m.fit, m.scored)

ReportSound(r) ==
  /\ \A m \in r.measures : FreeOfLeaks(m)
  /\ r.rows = r.print
  /\ r.kind = "comparison" =>
       \A m \in r.measures : m.kind = "human" => Candidate(r.rows, m.scored) \in r.measures

DataInv ==
  DataTypes /\ TablesBuilt /\ Turning /\ StudyReads /\ ComparisonReads /\ \A r \in reports : ReportSound(r)

-----------------------------------------------------------------------------

LEMMA SplitYears ==
  ASSUME NEW given \in SUBSET AllRows
  PROVE  /\ \A r \in RowsOfSplit(given, "train") : r \in given /\ YearOf(r) \in 1..3
         /\ \A r \in RowsOfSplit(given, "calibration") : r \in given /\ YearOf(r) = 4
         /\ \A r \in RowsOfSplit(given, "test") : r \in given /\ YearOf(r) = 5
<1>1. \A r \in given : YearOf(r) \in 1..5
  BY RowsAssumption DEF AllRows
<1> QED
  BY <1>1 DEF RowsOfSplit

LEMMA SelectionFree ==
  ASSUME NEW given \in SUBSET AllRows, NEW m \in Selection(given)
  PROVE  FreeOfLeaks(m)
<1> DEFINE train == RowsOfSplit(given, "train")
           Fold(year) == Measure("selection", Before(train, year), In(train, year))
<1>1. \E year \in {2, 3} : m = Fold(year)
  BY DEF Selection
<1>2. PICK year \in {2, 3} : m = Fold(year)
  BY <1>1
<1>3. m.kind = "selection" /\ m.fit = Before(train, year) /\ m.scored = In(train, year)
  BY <1>2 DEF Measure
<1>4. Earlier(Before(train, year), In(train, year))
  BY DEF Earlier, Before, In
<1> QED
  BY <1>3, <1>4 DEF FreeOfLeaks

LEMMA MeasuresFree ==
  ASSUME NEW given \in SUBSET AllRows, NEW m \in Measures(given)
  PROVE  FreeOfLeaks(m)
<1> DEFINE train == RowsOfSplit(given, "train")
           calibration == RowsOfSplit(given, "calibration")
           test == RowsOfSplit(given, "test")
<1>1. CASE m \in Selection(given)
  BY <1>1, SelectionFree
<1>2. CASE m \in {Measure("baseline", train, test), Measure("raw", train, test),
                  Measure("calibrated", train \cup calibration, test)}
  <2>1. m.kind # "spatial" /\ m.fit \subseteq train \cup calibration /\ m.scored = test
    BY <1>2 DEF Measure
  <2>2. Earlier(m.fit, m.scored)
    BY <2>1, SplitYears DEF Earlier
  <2> QED
    BY <2>1, <2>2 DEF FreeOfLeaks
<1> QED
  BY <1>1, <1>2 DEF Measures

LEMMA SupplementaryFree ==
  ASSUME NEW given \in SUBSET AllRows, NEW m \in Supplementary(given)
  PROVE  FreeOfLeaks(m)
<1> DEFINE train == RowsOfSplit(given, "train")
           Fold(f) == {r \in train : ParentOf(r) % 5 = f}
<1>1. CASE \E f \in 0..4 : m = Measure("spatial", train \ Fold(f), Fold(f))
  <2>1. PICK f \in 0..4 : m = Measure("spatial", train \ Fold(f), Fold(f))
    BY <1>1
  <2>2. m.kind = "spatial" /\ m.fit = train \ Fold(f) /\ m.scored = Fold(f)
    BY <2>1 DEF Measure
  <2>3. ASSUME NEW g \in m.fit, NEW s \in m.scored
        PROVE  ParentOf(g) # ParentOf(s)
    <3>1. ParentOf(g) % 5 # f /\ ParentOf(s) % 5 = f
      BY <2>2
    <3> QED
      BY <3>1
  <2> QED
    BY <2>2, <2>3 DEF FreeOfLeaks
<1>2. CASE m = Measure("weighting", train, RowsOfSplit(given, "calibration"))
  <2>1. m.kind # "spatial" /\ m.fit = train /\ m.scored = RowsOfSplit(given, "calibration")
    BY <1>2 DEF Measure
  <2>2. Earlier(m.fit, m.scored)
    BY <2>1, SplitYears DEF Earlier
  <2> QED
    BY <2>1, <2>2 DEF FreeOfLeaks
<1> QED
  BY <1>1, <1>2 DEF Supplementary

LEMMA CandidateFree ==
  ASSUME NEW given \in SUBSET AllRows, NEW scoredRows \in SUBSET RowsOfSplit(given, "test")
  PROVE  FreeOfLeaks(Candidate(given, scoredRows))
<1> DEFINE m == Candidate(given, scoredRows)
<1>1. /\ m.kind = "candidate" /\ m.scored = scoredRows
      /\ m.fit = RowsOfSplit(given, "train") \cup RowsOfSplit(given, "calibration")
  BY DEF Candidate, Measure
<1>2. Earlier(m.fit, m.scored)
  BY <1>1, SplitYears DEF Earlier
<1> QED
  BY <1>1, <1>2 DEF FreeOfLeaks

LEMMA ExperimentSound ==
  ASSUME study.rows \in SUBSET AllRows, study.rows = study.print
  PROVE  ReportSound(Experiment)
<1>1. /\ Experiment.kind = "experiment" /\ Experiment.rows = Experiment.print
      /\ Experiment.measures \subseteq Measures(study.rows) \cup Supplementary(study.rows)
  BY DEF Experiment
<1> QED
  BY <1>1, MeasuresFree, SupplementaryFree DEF ReportSound

LEMMA ComparisonSound ==
  ASSUME comparison.rows \in SUBSET AllRows, comparison.other \in SUBSET AllRows,
         comparison.rows = comparison.print
  PROVE  ReportSound(Comparison)
<1> DEFINE r == Comparison
           all == Candidate(comparison.rows, RowsOfSplit(comparison.rows, "test"))
           common == Candidate(comparison.rows, Compared(comparison.rows))
           person == Measure("human", {}, Compared(comparison.rows))
           further == Candidate(comparison.other, RowsOfSplit(comparison.other, "test"))
<1>1. r.rows = comparison.rows /\ r.print = comparison.print
  BY DEF Comparison
<1>2. /\ \A m \in r.measures : m \in {all, common, person, further}
      /\ common \in r.measures
  BY DEF Comparison
<1>3. FreeOfLeaks(all) /\ FreeOfLeaks(common) /\ FreeOfLeaks(further)
  BY CandidateFree DEF Compared
<1>4. person.kind = "human" /\ person.scored = Compared(comparison.rows) /\ FreeOfLeaks(person)
  BY DEF Measure, FreeOfLeaks, Earlier
<1>5. all.kind = "candidate" /\ common.kind = "candidate" /\ further.kind = "candidate"
  BY DEF Candidate, Measure
<1> HIDE DEF r, all, common, person, further
<1>6. \A m \in r.measures : m.kind = "human" => m = person
  BY <1>2, <1>5
<1>7. \A m \in r.measures : m.kind = "human" => Candidate(r.rows, m.scored) \in r.measures
  BY <1>1, <1>2, <1>4, <1>6 DEF common
<1>8. \A m \in r.measures : FreeOfLeaks(m)
  BY <1>2, <1>3, <1>4
<1>9. ReportSound(r)
  BY <1>1, <1>7, <1>8 DEF ReportSound
<1> QED
  BY <1>9 DEF r

LEMMA VersionGiven == MainVersion \in DOMAIN Built /\ MainVersion = StudyVersions[1]
BY RowsAssumption DEF MainVersion

LEMMA TableRows ==
  ASSUME TablesBuilt, NEW v \in DOMAIN Built
  PROVE  table[v] \in SUBSET AllRows
BY DEF TablesBuilt, AllRows

LEMMA DataInit == StudyInit => DataInv
<1> SUFFICES ASSUME StudyInit PROVE DataInv
  OBVIOUS
<1>1. /\ table = [v \in DOMAIN Built |-> Built[v].before]
      /\ study = [step |-> "fingerprint", turn |-> 1, print |-> {}, rows |-> {}]
      /\ comparison = [step |-> "active", model |-> Missing, print |-> {}, rows |-> {}, other |-> {}]
      /\ reports = {}
  BY DEF StudyInit
<1>2. DataTypes /\ TablesBuilt
  BY <1>1 DEF DataTypes, TablesBuilt
<1>3. Turning
  BY <1>1, RowsAssumption DEF Turning
<1>4. StudyReads /\ ComparisonReads
  BY <1>1 DEF StudyReads, ComparisonReads
<1> QED
  BY <1>1, <1>2, <1>3, <1>4 DEF DataInv

LEMMA BuildKeeps ==
  ASSUME DataInv, NEW v \in DOMAIN table, Build(v)
  PROVE  DataInv'
<1>1. /\ table' = [table EXCEPT ![v] = Built[v].after]
      /\ UNCHANGED <<study, comparison, reports>>
      /\ DOMAIN table = DOMAIN Built
  BY DEF Build, DataInv, DataTypes
<1>2. \A w \in DOMAIN Built : table'[w] = table[w] \/ table'[w] = Built[w].after
  BY <1>1
<1>3. DataTypes' /\ TablesBuilt'
  BY <1>1, <1>2 DEF DataInv, DataTypes, TablesBuilt
<1>4. ASSUME NEW w \in DOMAIN Built, NEW print, NEW read
      PROVE  /\ PrintOf(print, w) => PrintOf(print, w)'
             /\ RowsReadOf(print, read, w) => RowsReadOf(print, read, w)'
  BY <1>2 DEF PrintOf, RowsReadOf
<1>5. study.step \in {"rows", "recheck"} => StudyVersions[study.turn] \in DOMAIN Built
  BY RowsAssumption DEF DataInv, Turning
<1>6. StudyReads'
  BY <1>1, <1>4, <1>5 DEF DataInv, StudyReads
<1>7. ComparisonReads'
  BY <1>1, <1>4, VersionGiven DEF DataInv, ComparisonReads
<1> QED
  BY <1>1, <1>3, <1>6, <1>7 DEF DataInv, Turning

LEMMA StudyKeeps ==
  ASSUME DataInv, Fingerprint \/ ReadRows \/ Report
  PROVE  DataInv'
<1> DEFINE v == StudyVersions[study.turn]
<1>1. /\ UNCHANGED <<table, comparison>>
      /\ study.step \in {"fingerprint", "rows", "recheck"} /\ study.turn \in 1..Len(StudyVersions)
  BY DEF Fingerprint, ReadRows, Report, DataInv, Turning
<1>2. v \in DOMAIN Built /\ table[v] \in SUBSET AllRows
  BY <1>1, RowsAssumption, TableRows DEF DataInv
<1>3. TablesBuilt' /\ ComparisonReads'
  BY <1>1 DEF DataInv, TablesBuilt, ComparisonReads, PrintOf, RowsReadOf
<1>4. CASE Fingerprint
  <2>1. /\ UNCHANGED reports
        /\ study' = [study EXCEPT !.step = "failed"]
             \/ study' = [study EXCEPT !.step = "rows", !.print = table[v]]
    BY <1>4 DEF Fingerprint
  <2>2. DataTypes'
    BY <1>1, <1>2, <2>1 DEF DataInv, DataTypes
  <2>3. Turning' /\ StudyReads'
    BY <1>1, <2>1 DEF DataInv, DataTypes, Turning, StudyReads, PrintOf
  <2> QED
    BY <1>3, <2>1, <2>2, <2>3 DEF DataInv
<1>5. CASE ReadRows
  <2>1. /\ UNCHANGED reports /\ study.step = "rows"
        /\ study' = [study EXCEPT !.step = "recheck", !.rows = table[v]]
    BY <1>5 DEF ReadRows
  <2>2. DataTypes'
    BY <1>1, <1>2, <2>1 DEF DataInv, DataTypes
  <2>3. PrintOf(study.print, v)
    BY <2>1 DEF DataInv, StudyReads
  <2>4. RowsReadOf(study.print, table[v], v)
    BY <2>3 DEF RowsReadOf, PrintOf
  <2>5. study'.step = "recheck" /\ study'.turn = study.turn
          /\ study'.print = study.print /\ study'.rows = table[v]
    BY <2>1 DEF DataInv, DataTypes
  <2>6. Turning' /\ StudyReads'
    BY <1>1, <2>4, <2>5 DEF Turning, StudyReads, RowsReadOf, PrintOf
  <2> QED
    BY <1>3, <2>1, <2>2, <2>6 DEF DataInv
<1>6. CASE Report
  <2>1. study.step = "recheck" /\ RowsReadOf(study.print, study.rows, v)
    BY <1>6 DEF Report, DataInv, StudyReads
  <2>2. CASE UnchangedSince(study.print, v)
    <3>1. /\ reports' = reports \cup {Experiment}
          /\ study' = [step |-> IF study.turn = Len(StudyVersions) THEN "done" ELSE "fingerprint",
                       turn |-> study.turn + 1, print |-> {}, rows |-> {}]
      BY <1>6, <2>2 DEF Report
    <3>2. study.rows = study.print
      BY <2>1, <2>2 DEF UnchangedSince, RowsReadOf
    <3>3. study.rows \in SUBSET AllRows
      BY DEF DataInv, DataTypes
    <3>4. ReportSound(Experiment)
      BY <3>2, <3>3, ExperimentSound
    <3>5. DataTypes'
      BY <1>1, <3>1 DEF DataInv, DataTypes
    <3>6. Turning' /\ StudyReads'
      BY <1>1, <3>1, RowsAssumption DEF Turning, StudyReads
    <3>7. \A r \in reports' : ReportSound(r)
      BY <3>1, <3>4 DEF DataInv
    <3> QED
      BY <1>3, <3>5, <3>6, <3>7 DEF DataInv
  <2>3. CASE ~UnchangedSince(study.print, v)
    <3>1. study' = [study EXCEPT !.step = "failed"] /\ UNCHANGED reports
      BY <1>6, <2>3 DEF Report
    <3>2. DataTypes'
      BY <1>1, <3>1 DEF DataInv, DataTypes
    <3>3. Turning' /\ StudyReads'
      BY <3>1 DEF DataInv, DataTypes, Turning, StudyReads
    <3> QED
      BY <1>3, <3>1, <3>2, <3>3 DEF DataInv
  <2> QED
    BY <2>2, <2>3
<1> QED
  BY <1>4, <1>5, <1>6

LEMMA ComparisonKeeps ==
  ASSUME DataInv, ActiveModels # {} => Max(ActiveModels) \in Int,
         LookActiveModel \/ CompareFingerprint \/ CompareRows \/ CompareOther \/ Conclude
  PROVE  DataInv'
<1>1. UNCHANGED <<table, study>>
  BY DEF LookActiveModel, CompareFingerprint, CompareRows, CompareOther, Conclude
<1>2. TablesBuilt' /\ StudyReads' /\ Turning'
  BY <1>1 DEF DataInv, TablesBuilt, StudyReads, Turning, PrintOf, RowsReadOf
<1>3. table[MainVersion] \in SUBSET AllRows /\ table[OtherVersion] \in SUBSET AllRows
  BY VersionGiven, RowsAssumption, TableRows DEF DataInv
<1>4. CASE LookActiveModel
  <2>1. /\ UNCHANGED reports
        /\ \/ comparison' = [comparison EXCEPT !.step = "done"]
           \/ /\ comparison' = [comparison EXCEPT !.step = "fingerprint", !.model = Max(ActiveModels)]
              /\ Max(ActiveModels) \in Int
    BY <1>4 DEF LookActiveModel
  <2>2. DataTypes'
    BY <1>1, <2>1 DEF DataInv, DataTypes
  <2>3. comparison'.step \in {"done", "fingerprint"}
    BY <2>1 DEF DataInv, DataTypes
  <2> QED
    BY <1>2, <2>1, <2>2, <2>3 DEF DataInv, ComparisonReads
<1>5. CASE CompareFingerprint
  <2>1. /\ UNCHANGED reports
        /\ comparison' = [comparison EXCEPT !.step = "failed"]
             \/ comparison' = [comparison EXCEPT !.step = "rows", !.print = table[MainVersion]]
    BY <1>5 DEF CompareFingerprint
  <2>2. DataTypes'
    BY <1>1, <1>3, <2>1 DEF DataInv, DataTypes
  <2>3. ComparisonReads'
    BY <1>1, <2>1 DEF DataInv, DataTypes, ComparisonReads, PrintOf
  <2> QED
    BY <1>2, <2>1, <2>2, <2>3 DEF DataInv
<1>6. CASE CompareRows
  <2>1. /\ UNCHANGED reports /\ comparison.step = "rows"
        /\ comparison' = [comparison EXCEPT !.step = "other", !.rows = table[MainVersion]]
    BY <1>6 DEF CompareRows
  <2>2. DataTypes'
    BY <1>1, <1>3, <2>1 DEF DataInv, DataTypes
  <2>3. RowsReadOf(comparison.print, table[MainVersion], MainVersion)
    BY <2>1 DEF DataInv, ComparisonReads, RowsReadOf, PrintOf
  <2>4. ComparisonReads'
    BY <1>1, <2>1, <2>3 DEF DataInv, DataTypes, ComparisonReads, PrintOf, RowsReadOf
  <2> QED
    BY <1>2, <2>1, <2>2, <2>4 DEF DataInv
<1>7. CASE CompareOther
  <2>1. /\ UNCHANGED reports /\ comparison.step = "other"
        /\ comparison' = [comparison EXCEPT !.step = "recheck", !.other = table[OtherVersion]]
    BY <1>7 DEF CompareOther
  <2>2. DataTypes'
    BY <1>1, <1>3, <2>1 DEF DataInv, DataTypes
  <2>3. ComparisonReads'
    BY <1>1, <2>1 DEF DataInv, DataTypes, ComparisonReads, PrintOf, RowsReadOf
  <2> QED
    BY <1>2, <2>1, <2>2, <2>3 DEF DataInv
<1>8. CASE Conclude
  <2>1. comparison.step = "recheck" /\ RowsReadOf(comparison.print, comparison.rows, MainVersion)
    BY <1>8 DEF Conclude, DataInv, ComparisonReads
  <2>2. \/ /\ UnchangedSince(comparison.print, MainVersion)
           /\ reports' = reports \cup {Comparison} /\ comparison' = [comparison EXCEPT !.step = "done"]
        \/ UNCHANGED reports /\ comparison' = [comparison EXCEPT !.step = "failed"]
    BY <1>8 DEF Conclude
  <2>3. UnchangedSince(comparison.print, MainVersion) => comparison.rows = comparison.print
    BY <2>1 DEF UnchangedSince, RowsReadOf
  <2>4. comparison.rows \in SUBSET AllRows /\ comparison.other \in SUBSET AllRows
    BY DEF DataInv, DataTypes
  <2>5. \A r \in reports' : ReportSound(r)
    BY <2>2, <2>3, <2>4, ComparisonSound DEF DataInv
  <2>6. DataTypes' /\ comparison'.step \in {"done", "failed"}
    BY <1>1, <2>2 DEF DataInv, DataTypes
  <2> QED
    BY <1>2, <2>5, <2>6 DEF DataInv, ComparisonReads
<1> QED
  BY <1>4, <1>5, <1>6, <1>7, <1>8

LEMMA DataKept ==
  ASSUME DataInv, UNCHANGED data
  PROVE  DataInv'
BY DEF DataInv, data, DataTypes, TablesBuilt, Turning, StudyReads, ComparisonReads, PrintOf, RowsReadOf

-----------------------------------------------------------------------------
(* Trainings of the human model.                                           *)

Trainings ==
  [step : {"idle", "validation", "controls", "deactivate", "insert"}, given : {Missing} \cup Intervals,
   train : SUBSET PastFires, validation : SUBSET PastFires, seen : SUBSET Nat]

Samples == SUBSET [cell : ToSet(Cells), day : Int]

StoredModels ==
  [given : Intervals, train : SUBSET PastFires, validation : SUBSET PastFires,
   controls : Samples, validationControls : Samples, active : BOOLEAN]

HumanTypes ==
  /\ humanFires \in SUBSET PastFires
  /\ trainer \in [Trainers -> Trainings]
  /\ models \in Seq(StoredModels)

\* The fires of an interval that a training has read, and how they are known
\* to allow for their controls.
DaysWithin(interval, positives) == \A f \in positives : f.day \in interval[1]..interval[2]
Enough(positives) == positives # {} /\ ControlsOf(positives) <= Len(Cells)

TrainerSound(t) ==
  /\ trainer[t].step # "idle" =>
       /\ trainer[t].given \in Intervals /\ Valid(trainer[t].given)
       /\ DaysWithin(trainer[t].given.train, trainer[t].train)
  /\ trainer[t].step \in {"controls", "deactivate", "insert"} =>
       /\ DaysWithin(trainer[t].given.validation, trainer[t].validation)
       /\ Enough(trainer[t].train) /\ Enough(trainer[t].validation)
  /\ trainer[t].step \in {"deactivate", "insert"} => AllSearchesEnd(t)

HumanInv ==
  /\ HumanTypes
  /\ \A t \in Trainers : TrainerSound(t)
  /\ \A n \in DOMAIN models : Made(models[n])
  /\ models # <<>> => ActiveModels = {Len(models)}

-----------------------------------------------------------------------------
\* Nonempty sets of numbers, bounded below, have a first.
LEMMA ControlDayFree ==
  ASSUME NEW cell, NEW interval \in Int \X Int, NEW positives,
         interval[1] <= interval[2], FirstDay(cell, interval) \in Int,
         FreeDays(cell, interval, positives) # {}
  PROVE  ControlDay(cell, interval, positives) \in FreeDays(cell, interval, positives)
<1> DEFINE length == interval[2] - interval[1] + 1
           first == ControlDayUnchecked(cell, interval, positives)
           Offset(d) == (d - first) % length
           free == FreeDays(cell, interval, positives)
<1>1. length \in Nat /\ length > 0
  OBVIOUS
<1>2. FirstDay(cell, interval) % length \in Int
  BY <1>1
<1>3. first \in Int
  BY <1>2 DEF ControlDayUnchecked
<1>4. \A d \in free : d \in Int
  BY DEF FreeDays
<1> HIDE DEF length, first, free
<1>5. \A d \in free : Offset(d) \in Nat
  <2>1. ASSUME NEW d \in free PROVE Offset(d) \in Nat
    <3>1. d - first \in Int
      BY <1>3, <1>4
    <3> QED
      BY <1>1, <3>1
  <2> QED
    BY <2>1
<1> HIDE DEF Offset
<1>6. \E d \in free : \A e \in free : Offset(d) <= Offset(e)
  <2> DEFINE S == {Offset(d) : d \in free}
  <2>1. S \subseteq Nat /\ S # {}
    BY <1>5 DEF free
  <2>2. PICK x \in S : \A y \in S : x <= y
    BY <2>1, LeastNumber
  <2> QED
    BY <2>2
<1>7. ControlDay(cell, interval, positives) = CHOOSE d \in free : \A e \in free : Offset(d) <= Offset(e)
  BY DEF ControlDay, free, Offset, length, first
<1> QED
  BY <1>6, <1>7 DEF free

LEMMA ControlsRight ==
  ASSUME NEW interval \in Int \X Int, NEW positives, interval[1] <= interval[2],
         \A cell \in ToSet(Cells) : FirstDay(cell, interval) \in Int, Fits(interval, positives)
  PROVE  /\ ControlSamples(interval, positives) \in Samples
         /\ ControlSamples(interval, positives) \cap positives = {}
         /\ DaysWithin(interval, ControlSamples(interval, positives))
         /\ Cardinality(ControlSamples(interval, positives)) = ControlsOf(positives)
<1> DEFINE size == ControlsOf(positives)
           Sampled(n) == [cell |-> Cells[n], day |-> ControlDay(Cells[n], interval, positives)]
           controls == ControlSamples(interval, positives)
<1>1. IsFiniteSet(positives)
  BY TrainingAssumption, FS_Subset DEF Fits
<1>2. size \in Nat /\ size <= Len(Cells)
  BY <1>1, TrainingAssumption, FS_CardinalityType DEF ControlsOf, Fits
<1>3. \A n \in 1..size : Cells[n] \in ToSet(Cells) /\ n \in DOMAIN Cells
  BY <1>2, TrainingAssumption DEF ToSet
<1>4. controls = {Sampled(n) : n \in 1..size}
  BY DEF ControlSamples
<1>5. \A n \in 1..size : ControlDay(Cells[n], interval, positives) \in FreeDays(Cells[n], interval, positives)
  BY <1>3, ControlDayFree DEF Fits, SearchEnds
<1> HIDE DEF size, controls
<1>6. \A n \in 1..size : /\ Sampled(n) \in [cell : ToSet(Cells), day : Int]
                         /\ Sampled(n) \notin positives
                         /\ Sampled(n).day \in interval[1]..interval[2]
  BY <1>3, <1>5 DEF FreeDays
<1>7. controls \in Samples /\ controls \cap positives = {} /\ DaysWithin(interval, controls)
  BY <1>4, <1>6 DEF Samples, DaysWithin
<1>8. Cardinality(controls) = size
  <2> DEFINE f == [n \in 1..size |-> Sampled(n)]
  <2>1. \A m, n \in 1..size : Sampled(m) = Sampled(n) => m = n
    BY <1>3, TrainingAssumption
  <2> HIDE DEF Sampled
  <2>2. f \in Bijection(1..size, controls)
    <3>1. f \in [1..size -> controls]
      BY <1>4
    <3>2. \A m, n \in 1..size : f[m] = f[n] => m = n
      BY <2>1
    <3>3. \A s \in controls : \E n \in 1..size : f[n] = s
      BY <1>4
    <3> HIDE DEF f
    <3> QED
      BY <3>1, <3>2, <3>3 DEF Bijection, Injection, Surjection, IsInjective
  <2>3. IsFiniteSet(1..size) /\ Cardinality(1..size) = size
    BY <1>2, FS_Interval
  <2> QED
    BY <2>2, <2>3, FS_Bijection DEF ExistsBijection
<1> QED
  BY <1>7, <1>8 DEF size, controls

LEMMA GivenIntervals ==
  ASSUME NEW given \in Intervals, Valid(given)
  PROVE  /\ given.train \in Int \X Int /\ given.validation \in Int \X Int
         /\ given.train[1] <= given.train[2] /\ given.validation[1] <= given.validation[2]
         /\ given.train[2] < given.validation[1]
         /\ \A cell \in ToSet(Cells) :
              FirstDay(cell, given.train) \in Int /\ FirstDay(cell, given.validation) \in Int
BY TrainingAssumption DEF Valid

\* What holds of a stored version.
LEMMA MadeSound ==
  ASSUME NEW model, Made(model)
  PROVE  /\ model \in StoredModels
         /\ \A f \in model.train \cup model.controls,
               v \in model.validation \cup model.validationControls : f.day < v.day
         /\ model.controls \cap model.train = {}
         /\ model.validationControls \cap model.validation = {}
         /\ Cardinality(model.controls) = ControlsOf(model.train)
<1>1. model.given \in Intervals /\ Valid(model.given)
  BY DEF Made
<1>2. /\ model.controls = ControlSamples(model.given.train, model.train)
      /\ model.validationControls = ControlSamples(model.given.validation, model.validation)
  BY DEF Made
<1>3. /\ model.controls \in Samples /\ model.controls \cap model.train = {}
      /\ DaysWithin(model.given.train, model.controls)
      /\ Cardinality(model.controls) = ControlsOf(model.train)
  BY <1>1, <1>2, GivenIntervals, ControlsRight DEF Made
<1>4. /\ model.validationControls \in Samples
      /\ model.validationControls \cap model.validation = {}
      /\ DaysWithin(model.given.validation, model.validationControls)
  BY <1>1, <1>2, GivenIntervals, ControlsRight DEF Made
<1>5. /\ model.train \in SUBSET PastFires /\ model.validation \in SUBSET PastFires
      /\ DaysWithin(model.given.train, model.train)
      /\ DaysWithin(model.given.validation, model.validation)
  BY DEF Made, Fits, DaysWithin
<1>6. model \in StoredModels
  BY <1>1, <1>3, <1>4, <1>5 DEF Made, StoredModels
<1>7. ASSUME NEW f \in model.train \cup model.controls,
             NEW v \in model.validation \cup model.validationControls
      PROVE  f.day < v.day
  <2>1. f.day \in model.given.train[1]..model.given.train[2]
    BY <1>3, <1>5 DEF DaysWithin
  <2>2. v.day \in model.given.validation[1]..model.given.validation[2]
    BY <1>4, <1>5 DEF DaysWithin
  <2>3. /\ model.given.train \in Int \X Int /\ model.given.validation \in Int \X Int
        /\ model.given.train[2] < model.given.validation[1]
    BY <1>1, GivenIntervals
  <2> QED
    BY <2>1, <2>2, <2>3
<1> QED
  BY <1>3, <1>4, <1>6, <1>7

-----------------------------------------------------------------------------

LEMMA ActiveMax ==
  ASSUME HumanInv, ActiveModels # {}
  PROVE  Max(ActiveModels) \in Int
<1>1. models # <<>>
  BY DEF ActiveModels
<1>2. ActiveModels = {Len(models)} /\ Len(models) \in Nat
  BY <1>1 DEF HumanInv, HumanTypes
<1>3. Max(ActiveModels) = Len(models)
  BY <1>2 DEF Max
<1> QED
  BY <1>2, <1>3

LEMMA HumanInit == StudyInit => HumanInv
<1> SUFFICES ASSUME StudyInit PROVE HumanInv
  OBVIOUS
<1>1. /\ humanFires = {} /\ trainer = [t \in Trainers |-> NotTraining]
      /\ models \in {<<>>, <<Trained>>}
  BY DEF StudyInit
<1>2. Made(Trained) /\ Trained.active /\ Trained \in StoredModels
  BY TrainingAssumption, MadeSound
<1>3. HumanTypes
  <2>1. NotTraining \in Trainings
    BY DEF NotTraining, Trainings
  <2>2. <<>> \in Seq(StoredModels)
    OBVIOUS
  <2>3. <<Trained>> \in Seq(StoredModels)
    BY <1>2
  <2> QED
    BY <1>1, <2>1, <2>2, <2>3 DEF HumanTypes
<1>4. \A t \in Trainers : TrainerSound(t)
  BY <1>1 DEF TrainerSound, NotTraining
<1>5. CASE models = <<>>
  BY <1>3, <1>4, <1>5 DEF HumanInv
<1>6. CASE models = <<Trained>>
  <2>1. DOMAIN models = {1} /\ Len(models) = 1 /\ models[1] = Trained
    BY <1>6
  <2>2. ActiveModels = {Len(models)}
    BY <1>2, <2>1 DEF ActiveModels
  <2> QED
    BY <1>2, <1>3, <1>4, <2>1, <2>2 DEF HumanInv
<1> QED
  BY <1>1, <1>5, <1>6

\* A step of one training: the others and the versions are as they were.
LEMMA TrainerChange ==
  ASSUME HumanInv, NEW t \in Trainers, UNCHANGED <<humanFires, models>>,
         NEW training \in Trainings, trainer' = [trainer EXCEPT ![t] = training],
         TrainerSound(t)'
  PROVE  HumanInv'
<1>1. trainer' \in [Trainers -> Trainings]
  BY DEF HumanInv, HumanTypes
<1>2. ASSUME NEW u \in Trainers, u # t PROVE TrainerSound(u)'
  <2>1. trainer'[u] = trainer[u]
    BY <1>2 DEF HumanInv, HumanTypes
  <2> QED
    BY <2>1 DEF HumanInv, TrainerSound, AllSearchesEnd
<1> QED
  BY <1>1, <1>2 DEF HumanInv, HumanTypes, ActiveModels

LEMMA Stopped ==
  ASSUME HumanInv, NEW t \in Trainers, UNCHANGED <<humanFires, models>>,
         trainer' = [trainer EXCEPT ![t] = NotTraining]
  PROVE  HumanInv'
<1>1. NotTraining \in Trainings
  BY DEF NotTraining, Trainings
<1>2. trainer'[t] = NotTraining
  BY DEF HumanInv, HumanTypes
<1>3. TrainerSound(t)'
  BY <1>2 DEF TrainerSound, NotTraining
<1> QED
  BY <1>1, <1>3, TrainerChange

LEMMA FiresWithin ==
  ASSUME HumanInv, NEW interval
  PROVE  FiresIn(interval) \in SUBSET PastFires /\ DaysWithin(interval, FiresIn(interval))
BY DEF HumanInv, HumanTypes, FiresIn, DaysWithin

LEMMA BeginTrainingKeeps ==
  ASSUME HumanInv, NEW t \in Trainers, NEW given \in Intervals, BeginTraining(t, given)
  PROVE  HumanInv'
<1> DEFINE training ==
      [NotTraining EXCEPT !.step = "validation", !.given = given, !.train = FiresIn(given.train)]
<1>1. Valid(given) /\ trainer' = [trainer EXCEPT ![t] = training] /\ UNCHANGED <<humanFires, models>>
  BY DEF BeginTraining
<1>2. /\ training.step = "validation" /\ training.given = given
      /\ training.train = FiresIn(given.train) /\ training \in Trainings
  BY FiresWithin DEF NotTraining, Trainings
<1> HIDE DEF training
<1>3. trainer'[t] = training
  BY <1>1 DEF HumanInv, HumanTypes
<1>4. TrainerSound(t)'
  BY <1>1, <1>2, <1>3, FiresWithin DEF TrainerSound
<1> QED
  BY <1>1, <1>2, <1>4, TrainerChange

LEMMA ReadValidationKeeps ==
  ASSUME HumanInv, NEW t \in Trainers, ReadValidation(t)
  PROVE  HumanInv'
<1> DEFINE validation == FiresIn(trainer[t].given.validation)
           training == [trainer[t] EXCEPT !.step = "controls", !.validation = validation]
<1>1. /\ trainer[t].step = "validation" /\ UNCHANGED <<humanFires, models>>
      /\ \/ trainer' = [trainer EXCEPT ![t] = NotTraining]
         \/ /\ trainer' = [trainer EXCEPT ![t] = training]
            /\ Enough(trainer[t].train) /\ Enough(validation)
  BY DEF ReadValidation, Enough
<1>2. CASE trainer' = [trainer EXCEPT ![t] = NotTraining]
  BY <1>1, <1>2, Stopped
<1>3. CASE /\ trainer' = [trainer EXCEPT ![t] = training]
           /\ Enough(trainer[t].train) /\ Enough(validation)
  <2>1. trainer[t] \in Trainings
    BY DEF HumanInv, HumanTypes
  <2>2. /\ training.step = "controls" /\ training.given = trainer[t].given
        /\ training.train = trainer[t].train /\ training.validation = validation
        /\ training \in Trainings
    BY <2>1, FiresWithin DEF Trainings
  <2>3. DaysWithin(trainer[t].given.validation, validation)
    BY FiresWithin
  <2> HIDE DEF training, validation
  <2>4. trainer'[t] = training
    BY <1>3 DEF HumanInv, HumanTypes
  <2>5. TrainerSound(t)'
    BY <1>1, <1>3, <2>2, <2>3, <2>4 DEF HumanInv, TrainerSound
  <2> QED
    BY <1>1, <1>3, <2>2, <2>5, TrainerChange
<1> QED
  BY <1>1, <1>2, <1>3

LEMMA TrainKeeps ==
  ASSUME HumanInv, NEW t \in Trainers, NEW accepted \in BOOLEAN, Train(t, accepted)
  PROVE  HumanInv'
<1> DEFINE training == [trainer[t] EXCEPT !.step = "deactivate"]
<1>1. /\ trainer[t].step = "controls" /\ AllSearchesEnd(t) /\ UNCHANGED <<humanFires, models>>
      /\ \/ trainer' = [trainer EXCEPT ![t] = NotTraining]
         \/ trainer' = [trainer EXCEPT ![t] = training]
  BY DEF Train
<1>2. CASE trainer' = [trainer EXCEPT ![t] = NotTraining]
  BY <1>1, <1>2, Stopped
<1>3. CASE trainer' = [trainer EXCEPT ![t] = training]
  <2>1. trainer[t] \in Trainings
    BY DEF HumanInv, HumanTypes
  <2>2. /\ training.step = "deactivate" /\ training.given = trainer[t].given
        /\ training.train = trainer[t].train /\ training.validation = trainer[t].validation
        /\ training \in Trainings
    BY <2>1 DEF Trainings
  <2> HIDE DEF training
  <2>3. trainer'[t] = training
    BY <1>3 DEF HumanInv, HumanTypes
  <2>4. TrainerSound(t)'
    BY <1>1, <2>2, <2>3 DEF HumanInv, TrainerSound, AllSearchesEnd
  <2> QED
    BY <1>1, <1>3, <2>2, <2>4, TrainerChange
<1> QED
  BY <1>1, <1>2, <1>3

LEMMA DeactivateKeeps ==
  ASSUME HumanInv, NEW t \in Trainers, Deactivate(t)
  PROVE  HumanInv'
<1> DEFINE training == [trainer[t] EXCEPT !.step = "insert", !.seen = ActiveModels]
<1>1. /\ trainer[t].step = "deactivate" /\ UNCHANGED <<humanFires, models>>
      /\ trainer' = [trainer EXCEPT ![t] = training]
  BY DEF Deactivate, HumanInv, HumanTypes, Trainings
<1>2. trainer[t] \in Trainings /\ ActiveModels \in SUBSET Nat
  BY DEF HumanInv, HumanTypes, ActiveModels
<1>3. /\ training.step = "insert" /\ training.given = trainer[t].given
      /\ training.train = trainer[t].train /\ training.validation = trainer[t].validation
      /\ training \in Trainings
  BY <1>2 DEF Trainings
<1> HIDE DEF training
<1>4. trainer'[t] = training
  BY <1>1 DEF HumanInv, HumanTypes
<1>5. TrainerSound(t)'
  BY <1>1, <1>3, <1>4 DEF HumanInv, TrainerSound, AllSearchesEnd
<1> QED
  BY <1>1, <1>3, <1>5, TrainerChange

\* Only whether it is active changes of a version.
LEMMA MadeInactive ==
  ASSUME NEW model, Made(model)
  PROVE  Made([model EXCEPT !.active = FALSE]) /\ ~[model EXCEPT !.active = FALSE].active
<1> DEFINE m == [model EXCEPT !.active = FALSE]
<1>1. model \in StoredModels
  BY MadeSound
<1>2. /\ m.given = model.given /\ m.train = model.train /\ m.validation = model.validation
      /\ m.controls = model.controls /\ m.validationControls = model.validationControls
      /\ m.active = FALSE /\ m \in StoredModels
  BY <1>1 DEF StoredModels
<1> HIDE DEF m
<1>3. m = [given |-> m.given, train |-> m.train, validation |-> m.validation, controls |-> m.controls,
           validationControls |-> m.validationControls, active |-> m.active]
  BY <1>2 DEF StoredModels
<1>4. /\ m.controls = ControlSamples(m.given.train, m.train)
      /\ m.validationControls = ControlSamples(m.given.validation, m.validation)
  BY <1>2 DEF Made
<1>5. Made(m)
  BY <1>2, <1>3, <1>4 DEF Made
<1> QED
  BY <1>2, <1>5 DEF m

LEMMA VersionMade ==
  ASSUME HumanInv, NEW t \in Trainers, trainer[t].step = "insert"
  PROVE  Made(Version(t)) /\ Version(t).active
<1> DEFINE m == Version(t)
<1>1. /\ trainer[t] \in Trainings /\ TrainerSound(t)
  BY DEF HumanInv, HumanTypes
<1>2. /\ m.given = trainer[t].given /\ m.train = trainer[t].train
      /\ m.validation = trainer[t].validation /\ m.active
      /\ m = [given |-> m.given, train |-> m.train, validation |-> m.validation,
              controls |-> ControlSamples(m.given.train, m.train),
              validationControls |-> ControlSamples(m.given.validation, m.validation),
              active |-> m.active]
  BY DEF Version
<1> HIDE DEF m
<1>3. Fits(m.given.train, m.train) /\ Fits(m.given.validation, m.validation)
  BY <1>1, <1>2 DEF TrainerSound, Fits, Enough, DaysWithin, AllSearchesEnd, Trainings
<1>4. m.given \in Intervals /\ Valid(m.given) /\ m.active \in BOOLEAN
  BY <1>1, <1>2 DEF TrainerSound
<1>5. Made(m)
  BY <1>2, <1>3, <1>4 DEF Made
<1> QED
  BY <1>2, <1>5 DEF m

LEMMA ActivateKeeps ==
  ASSUME HumanInv, NEW t \in Trainers, Activate(t)
  PROVE  HumanInv'
<1>1. /\ trainer[t].step = "insert" /\ UNCHANGED humanFires
      /\ trainer' = [trainer EXCEPT ![t] = NotTraining]
      /\ models' = ModelsActivated(t)
  BY DEF Activate
<1>2. CASE ~(ActiveModels \subseteq trainer[t].seen)
  BY <1>1, <1>2, Stopped DEF ModelsActivated
<1>3. CASE ActiveModels \subseteq trainer[t].seen
  <2> DEFINE kept == [n \in DOMAIN models |->
                        IF n \in trainer[t].seen THEN [models[n] EXCEPT !.active = FALSE] ELSE models[n]]
             size == Len(models)
  <2>1. size \in Nat /\ DOMAIN models = 1..size /\ \A n \in 1..size : Made(models[n])
    BY DEF HumanInv, HumanTypes
  <2>2. ASSUME NEW n \in 1..size PROVE Made(kept[n]) /\ ~kept[n].active
    <3>1. CASE n \in trainer[t].seen
      BY <2>1, <3>1, MadeInactive
    <3>2. CASE n \notin trainer[t].seen
      <4>1. n \notin ActiveModels
        BY <1>3, <3>2
      <4> QED
        BY <2>1, <3>2, <4>1 DEF ActiveModels
    <3> QED
      BY <3>1, <3>2
  <2>3. DOMAIN kept = 1..size /\ \A n \in 1..size : kept[n] \in StoredModels
    BY <2>1, <2>2, MadeSound
  <2>4. kept \in Seq(StoredModels) /\ Len(kept) = size
    <3>1. kept = [n \in 1..size |-> kept[n]]
      BY <2>1
    <3> HIDE DEF kept, size
    <3>2. kept \in [1..size -> StoredModels]
      BY <2>3, <3>1
    <3> QED
      BY <2>1, <3>2
  <2>5. Made(Version(t)) /\ Version(t).active /\ Version(t) \in StoredModels
    BY <1>1, VersionMade, MadeSound
  <2>6. models' = Append(kept, Version(t))
    BY <1>1, <1>3 DEF ModelsActivated, ModelsActivatedAlways
  <2> HIDE DEF kept, size
  <2>7. /\ models' \in Seq(StoredModels) /\ Len(models') = size + 1
        /\ DOMAIN models' = 1..(size + 1)
        /\ \A n \in 1..size : models'[n] = kept[n]
        /\ models'[size + 1] = Version(t)
    BY <2>1, <2>3, <2>4, <2>5, <2>6
  <2>8. \A n \in DOMAIN models' : Made(models'[n]) /\ (models'[n].active <=> n = size + 1)
    BY <2>1, <2>2, <2>5, <2>7
  <2>9. ActiveModels' = {Len(models')}
    BY <2>1, <2>7, <2>8 DEF ActiveModels
  <2>10. NotTraining \in Trainings
    BY DEF NotTraining, Trainings
  <2>11. HumanTypes'
    BY <1>1, <2>7, <2>10 DEF HumanInv, HumanTypes
  <2>12. ASSUME NEW u \in Trainers PROVE TrainerSound(u)'
    <3>1. trainer'[u] = NotTraining \/ trainer'[u] = trainer[u]
      BY <1>1 DEF HumanInv, HumanTypes
    <3> QED
      BY <3>1 DEF HumanInv, TrainerSound, AllSearchesEnd, NotTraining
  <2> QED
    BY <2>8, <2>9, <2>11, <2>12 DEF HumanInv
<1> QED
  BY <1>2, <1>3

LEMMA HumanKept ==
  ASSUME HumanInv, UNCHANGED human
  PROVE  HumanInv'
BY DEF HumanInv, human, HumanTypes, TrainerSound, AllSearchesEnd, ActiveModels

LEMMA HumanKeeps ==
  ASSUME HumanInv, HumanNext
  PROVE  HumanInv'
<1>1. ASSUME NEW f \in PastFires, ImportPastFire(f) PROVE HumanInv'
  BY <1>1 DEF ImportPastFire, HumanInv, HumanTypes, TrainerSound, AllSearchesEnd, ActiveModels
<1>2. ASSUME NEW t \in Trainers, TrainingStops(t) PROVE HumanInv'
  BY <1>2, Stopped DEF TrainingStops
<1> QED
  BY <1>1, <1>2, BeginTrainingKeeps, ReadValidationKeeps, TrainKeeps, DeactivateKeeps, ActivateKeeps
  DEF HumanNext

-----------------------------------------------------------------------------
(* Replay of past days.                                                    *)

FiresOfDay(date) == {n \in Evaluated : Past[n].day = date}
FiresBefore(date) == {n \in Evaluated : Past[n].day < date}

\* Before the first day the history is empty, although days before the
\* warm-up may have fires; the first day takes them in.
HistoryKept ==
  /\ replay.cursor \in 1..(Len(Past) + 1)
  /\ replay.history = 1..(replay.cursor - 1)
  /\ replay.kernels = replay.cursor - 1
  /\ replay.date = Period.warm => replay.cursor = 1
  /\ replay.date > Period.warm =>
       \A n \in DOMAIN Past : n < replay.cursor <=> Past[n].day < replay.date - 1

FiresCounted ==
  /\ replay.hits5 <= replay.hits10
  /\ replay.missed \subseteq FiresBefore(replay.date)
  /\ replay.hits10 + Cardinality(replay.missed) = Cardinality(FiresBefore(replay.date))

ReplayTypes ==
  /\ replay \in [date : Int, cursor : Nat, history : SUBSET Nat, kernels : Nat, hits5 : Nat, hits10 : Nat,
                 missed : SUBSET Nat]
  /\ replay.date >= Period.warm

ReplayInv == ReplayTypes /\ HistoryKept /\ FiresCounted

LEMMA PeriodDays == Period.warm \in Int /\ Period.from \in Int /\ Period.to \in Int /\ Period.warm <= Period.from
BY ReplayAssumption

LEMMA PastFacts ==
  /\ Len(Past) \in Nat /\ DOMAIN Past = 1..Len(Past)
  /\ \A n \in DOMAIN Past : Past[n].day \in Int /\ Past[n].cell \in ToSet(Cells)
<1> DEFINE pastFires == [cell : ToSet(Cells), day : Int]
<1>1. Past \in Seq(pastFires)
  BY ReplayAssumption
<1>2. \A f \in pastFires : f.day \in Int /\ f.cell \in ToSet(Cells)
  OBVIOUS
<1> HIDE DEF pastFires
<1>3. Len(Past) \in Nat /\ DOMAIN Past = 1..Len(Past) /\ \A n \in DOMAIN Past : Past[n] \in pastFires
  BY <1>1
<1> QED
  BY <1>2, <1>3

LEMMA EvaluatedFinite ==
  /\ IsFiniteSet(Evaluated) /\ Evaluated \subseteq DOMAIN Past /\ Evaluated \subseteq Nat
  /\ \A n \in Evaluated : Past[n].day \in Period.from..Period.to
<1>1. IsFiniteSet(DOMAIN Past)
  BY PastFacts, FS_Interval
<1>2. Evaluated \subseteq DOMAIN Past /\ \A n \in Evaluated : Past[n].day \in Period.from..Period.to
  BY DEF Evaluated
<1>3. IsFiniteSet(Evaluated)
  BY ONLY <1>1, <1>2, FS_Subset
<1>4. Evaluated \subseteq Nat
  BY <1>2, PastFacts
<1> QED
  BY <1>2, <1>3, <1>4

LEMMA CursorRight ==
  ASSUME NEW cursor \in 1..(Len(Past) + 1), NEW date \in Int,
         \A n \in DOMAIN Past : n < cursor => Past[n].day < date
  PROVE  /\ CursorOf(cursor, date) \in cursor..(Len(Past) + 1)
         /\ \A n \in DOMAIN Past : n < CursorOf(cursor, date) <=> Past[n].day < date
<1> DEFINE S == {n \in cursor..(Len(Past) + 1) : n = Len(Past) + 1 \/ ~IsHistory(n, date)}
           next == CursorOf(cursor, date)
<1>1. S \subseteq Nat /\ Len(Past) + 1 \in S
  BY PastFacts
<1>2. \E x \in S : \A y \in S : x <= y
  BY <1>1, LeastNumber
<1>3. next \in S /\ \A y \in S : next <= y
  BY <1>2 DEF CursorOf, Min
<1> HIDE DEF next
<1>4. next \in cursor..(Len(Past) + 1) /\ (next = Len(Past) + 1 \/ ~(Past[next].day < date))
  BY <1>3 DEF IsHistory
<1>5. ASSUME NEW n \in DOMAIN Past, n < next PROVE Past[n].day < date
  <2>1. CASE n < cursor
    BY <2>1
  <2>2. CASE n >= cursor
    <3>1. n \notin S
      BY <1>3, <1>4, <1>5, PastFacts
    <3>2. n \in cursor..(Len(Past) + 1)
      BY <2>2, PastFacts
    <3> QED
      BY <3>1, <3>2 DEF IsHistory
  <2> QED
    BY <2>1, <2>2, PastFacts
<1>6. ASSUME NEW n \in DOMAIN Past, Past[n].day < date PROVE n < next
  <2>1. SUFFICES ASSUME n >= next PROVE FALSE
    BY <1>4, PastFacts
  <2>2. next \in DOMAIN Past /\ next <= n
    BY <1>4, <2>1, PastFacts
  <2>3. Past[next].day <= Past[n].day
    BY <2>2, ReplayAssumption
  <2>4. ~(Past[next].day < date)
    BY <1>4, <2>2, PastFacts
  <2> QED
    BY <1>6, <2>2, <2>3, <2>4, PastFacts
<1>7. next \in cursor..(Len(Past) + 1) /\ \A n \in DOMAIN Past : n < next <=> Past[n].day < date
  BY <1>4, <1>5, <1>6
<1> QED
  BY <1>7 DEF next

\* Every cell has a rank.
LEMMA RankFound ==
  ASSUME NEW rank \in SetToSeqs(ToSet(Cells)) \cup {Cells}, NEW cell \in ToSet(Cells)
  PROVE  (CHOOSE k \in DOMAIN rank : rank[k] = cell) \in Nat
<1>1. DOMAIN Cells = 1..Len(Cells) /\ Len(Cells) \in Nat
  BY TrainingAssumption
<1>2. Cells \in Surjection(1..Len(Cells), ToSet(Cells))
  BY TrainingAssumption DEF Surjection, ToSet
<1>3. IsFiniteSet(ToSet(Cells)) /\ Cardinality(ToSet(Cells)) \in Nat
  BY <1>1, <1>2, FS_Interval, FS_Surjection, FS_CardinalityType
<1>4. CASE rank = Cells
  BY <1>1, <1>4 DEF ToSet
<1>5. CASE rank \in SetToSeqs(ToSet(Cells))
  <2> DEFINE size == Cardinality(ToSet(Cells))
  <2>1. rank \in Injection(1..size, ToSet(Cells)) /\ DOMAIN rank = 1..size
    BY <1>5 DEF SetToSeqs, Injection, IsInjective
  <2>2. IsFiniteSet(1..size) /\ Cardinality(1..size) = size
    BY <1>3, FS_Interval
  <2> HIDE DEF size
  <2>3. rank \in Surjection(1..size, ToSet(Cells))
    BY <1>3, <2>1, <2>2, FS_Injection DEF size
  <2>4. \E k \in 1..size : rank[k] = cell
    BY <2>3 DEF Surjection
  <2>5. \A k \in 1..size : k \in Nat
    OBVIOUS
  <2> QED
    BY <2>1, <2>4, <2>5
<1> QED
  BY <1>4, <1>5

LEMMA LimitsOrdered == Limit(5) \in Nat /\ Limit(10) \in Nat /\ Limit(5) <= Limit(10)
<1>1. Len(Cells) \in Nat
  BY TrainingAssumption
<1> QED
  BY <1>1 DEF Limit

LEMMA ReplayInit == StudyInit => ReplayInv
<1> SUFFICES ASSUME StudyInit PROVE ReplayInv
  OBVIOUS
<1>1. replay = [date |-> Period.warm, cursor |-> 1, history |-> {}, kernels |-> 0,
                hits5 |-> 0, hits10 |-> 0, missed |-> {}]
  BY DEF StudyInit
<1>2. ReplayTypes
  BY <1>1, PeriodDays DEF ReplayTypes
<1>3. HistoryKept
  BY <1>1, PeriodDays, PastFacts DEF HistoryKept
<1>4. FiresBefore(Period.warm) = {}
  BY EvaluatedFinite, PeriodDays DEF FiresBefore
<1>5. FiresCounted
  BY <1>1, <1>4, FS_EmptySet DEF FiresCounted
<1> QED
  BY <1>2, <1>3, <1>5 DEF ReplayInv

LEMMA HistoryKeeps ==
  ASSUME ReplayTypes, HistoryKept, NEW cursor, cursor = CursorOf(replay.cursor, replay.date),
         replay'.date = replay.date + 1, replay'.cursor = cursor,
         replay'.history = replay.history \cup (replay.cursor..(cursor - 1)),
         replay'.kernels = replay.kernels + cursor - replay.cursor
  PROVE  /\ HistoryKept' /\ cursor \in Nat
         /\ replay'.history \in SUBSET Nat /\ replay'.kernels \in Nat
<1> DEFINE old == replay.cursor
           date == replay.date
<1>1. /\ old \in 1..(Len(Past) + 1) /\ date \in Int /\ date >= Period.warm
      /\ replay.history = 1..(old - 1) /\ replay.kernels = old - 1
  BY DEF ReplayTypes, HistoryKept
<1>2. \A n \in DOMAIN Past : n < old => Past[n].day < date
  <2>1. CASE date = Period.warm
    BY <2>1, PastFacts DEF HistoryKept
  <2>2. CASE date > Period.warm
    BY <1>1, <2>2, PastFacts DEF HistoryKept
  <2> QED
    BY <1>1, <2>1, <2>2, PeriodDays
<1> HIDE DEF old, date
<1>3. cursor \in old..(Len(Past) + 1) /\ \A n \in DOMAIN Past : n < cursor <=> Past[n].day < date
  BY <1>1, <1>2, CursorRight DEF old, date
<1>4. cursor \in 1..(Len(Past) + 1) /\ cursor \in Nat
  BY <1>1, <1>3, PastFacts
<1>5. replay'.history = 1..(cursor - 1)
  <2>1. replay'.history = (1..(old - 1)) \cup (old..(cursor - 1))
    BY <1>1 DEF old
  <2> QED
    BY <1>1, <1>3, <2>1, PastFacts
<1>6. replay'.kernels = cursor - 1
  <2>1. replay'.kernels = (old - 1) + cursor - old
    BY <1>1 DEF old
  <2> QED
    BY <1>1, <1>4, <2>1, PastFacts
<1>7. replay'.date = date + 1
  BY DEF date
<1>8. replay'.date > Period.warm /\ replay'.date - 1 = date /\ replay'.date # Period.warm
  BY <1>1, <1>7, PeriodDays
<1>9. HistoryKept'
  BY <1>3, <1>4, <1>5, <1>6, <1>8 DEF HistoryKept
<1> QED
  BY <1>4, <1>5, <1>6, <1>9

\* The fires of a day: those within the limits, the others.
LEMMA DayCounted ==
  ASSUME NEW today \in SUBSET Evaluated, NEW ranks \in [today -> Nat]
  PROVE  LET within(percent) == {n \in today : ranks[n] <= Limit(percent)}
             over == {n \in today : ranks[n] > Limit(10)}
         IN /\ Cardinality(within(5)) \in Nat /\ Cardinality(within(10)) \in Nat
            /\ Cardinality(within(5)) <= Cardinality(within(10))
            /\ IsFiniteSet(over)
            /\ Cardinality(within(10)) + Cardinality(over) = Cardinality(today)
<1> DEFINE five == {n \in today : ranks[n] <= Limit(5)}
           ten == {n \in today : ranks[n] <= Limit(10)}
           over == {n \in today : ranks[n] > Limit(10)}
<1>1. IsFiniteSet(today)
  BY EvaluatedFinite, FS_Subset
<1>2. five \subseteq ten
  BY LimitsOrdered
<1>3. ten \subseteq today /\ over = today \ ten /\ today \cap ten = ten
  BY LimitsOrdered
<1> HIDE DEF five, ten, over
<1>4. IsFiniteSet(ten) /\ Cardinality(ten) \in Nat /\ Cardinality(today) \in Nat
  BY <1>1, <1>3, FS_Subset, FS_CardinalityType
<1>5. IsFiniteSet(five) /\ Cardinality(five) \in Nat /\ Cardinality(five) <= Cardinality(ten)
  BY <1>2, <1>4, FS_Subset, FS_CardinalityType
<1>6. IsFiniteSet(over) /\ Cardinality(over) = Cardinality(today) - Cardinality(ten)
  <2>1. /\ IsFiniteSet(today \ ten)
        /\ Cardinality(today \ ten) = Cardinality(today) - Cardinality(today \cap ten)
    BY <1>1, FS_Difference
  <2> QED
    BY <1>3, <2>1
<1>7. Cardinality(ten) + Cardinality(over) = Cardinality(today)
  BY <1>4, <1>6
<1> QED
  BY <1>4, <1>5, <1>6, <1>7 DEF five, ten, over

LEMMA DaysSplit ==
  ASSUME NEW date \in Int
  PROVE  /\ FiresBefore(date + 1) = FiresBefore(date) \cup FiresOfDay(date)
         /\ FiresBefore(date) \cap FiresOfDay(date) = {}
         /\ FiresBefore(date) \subseteq Evaluated /\ FiresOfDay(date) \subseteq Evaluated
         /\ Cardinality(FiresBefore(date)) \in Nat /\ Cardinality(FiresOfDay(date)) \in Nat
         /\ Cardinality(FiresBefore(date + 1)) =
              Cardinality(FiresBefore(date)) + Cardinality(FiresOfDay(date))
<1>1. \A n \in Evaluated : Past[n].day \in Int
  BY EvaluatedFinite, PastFacts
<1>2. /\ FiresBefore(date + 1) = FiresBefore(date) \cup FiresOfDay(date)
      /\ FiresBefore(date) \cap FiresOfDay(date) = {}
      /\ FiresBefore(date) \subseteq Evaluated /\ FiresOfDay(date) \subseteq Evaluated
  BY <1>1 DEF FiresBefore, FiresOfDay
<1>3. IsFiniteSet(FiresBefore(date)) /\ IsFiniteSet(FiresOfDay(date))
  BY <1>2, EvaluatedFinite, FS_Subset
<1>4. Cardinality(FiresBefore(date)) \in Nat /\ Cardinality(FiresOfDay(date)) \in Nat
  BY <1>3, FS_CardinalityType
<1>5. Cardinality(FiresBefore(date) \cup FiresOfDay(date)) =
        Cardinality(FiresBefore(date)) + Cardinality(FiresOfDay(date)) - 0
  BY <1>2, <1>3, FS_Union, FS_EmptySet
<1>6. Cardinality(FiresBefore(date + 1)) = Cardinality(FiresBefore(date)) + Cardinality(FiresOfDay(date))
  <2> DEFINE before == Cardinality(FiresBefore(date))
             today == Cardinality(FiresOfDay(date))
             both == Cardinality(FiresBefore(date) \cup FiresOfDay(date))
  <2>1. Cardinality(FiresBefore(date + 1)) = both
    BY <1>2
  <2>2. before \in Nat /\ today \in Nat /\ both = before + today - 0
    BY <1>4, <1>5
  <2> HIDE DEF before, today, both
  <2>3. both = before + today
    BY <2>2
  <2> QED
    BY <2>1, <2>3 DEF before, today
<1> QED
  BY <1>2, <1>4, <1>6

LEMMA CountsKeep ==
  ASSUME ReplayTypes, FiresCounted,
         NEW rank \in SetToSeqs(ToSet(Cells)) \cup {Cells}, ReplayDay(rank)
  PROVE  /\ FiresCounted' /\ replay'.hits5 \in Nat /\ replay'.hits10 \in Nat
         /\ replay'.missed \in SUBSET Nat
<1> DEFINE date == replay.date
           today == FiresOfDay(date)
           RankOf(n) == CHOOSE k \in DOMAIN rank : rank[k] = Past[n].cell
           five == {n \in today : RankOf(n) <= Limit(5)}
           ten == {n \in today : RankOf(n) <= Limit(10)}
           over == {n \in today : RankOf(n) > Limit(10)}
<1>1. /\ replay'.date = date + 1
      /\ replay'.hits5 = replay.hits5 + Cardinality(five)
      /\ replay'.hits10 = replay.hits10 + Cardinality(ten)
      /\ replay'.missed = replay.missed \cup over
  BY DEF ReplayDay, FiresOfDay
<1>2. date \in Int /\ replay.hits5 \in Nat /\ replay.hits10 \in Nat
  BY DEF ReplayTypes
<1>3. today \in SUBSET Evaluated
  BY DEF FiresOfDay
<1>4. \A n \in today : RankOf(n) \in Nat
  BY <1>3, EvaluatedFinite, PastFacts, RankFound
<1>5. /\ Cardinality(five) \in Nat /\ Cardinality(ten) \in Nat /\ Cardinality(five) <= Cardinality(ten)
      /\ IsFiniteSet(over) /\ Cardinality(ten) + Cardinality(over) = Cardinality(today)
  <2> DEFINE ranks == [n \in today |-> RankOf(n)]
  <2> HIDE DEF RankOf, today
  <2>1. ranks \in [today -> Nat]
    BY <1>4
  <2>2. /\ five = {n \in today : ranks[n] <= Limit(5)}
        /\ ten = {n \in today : ranks[n] <= Limit(10)}
        /\ over = {n \in today : ranks[n] > Limit(10)}
    OBVIOUS
  <2> HIDE DEF ranks, five, ten, over
  <2> QED
    BY <1>3, <2>1, <2>2, DayCounted
<1>6. over \subseteq today
  OBVIOUS
<1> HIDE DEF RankOf, five, ten, over, today, date
<1>7. /\ replay.hits5 <= replay.hits10 /\ replay.missed \subseteq FiresBefore(date)
      /\ replay.hits10 + Cardinality(replay.missed) = Cardinality(FiresBefore(date))
  BY DEF FiresCounted, date
<1>8. /\ FiresBefore(date + 1) = FiresBefore(date) \cup today
      /\ FiresBefore(date) \cap today = {} /\ FiresBefore(date) \subseteq Evaluated
      /\ Cardinality(FiresBefore(date)) \in Nat /\ Cardinality(today) \in Nat
      /\ Cardinality(FiresBefore(date + 1)) = Cardinality(FiresBefore(date)) + Cardinality(today)
  BY <1>2, DaysSplit DEF today
<1>9. IsFiniteSet(replay.missed) /\ replay.missed \cap over = {}
  BY <1>6, <1>7, <1>8, EvaluatedFinite, FS_Subset
<1>10. Cardinality(replay.missed) \in Nat /\ Cardinality(over) \in Nat
  BY <1>5, <1>9, FS_CardinalityType
<1>11. Cardinality(replay.missed \cup over) = Cardinality(replay.missed) + Cardinality(over)
  <2>1. Cardinality(replay.missed \cup over) = Cardinality(replay.missed) + Cardinality(over) - 0
    BY <1>5, <1>9, FS_Union, FS_EmptySet
  <2> QED
    BY <1>10, <2>1
<1>12. replay'.hits10 + Cardinality(replay'.missed) = Cardinality(FiresBefore(date + 1))
  BY <1>1, <1>2, <1>5, <1>7, <1>8, <1>10, <1>11
<1>13. replay'.missed \subseteq FiresBefore(replay'.date)
  BY <1>1, <1>6, <1>7, <1>8
<1>14. FiresCounted'
  BY <1>1, <1>2, <1>5, <1>7, <1>12, <1>13 DEF FiresCounted, FiresBefore
<1>15. replay'.missed \in SUBSET Nat
  BY <1>1, <1>3, <1>6, <1>7, <1>8, EvaluatedFinite
<1> QED
  BY <1>1, <1>2, <1>5, <1>14, <1>15

LEMMA ReplayKeeps ==
  ASSUME ReplayInv, ReplayNext
  PROVE  ReplayInv'
<1>1. PICK rank \in SetToSeqs(ToSet(Cells)) \cup {Cells} : ReplayDay(rank)
  BY DEF ReplayNext
<1> DEFINE cursor == CursorOf(replay.cursor, replay.date)
<1>2. /\ replay' = [date |-> replay'.date, cursor |-> replay'.cursor, history |-> replay'.history,
                    kernels |-> replay'.kernels, hits5 |-> replay'.hits5, hits10 |-> replay'.hits10,
                    missed |-> replay'.missed]
      /\ replay'.date = replay.date + 1 /\ replay'.cursor = cursor
      /\ replay'.history = replay.history \cup (replay.cursor..(cursor - 1))
      /\ replay'.kernels = replay.kernels + cursor - replay.cursor
  BY <1>1 DEF ReplayDay
<1> HIDE DEF cursor
<1>3. /\ HistoryKept' /\ cursor \in Nat /\ replay'.history \in SUBSET Nat /\ replay'.kernels \in Nat
  BY <1>2, HistoryKeeps DEF ReplayInv, cursor
<1>4. /\ FiresCounted' /\ replay'.hits5 \in Nat /\ replay'.hits10 \in Nat /\ replay'.missed \in SUBSET Nat
  BY <1>1, CountsKeep DEF ReplayInv
<1>5. replay'.date \in Int /\ replay'.date >= Period.warm
  BY <1>2, PeriodDays DEF ReplayInv, ReplayTypes
<1>6. ReplayTypes'
  BY <1>2, <1>3, <1>4, <1>5 DEF ReplayTypes
<1> QED
  BY <1>3, <1>4, <1>6 DEF ReplayInv

LEMMA ReplayKept ==
  ASSUME ReplayInv, UNCHANGED replay
  PROVE  ReplayInv'
BY DEF ReplayInv, ReplayTypes, HistoryKept, FiresCounted, FiresBefore

-----------------------------------------------------------------------------

StudyInv == DataInv /\ HumanInv /\ ReplayInv

LEMMA StudyInvariant == StudySpec => []StudyInv
<1>1. StudyInit => StudyInv
  BY DataInit, HumanInit, ReplayInit DEF StudyInv
<1>2. StudyInv /\ [StudyNext]_studies => StudyInv'
  <2> SUFFICES ASSUME StudyInv, [StudyNext]_studies PROVE StudyInv'
    OBVIOUS
  <2>1. CASE DataNext /\ UNCHANGED <<human, replay>>
    <3>1. ActiveModels # {} => Max(ActiveModels) \in Int
      BY ActiveMax DEF StudyInv
    <3>2. DataInv'
      BY <2>1, <3>1, BuildKeeps, StudyKeeps, ComparisonKeeps DEF StudyInv, DataNext
    <3> QED
      BY <2>1, <3>2, HumanKept, ReplayKept DEF StudyInv
  <2>2. CASE HumanNext /\ UNCHANGED <<data, replay>>
    BY <2>2, HumanKeeps, DataKept, ReplayKept DEF StudyInv
  <2>3. CASE ReplayNext /\ UNCHANGED <<data, human>>
    BY <2>3, ReplayKeeps, DataKept, HumanKept DEF StudyInv
  <2>4. CASE UNCHANGED <<data, human, replay>>
    BY <2>4, DataKept, HumanKept, ReplayKept DEF StudyInv
  <2> QED
    BY <2>1, <2>2, <2>3, <2>4 DEF StudyNext, studies
<1> QED
  BY <1>1, <1>2, PTL DEF StudySpec

(* Whatever the rows, the commands and the fires, their number and their   *)
(* order: no measure scores rows of the years its model was fitted on, no  *)
(* model is validated on days of its training, and a replayed day knows    *)
(* all the fires before it and no other (model_experiments.rs,             *)
(* human_model.rs, backtest.rs).                                           *)
THEOREM NoLeakageHolds == StudySpec => []NoLeakage
<1>1. StudyInv => NoLeakage
  <2> SUFFICES ASSUME StudyInv PROVE NoLeakage
    OBVIOUS
  <2>1. \A r \in reports : \A m \in r.measures : FreeOfLeaks(m)
    BY DEF StudyInv, DataInv, ReportSound
  <2>2. \A n \in DOMAIN models :
          \A f \in models[n].train \cup models[n].controls,
             v \in models[n].validation \cup models[n].validationControls : f.day < v.day
    BY MadeSound DEF StudyInv, HumanInv
  <2>3. /\ replay.cursor \in 1..(Len(Past) + 1) /\ replay.history = 1..(replay.cursor - 1)
        /\ replay.kernels = replay.cursor - 1
        /\ replay.date > Period.warm =>
             \A n \in DOMAIN Past : n < replay.cursor <=> Past[n].day < replay.date - 1
    BY DEF StudyInv, ReplayInv, HistoryKept
  <2>4. replay.date > Period.warm => replay.history = {n \in DOMAIN Past : Past[n].day < replay.date - 1}
    BY <2>3, PastFacts
  <2>5. replay.kernels = Cardinality(replay.history)
    <3>1. replay.cursor \in Int /\ replay.cursor >= 1
      BY <2>3, PastFacts
    <3>2. Cardinality(1..(replay.cursor - 1)) = replay.cursor - 1
      BY <3>1, FS_Interval
    <3> QED
      BY <2>3, <3>2
  <2> QED
    BY <2>1, <2>2, <2>4, <2>5 DEF NoLeakage, FreeOfLeaks
<1> QED
  BY <1>1, StudyInvariant, PTL

(* Whatever the builds, the imports and the trainings that interleave: a   *)
(* report is of the rows it says, the last activated model is the active   *)
(* one, controls are right, and each replayed fire is counted once         *)
(* (model_experiments.rs, human_model.rs, backtest.rs).                    *)
THEOREM StudiesSoundHolds == StudySpec => []StudiesSound
<1>1. StudyInv => StudiesSound
  <2> SUFFICES ASSUME StudyInv PROVE StudiesSound
    OBVIOUS
  <2>1. \A r \in reports : ReportSound(r)
    BY DEF StudyInv, DataInv
  <2>2. models # <<>> => ActiveModels = {Len(models)}
    BY DEF StudyInv, HumanInv
  <2>3. \A n \in DOMAIN models :
          /\ models[n].controls \cap models[n].train = {}
          /\ models[n].validationControls \cap models[n].validation = {}
          /\ Cardinality(models[n].controls) = ControlsOf(models[n].train)
    BY MadeSound DEF StudyInv, HumanInv
  <2>4. FiresCounted
    BY DEF StudyInv, ReplayInv
  <2> QED
    BY <2>1, <2>2, <2>3, <2>4 DEF StudiesSound, ReportSound, FiresCounted, FiresBefore
<1> QED
  BY <1>1, StudyInvariant, PTL

(* Whatever rows are scored, and in whatever order, the measures agree     *)
(* with their definitions (model_experiments.rs, backtest.rs).             *)
THEOREM MetricsRightHolds == StudySpec => []MetricsRight
<1>1. StudyInit => scored \in Scored
  BY DEF StudyInit, Scored
<1>2. scored \in Scored /\ [StudyNext]_studies => (scored \in Scored)'
  <2> SUFFICES ASSUME scored \in Scored, [StudyNext]_studies PROVE scored' \in Scored
    OBVIOUS
  <2>1. CASE \E p \in 0..ScoreMax, y \in BOOLEAN : Predict(p, y)
    <3>1. PICK p \in 0..ScoreMax, y \in BOOLEAN : scored' = Append(scored, [p |-> p, y |-> y])
      BY <2>1 DEF Predict
    <3> DEFINE Rows == [p : 0..ScoreMax, y : BOOLEAN]
               row == [p |-> p, y |-> y]
    <3>2. scored \in Seq(Rows) /\ row \in Rows
      BY DEF Scored
    <3> HIDE DEF Rows, row
    <3>3. Append(scored, row) \in Seq(Rows)
      BY ONLY <3>2
    <3> QED
      BY <3>1, <3>3 DEF Scored, Rows, row
  <2>2. CASE UNCHANGED scored
    BY <2>2
  <2> QED
    BY <2>1, <2>2 DEF StudyNext, studies
<1>3. scored \in Scored => MetricsRight
  BY AucRightHolds, RankingRightHolds, CalibrationRightHolds, IsotonicRightHolds DEF MetricsRight
<1> QED
  BY <1>1, <1>2, <1>3, PTL DEF StudySpec

-----------------------------------------------------------------------------

LEMMA WorkParts == WorkSpec => Spec /\ StudySpec
<1>1. WorkInit => Init /\ StudyInit
  BY DEF WorkInit
<1>2. [WorkNext]_<<preparing, vars, studies>> => [Next]_vars /\ [StudyNext]_studies
  BY DEF WorkNext
<1> QED
  BY <1>1, <1>2, PTL DEF WorkSpec, Spec, StudySpec

(* The work on models, from the builds of its data to the replay: what is  *)
(* built can be traced to what it was built from, and what is measured was *)
(* not fitted on and is measured as defined.                               *)
THEOREM ModelWorkSound ==
  WorkSpec => /\ [](DatasetsSound /\ CandidatesTraceable /\ BundlesFaithful)
              /\ BundlesFrozen
              /\ [](NoLeakage /\ StudiesSound /\ MetricsRight)
BY WorkParts, ModelDataSound, NoLeakageHolds, StudiesSoundHolds, MetricsRightHolds, PTL

=============================================================================
