---------------------------- MODULE CrisisLabProofs ----------------------------
(***************************************************************************)
(* Proofs about the data and the shock matrix of the crisis lab, in this   *)
(* order.                                                                  *)
(*                                                                         *)
(* What reaches a replay is sound, for any datasets, publications, REST    *)
(* answers, revisions, crashes and decay of files.  The plan of a dataset  *)
(* (a recursion over days) and the contents of rows stay opaque: the       *)
(* argument only needs that a manifest tells the truth about REST when it  *)
(* is written, that what it names is written before it, and that files of  *)
(* the tree are never taken away.                                          *)
(*                                                                         *)
(* The nine shocks order as they are meant to, for any prices, costs and   *)
(* episodes: the argument is that whatever answers a shock, the strategy,  *)
(* the stop or nothing, trades or marks the position at its one price.     *)
(***************************************************************************)
EXTENDS CrisisData, ShockMatrix, TLAPS

-----------------------------------------------------------------------------
(* The data *)

AcquireSteps == {"checksum", "archive", "verify", "storeZip", "storeChecksum", "storeCsv",
                 "merge", "boundary", "datasetManifest", "eventManifest"}

AcquireFields == {"command", "retrieved", "verify", "dataset", "object", "rows", "sources",
                  "sum", "zip", "entries", "rowset", "boundary"}

(* The outer candles of a dataset are the ones of REST. *)
OuterInRest(rows) ==
    \A r \in rows :
        (\A q \in rows : r.slot <= q.slot) \/ (\A q \in rows : r.slot >= q.slot)
            => r \in Canonical(rest)

(* A dataset manifest tells the truth about REST. *)
Truthful(m) ==
    /\ m.boundary = "MATCH" => OuterInRest(m.rows)
    /\ m.evidence.status = "ALL_CONFIRMED_ABSENT" =>
           m.evidence.absent \cap {q.slot : q \in rest} = {}

(* What ValidateDataset found out about a manifest, whatever became of its   *)
(* files since.                                                              *)
Checked(m) ==
    /\ m.boundary = "MATCH" /\ \A r \in m.rows : RowPasses(m, r)
    /\ GapEvidence(m, MissingSlots(m.rows))

(* The reports of an event so far: one for each dataset, in their order.     *)
ReportsOn(e, reports) ==
    \A i \in 1 .. Len(reports) :
        /\ reports[i].input = e.datasets[i]
        /\ reports[i].pass => Checked(e.datasets[i])

AdmissionTrue(a) ==
    a.admitted =>
        /\ Len(a.event.datasets) = Len(Datasets)
        /\ \A i \in 1 .. Len(a.event.datasets) : Checked(a.event.datasets[i])

TreeInv ==
    /\ DOMAIN tree = Kinds
    /\ \A m \in tree["dataset"] :
          Truthful(m) /\ [of |-> m.of, rows |-> m.rows] \in tree["canonical"]
    /\ \A e \in tree["event"] : e.datasets \in Seq(tree["dataset"])
    /\ \A a \in tree["admission"] :
          /\ a.event \in tree["event"] /\ a.reports \in Seq(tree["quality"])
          /\ AdmissionTrue(a)

AcquireInv ==
    pc \in AcquireSteps =>
        /\ DOMAIN job = AcquireFields
        /\ job.entries \in Seq(tree["dataset"])
        /\ pc \in {"boundary", "datasetManifest"} =>
               [of |-> Pair, rows |-> job.rowset] \in tree["canonical"]
        /\ pc = "datasetManifest" /\ job.boundary = "MATCH" => OuterInRest(job.rowset)

ValidateInv ==
    pc \in {"report", "admission"} =>
        /\ DOMAIN job = {"command", "event", "reports"}
        /\ job.event \in tree["event"] /\ Len(job.event.datasets) = Len(Datasets)
        /\ job.reports \in Seq(tree["quality"]) /\ ReportsOn(job.event, job.reports)
        /\ pc = "report" => Len(job.reports) < Len(Datasets)
        /\ pc = "admission" => Len(job.reports) = Len(Datasets)

CrisisInv ==
    /\ pc \in AcquireSteps \cup {"idle", "report", "admission"}
    /\ TreeInv /\ AcquireInv /\ ValidateInv /\ LoadedIsAdmitted

LEMMA CrisisInit == Init => CrisisInv
  <1> SUFFICES ASSUME Init PROVE CrisisInv
    OBVIOUS
  <1>1. TreeInv
    BY DEF Init, TreeInv, Kinds
  <1> QED
    BY <1>1 DEF Init, CrisisInv, AcquireInv, ValidateInv, AcquireSteps, LoadedIsAdmitted

-----------------------------------------------------------------------------
(* The next dataset of the loop keeps the entries. *)
LEMMA BeginFacts ==
    ASSUME NEW j, DOMAIN j = AcquireFields, NEW n
    PROVE  /\ DOMAIN BeginDataset(j, n) = AcquireFields
           /\ BeginDataset(j, n).entries = j.entries
  BY DEF BeginDataset, AcquireFields

LEMMA NextDatasetInv ==
    ASSUME NEW j, DOMAIN j = AcquireFields, j.entries \in Seq(tree'["dataset"]), NextDataset(j)
    PROVE  AcquireInv' /\ ValidateInv' /\ pc' \in AcquireSteps
  <1>1. DOMAIN job' = AcquireFields /\ job'.entries = j.entries /\ pc' \in {"eventManifest", "checksum"}
    BY BeginFacts DEF NextDataset
  <1> QED
    BY <1>1 DEF AcquireInv, ValidateInv, AcquireSteps

(* The tree as a whole keeps its truth while nothing but harmless files are  *)
(* added.                                                                    *)
LEMMA SameTree ==
    ASSUME TreeInv, LoadedIsAdmitted, UNCHANGED <<tree, rest, loaded>>
    PROVE  TreeInv' /\ LoadedIsAdmitted'
  BY DEF TreeInv, LoadedIsAdmitted, Truthful, OuterInRest, AdmissionTrue, Checked

LEMMA FileAdded ==
    ASSUME TreeInv, LoadedIsAdmitted, UNCHANGED <<rest, loaded>>,
           NEW kind \in {"zip", "checksum", "csv", "canonical", "quality"}, NEW file,
           WriteImmutable(kind, file)
    PROVE  /\ TreeInv' /\ LoadedIsAdmitted'
           /\ tree'["dataset"] = tree["dataset"] /\ tree'["event"] = tree["event"]
           /\ \A k \in Kinds : tree[k] \subseteq tree'[k]
           /\ file \in tree'[kind]
  <1>1. /\ DOMAIN tree' = Kinds
        /\ \A k \in Kinds : tree'[k] = IF k = kind THEN tree[k] \cup {file} ELSE tree[k]
    BY DEF WriteImmutable, TreeInv, Kinds
  <1>2. /\ tree'["dataset"] = tree["dataset"] /\ tree'["event"] = tree["event"]
        /\ tree'["admission"] = tree["admission"]
        /\ \A k \in Kinds : tree[k] \subseteq tree'[k]
        /\ file \in tree'[kind]
    BY <1>1 DEF Kinds
  <1>3. tree["canonical"] \subseteq tree'["canonical"] /\ tree["quality"] \subseteq tree'["quality"]
    BY <1>2 DEF Kinds
  <1>4. Seq(tree["quality"]) \subseteq Seq(tree'["quality"])
    BY <1>3
  <1>5. \A m : Truthful(m)' <=> Truthful(m)
    BY DEF Truthful, OuterInRest
  <1>6. TreeInv'
    BY <1>1, <1>2, <1>3, <1>4, <1>5 DEF TreeInv, AdmissionTrue, Checked
  <1>7. LoadedIsAdmitted'
    BY <1>2 DEF LoadedIsAdmitted
  <1> QED
    BY <1>2, <1>6, <1>7

(* A step of the acquisition that only touches its own memory. *)
LEMMA JobMoved ==
    ASSUME CrisisInv, pc \in AcquireSteps, UNCHANGED <<tree, rest, loaded>>,
           pc' \in AcquireSteps \ {"boundary", "datasetManifest"},
           DOMAIN job' = AcquireFields, job'.entries = job.entries
    PROVE  CrisisInv'
  <1>1. TreeInv' /\ LoadedIsAdmitted'
    BY SameTree DEF CrisisInv
  <1>2. AcquireInv'
    BY DEF CrisisInv, AcquireInv
  <1>3. ValidateInv'
    BY DEF ValidateInv, AcquireSteps
  <1> QED
    BY <1>1, <1>2, <1>3 DEF CrisisInv

LEMMA DatasetFailsStep ==
    ASSUME CrisisInv, pc \in AcquireSteps, DatasetFails
    PROVE  CrisisInv'
  <1>1. UNCHANGED <<tree, rest, loaded>> /\ NextDataset(job)
    BY DEF DatasetFails
  <1>2. TreeInv' /\ LoadedIsAdmitted'
    BY <1>1, SameTree DEF CrisisInv
  <1>3. DOMAIN job = AcquireFields /\ job.entries \in Seq(tree'["dataset"])
    BY <1>1 DEF CrisisInv, AcquireInv
  <1>4. AcquireInv' /\ ValidateInv' /\ pc' \in AcquireSteps
    BY <1>1, <1>3, NextDatasetInv
  <1> QED
    BY <1>2, <1>4 DEF CrisisInv

(* A command ends or dies: what is on disk stays. *)
LEMMA IdleStep ==
    ASSUME TreeInv', LoadedIsAdmitted', pc' = "idle"
    PROVE  CrisisInv'
  BY DEF CrisisInv, AcquireInv, ValidateInv, AcquireSteps

LEMMA QuietStep ==
    ASSUME CrisisInv, UNCHANGED <<tree, rest, loaded, pc, job>>
    PROVE  CrisisInv'
  <1>1. TreeInv' /\ LoadedIsAdmitted'
    BY SameTree DEF CrisisInv
  <1>2. AcquireInv' /\ ValidateInv'
    BY DEF CrisisInv, AcquireInv, ValidateInv, OuterInRest, Pair, ReportsOn, Checked
  <1> QED
    BY <1>1, <1>2 DEF CrisisInv

(* The acquisition up to the first file it writes. *)
LEMMA FetchStep ==
    ASSUME CrisisInv,
           FetchChecksum \/ ReadCachedZip \/ FetchArchive \/ NormalizeArchive
    PROVE  CrisisInv'
  <1>0. /\ pc \in AcquireSteps /\ DOMAIN job = AcquireFields
    BY DEF FetchChecksum, ReadCachedZip, FetchArchive, NormalizeArchive, AcquireSteps,
        CrisisInv, AcquireInv
  <1>1. CASE DatasetFails
    BY <1>0, <1>1, DatasetFailsStep
  <1>2. CASE ~DatasetFails
    <2>1. /\ UNCHANGED <<tree, rest, loaded>>
          /\ pc' \in {"archive", "verify", "storeZip"}
      BY <1>2 DEF FetchChecksum, ReadCachedZip, FetchArchive, NormalizeArchive
    <2>2. DOMAIN job' = AcquireFields /\ job'.entries = job.entries
      <3>2. CASE FetchChecksum
        BY <1>0, <1>2, <3>2 DEF FetchChecksum, AcquireFields
      <3>3. CASE ReadCachedZip
        BY <1>0, <1>2, <3>3 DEF ReadCachedZip, AcquireFields
      <3>4. CASE FetchArchive
        BY <1>0, <1>2, <3>4 DEF FetchArchive, AcquireFields
      <3>5. CASE NormalizeArchive
        <4>1. PICK x, y : job' = [job EXCEPT !.rows = x, !.sources = y]
          BY <1>2, <3>5 DEF NormalizeArchive
        <4> QED
          BY <1>0, <4>1 DEF AcquireFields
      <3> QED
        BY <3>2, <3>3, <3>4, <3>5
    <2>3. pc' \in AcquireSteps \ {"boundary", "datasetManifest"}
      BY <2>1 DEF AcquireSteps
    <2> QED
      BY <1>0, <2>1, <2>2, <2>3, JobMoved
  <1> QED
    BY <1>1, <1>2

(* The files of an object. *)
LEMMA StoreFileStep ==
    ASSUME CrisisInv, StoreZip \/ StoreChecksum \/ StoreCsv
    PROVE  CrisisInv'
  <1>0. /\ pc \in AcquireSteps /\ DOMAIN job = AcquireFields
        /\ job.entries \in Seq(tree["dataset"]) /\ TreeInv /\ LoadedIsAdmitted
    BY DEF StoreZip, StoreChecksum, StoreCsv, StoreStep, AcquireSteps, CrisisInv, AcquireInv
  <1>1. CASE DatasetFails
    BY <1>0, <1>1, DatasetFailsStep
  <1>2. CASE ~DatasetFails
    <2>1. PICK kind \in {"zip", "checksum", "csv"} : WriteImmutable(kind, ZipFile(Current, job.zip))
      BY <1>2 DEF StoreZip, StoreChecksum, StoreCsv, StoreStep
    <2>2. /\ UNCHANGED <<rest, loaded>>
          /\ pc' \in {"storeChecksum", "storeCsv", "checksum", "merge"}
          /\ job' = job \/ \E x : job' = [job EXCEPT !.object = x]
      BY <1>2 DEF StoreZip, StoreChecksum, StoreCsv, StoreStep
    <2>3. DOMAIN job' = AcquireFields /\ job'.entries = job.entries
      BY <1>0, <2>2 DEF AcquireFields
    <2>4. /\ TreeInv' /\ LoadedIsAdmitted' /\ tree'["dataset"] = tree["dataset"]
      BY <1>0, <2>1, <2>2, FileAdded
    <2>5. AcquireInv' /\ ValidateInv' /\ pc' \in AcquireSteps
      BY <1>0, <2>2, <2>3, <2>4 DEF AcquireInv, ValidateInv, AcquireSteps
    <2> QED
      BY <2>4, <2>5 DEF CrisisInv
  <1> QED
    BY <1>1, <1>2

(* The canonical file is in the tree before the manifest names it. *)
LEMMA MergeStep ==
    ASSUME CrisisInv, MergeRows
    PROVE  CrisisInv'
  <1>0. /\ pc \in AcquireSteps /\ DOMAIN job = AcquireFields
        /\ job.entries \in Seq(tree["dataset"]) /\ TreeInv /\ LoadedIsAdmitted
    BY DEF MergeRows, AcquireSteps, CrisisInv, AcquireInv
  <1>1. CASE DatasetFails
    BY <1>0, <1>1, DatasetFailsStep
  <1>2. CASE ~DatasetFails
    <2>1. /\ WriteImmutable("canonical", [of |-> Pair, rows |-> AllRows])
          /\ job' = [job EXCEPT !.rowset = AllRows] /\ pc' = "boundary"
          /\ UNCHANGED <<rest, loaded>>
      BY <1>2 DEF MergeRows
    <2>2. /\ DOMAIN job' = AcquireFields /\ job'.entries = job.entries
          /\ job'.rowset = AllRows /\ job'.dataset = job.dataset
      BY <1>0, <2>1 DEF AcquireFields
    <2>3. /\ TreeInv' /\ LoadedIsAdmitted' /\ tree'["dataset"] = tree["dataset"]
          /\ [of |-> Pair, rows |-> AllRows] \in tree'["canonical"]
      BY <1>0, <2>1, FileAdded
    <2>4. AcquireInv' /\ ValidateInv' /\ pc' \in AcquireSteps
      BY <1>0, <2>1, <2>2, <2>3 DEF AcquireInv, ValidateInv, AcquireSteps, Pair
    <2> QED
      BY <2>3, <2>4 DEF CrisisInv
  <1> QED
    BY <1>1, <1>2

(* A boundary check that says MATCH has found the outer candles in REST. *)
LEMMA BoundaryIsTrue ==
    ASSUME NEW rows, VerifyRestBoundaries(rows) = "MATCH"
    PROVE  OuterInRest(rows)
  <1> DEFINE outer == {r \in rows : \/ \A q \in rows : r.slot <= q.slot
                                   \/ \A q \in rows : r.slot >= q.slot}
  <1>1. VerifyExactRestRows(outer) = "MATCH"
    BY DEF VerifyRestBoundaries
  <1>2. \A r \in outer : r \in Canonical(RestFrom(r.slot))
    <2> HIDE DEF outer
    <2> QED
      BY <1>1 DEF VerifyExactRestRows
  <1>3. \A slot : Canonical(RestFrom(slot)) \subseteq Canonical(rest)
    BY DEF Canonical, RestFrom
  <1> QED
    BY <1>2, <1>3 DEF OuterInRest

LEMMA BoundaryStep ==
    ASSUME CrisisInv, CheckBoundary
    PROVE  CrisisInv'
  <1>0. /\ pc = "boundary" /\ pc \in AcquireSteps /\ DOMAIN job = AcquireFields
        /\ job.entries \in Seq(tree["dataset"])
        /\ [of |-> Pair, rows |-> job.rowset] \in tree["canonical"]
    BY DEF CheckBoundary, AcquireSteps, CrisisInv, AcquireInv
  <1>1. CASE DatasetFails
    BY <1>0, <1>1, DatasetFailsStep
  <1>2. CASE ~DatasetFails
    <2>1. PICK found : /\ job' = [job EXCEPT !.boundary = found]
                       /\ found = "MATCH" => VerifyRestBoundaries(job.rowset) = "MATCH"
      BY <1>2 DEF CheckBoundary
    <2>2. pc' = "datasetManifest" /\ UNCHANGED <<tree, rest, loaded>>
      BY <1>2 DEF CheckBoundary
    <2>3. /\ DOMAIN job' = AcquireFields /\ job'.entries = job.entries
          /\ job'.rowset = job.rowset /\ job'.dataset = job.dataset /\ job'.boundary = found
      BY <1>0, <2>1 DEF AcquireFields
    <2>4. job'.boundary = "MATCH" => OuterInRest(job.rowset)
      BY <2>1, <2>3, BoundaryIsTrue
    <2>5. TreeInv' /\ LoadedIsAdmitted'
      BY <2>2, SameTree DEF CrisisInv
    <2>6. OuterInRest(job.rowset) => OuterInRest(job.rowset)'
      BY <2>2, <2>3 DEF OuterInRest
    <2>7. AcquireInv' /\ ValidateInv' /\ pc' \in AcquireSteps
      BY <1>0, <2>2, <2>3, <2>4, <2>6 DEF AcquireInv, ValidateInv, AcquireSteps, Pair, OuterInRest
    <2> QED
      BY <2>5, <2>7 DEF CrisisInv
  <1> QED
    BY <1>1, <1>2

(* The manifest of a dataset tells the truth about REST. *)
LEMMA ManifestIsTrue ==
    ASSUME CrisisInv, pc = "datasetManifest"
    PROVE  /\ Truthful(DatasetManifest)
           /\ [of |-> DatasetManifest.of, rows |-> DatasetManifest.rows] \in tree["canonical"]
  <1> DEFINE m == DatasetManifest
             gaps == MissingSlots(job.rowset)
  <1>1. /\ m.of = Pair /\ m.rows = job.rowset /\ m.boundary = job.boundary
        /\ m.evidence = GapVerification(gaps, job.verify)
    BY DEF DatasetManifest
  <1>2. m.evidence.status = "ALL_CONFIRMED_ABSENT" =>
            m.evidence.absent \cap {q.slot : q \in rest} = {}
    BY <1>1 DEF GapVerification, VerifyRestGapAbsence
  <1>3. /\ [of |-> Pair, rows |-> job.rowset] \in tree["canonical"]
        /\ job.boundary = "MATCH" => OuterInRest(job.rowset)
    BY DEF CrisisInv, AcquireInv, AcquireSteps
  <1> HIDE DEF m
  <1>4. Truthful(m)
    BY <1>1, <1>2, <1>3 DEF Truthful
  <1> QED
    BY <1>1, <1>3, <1>4 DEF m

LEMMA DatasetManifestStep ==
    ASSUME CrisisInv, WriteDatasetManifest
    PROVE  CrisisInv'
  <1> DEFINE m == DatasetManifest
  <1>0. /\ pc = "datasetManifest" /\ pc \in AcquireSteps /\ DOMAIN job = AcquireFields
        /\ job.entries \in Seq(tree["dataset"]) /\ TreeInv /\ LoadedIsAdmitted
    BY DEF WriteDatasetManifest, AcquireSteps, CrisisInv, AcquireInv
  <1>1. CASE DatasetFails
    BY <1>0, <1>1, DatasetFailsStep
  <1>2. CASE ~DatasetFails
    <2>1. Truthful(m) /\ [of |-> m.of, rows |-> m.rows] \in tree["canonical"]
      BY <1>0, ManifestIsTrue
    <2>2. /\ tree' = [tree EXCEPT !["dataset"] = @ \cup {m}]
          /\ NextDataset([job EXCEPT !.entries = Append(@, m)])
          /\ UNCHANGED <<rest, loaded>>
      BY <1>2 DEF WriteDatasetManifest, WriteImmutable
    <2> HIDE DEF m
    <2>3. /\ DOMAIN tree' = Kinds
          /\ \A k \in Kinds : tree'[k] = IF k = "dataset" THEN tree[k] \cup {m} ELSE tree[k]
      BY <1>0, <2>2 DEF TreeInv, Kinds
    <2>4. /\ tree'["dataset"] = tree["dataset"] \cup {m}
          /\ tree'["canonical"] = tree["canonical"] /\ tree'["event"] = tree["event"]
          /\ tree'["admission"] = tree["admission"] /\ tree'["quality"] = tree["quality"]
      BY <2>3 DEF Kinds
    <2>5. TreeInv'
      <3>1. \A x : Truthful(x)' <=> Truthful(x)
        BY <2>2 DEF Truthful, OuterInRest
      <3>2. Seq(tree["dataset"]) \subseteq Seq(tree'["dataset"])
        BY <2>4
      <3> QED
        BY <1>0, <2>1, <2>3, <2>4, <3>1, <3>2 DEF TreeInv, AdmissionTrue, Checked
    <2>6. LoadedIsAdmitted'
      BY <1>0, <2>2, <2>4 DEF LoadedIsAdmitted
    <2> DEFINE j == [job EXCEPT !.entries = Append(@, m)]
    <2>7. DOMAIN j = AcquireFields /\ j.entries = Append(job.entries, m)
      BY <1>0 DEF AcquireFields
    <2>8. Append(job.entries, m) \in Seq(tree'["dataset"])
      BY <1>0, <2>4
    <2>9. NextDataset(j)
      BY <2>2
    <2> HIDE DEF j
    <2>10. AcquireInv' /\ ValidateInv' /\ pc' \in AcquireSteps
      BY <2>7, <2>8, <2>9, NextDatasetInv
    <2> QED
      BY <2>5, <2>6, <2>10 DEF CrisisInv
  <1> QED
    BY <1>1, <1>2

LEMMA EventManifestStep ==
    ASSUME CrisisInv, WriteEventManifest
    PROVE  CrisisInv'
  <1> DEFINE e == EventManifest
  <1>0. /\ job.entries \in Seq(tree["dataset"]) /\ TreeInv /\ LoadedIsAdmitted
        /\ pc' = "idle" /\ UNCHANGED <<rest, loaded>>
    BY DEF WriteEventManifest, AcquireSteps, CrisisInv, AcquireInv, Finish
  <1>1. CASE UNCHANGED tree
    BY <1>0, <1>1, SameTree, IdleStep
  <1>2. CASE WriteImmutable("event", e)
    <2>1. e.datasets = job.entries
      BY DEF EventManifest
    <2>2. tree' = [tree EXCEPT !["event"] = @ \cup {e}]
      BY <1>2 DEF WriteImmutable
    <2> HIDE DEF e
    <2>3. /\ DOMAIN tree' = Kinds
          /\ \A k \in Kinds : tree'[k] = IF k = "event" THEN tree[k] \cup {e} ELSE tree[k]
      BY <1>0, <2>2 DEF TreeInv, Kinds
    <2>4. /\ tree'["event"] = tree["event"] \cup {e}
          /\ tree'["canonical"] = tree["canonical"] /\ tree'["dataset"] = tree["dataset"]
          /\ tree'["admission"] = tree["admission"] /\ tree'["quality"] = tree["quality"]
      BY <2>3 DEF Kinds
    <2>5. TreeInv'
      <3>1. \A x : Truthful(x)' <=> Truthful(x)
        BY <1>0 DEF Truthful, OuterInRest
      <3> QED
        BY <1>0, <2>1, <2>3, <2>4, <3>1 DEF TreeInv, AdmissionTrue, Checked
    <2>6. LoadedIsAdmitted'
      BY <1>0, <2>4 DEF LoadedIsAdmitted
    <2> QED
      BY <1>0, <2>5, <2>6, IdleStep
  <1> QED
    BY <1>1, <1>2 DEF WriteEventManifest

(* A run begins. *)
LEMMA BeginStep ==
    ASSUME CrisisInv, AcquireEvent \/ ValidateEvent
    PROVE  CrisisInv'
  <1>0. TreeInv' /\ LoadedIsAdmitted' /\ TreeInv /\ UNCHANGED tree
    BY SameTree DEF AcquireEvent, ValidateEvent, CrisisInv
  <1>1. CASE AcquireEvent
    <2>1. pc' = "checksum" /\ DOMAIN job' = AcquireFields /\ job'.entries = <<>>
      BY <1>1 DEF AcquireEvent, AcquireFields
    <2>2. AcquireInv' /\ ValidateInv'
      BY <2>1 DEF AcquireInv, ValidateInv
    <2> QED
      BY <1>0, <2>1, <2>2 DEF CrisisInv, AcquireSteps
  <1>2. CASE ValidateEvent
    <2>1. PICK e \in tree["event"] :
             /\ Len(e.datasets) = Len(Datasets)
             /\ job' = [command |-> "validate", event |-> e, reports |-> <<>>]
      BY <1>2 DEF ValidateEvent
    <2>2. pc' = "report"
      BY <1>2 DEF ValidateEvent
    <2>3. /\ DOMAIN job' = {"command", "event", "reports"}
          /\ job'.event = e /\ job'.reports = <<>> /\ Len(job'.reports) = 0
      BY <2>1
    <2>4. \A i \in 1 .. Len(job'.reports) : FALSE
      BY <2>3
    <2>5. 0 < Len(Datasets)
      BY CrisisAssumption
    <2>6. AcquireInv' /\ ValidateInv'
      BY <1>0, <2>1, <2>2, <2>3, <2>4, <2>5 DEF AcquireInv, ValidateInv, AcquireSteps, ReportsOn
    <2> QED
      BY <1>0, <2>2, <2>6 DEF CrisisInv
  <1> QED
    BY <1>1, <1>2

(* A sequence that grows by one element. *)
LEMMA Appended ==
    ASSUME NEW S, NEW s \in Seq(S), NEW x \in S
    PROVE  /\ Append(s, x) \in Seq(S) /\ Len(Append(s, x)) = Len(s) + 1
           /\ \A i \in 1 .. Len(s) : Append(s, x)[i] = s[i]
           /\ Append(s, x)[Len(s) + 1] = x
  OBVIOUS

(* A report is on the next dataset, and one that passes has checked it. *)
LEMMA ReportStep ==
    ASSUME CrisisInv, WriteReport
    PROVE  CrisisInv'
  <1> DEFINE n == Len(job.reports) + 1
             report == QualityReport(job.event.datasets[n])
  <1>0. /\ pc = "report" /\ TreeInv /\ LoadedIsAdmitted /\ UNCHANGED <<rest, loaded>>
        /\ DOMAIN job = {"command", "event", "reports"}
        /\ job.event \in tree["event"] /\ Len(job.event.datasets) = Len(Datasets)
        /\ job.reports \in Seq(tree["quality"]) /\ ReportsOn(job.event, job.reports)
        /\ Len(job.reports) < Len(Datasets)
    BY DEF WriteReport, CrisisInv, ValidateInv
  <1>1. CASE Finish /\ UNCHANGED tree
    BY <1>0, <1>1, SameTree, IdleStep DEF Finish
  <1>2. CASE ~(Finish /\ UNCHANGED tree)
    <2>1. /\ WriteImmutable("quality", report)
          /\ job' = [job EXCEPT !.reports = Append(@, report)]
          /\ pc' = IF n = Len(Datasets) THEN "admission" ELSE "report"
      BY <1>2 DEF WriteReport
    <2>2. /\ report.input = job.event.datasets[n]
          /\ report.pass => Checked(job.event.datasets[n])
      BY DEF QualityReport, ValidateDataset, InspectCanonical, Checked
    <2> HIDE DEF report
    <2>3. /\ TreeInv' /\ LoadedIsAdmitted' /\ tree'["event"] = tree["event"]
          /\ tree["quality"] \subseteq tree'["quality"] /\ report \in tree'["quality"]
      BY <1>0, <2>1, FileAdded DEF Kinds
    <2>4. /\ DOMAIN job' = {"command", "event", "reports"} /\ job'.event = job.event
          /\ job'.reports = Append(job.reports, report)
      BY <1>0, <2>1
    <2>5. /\ job.reports \in Seq(tree'["quality"]) /\ Len(job.reports) \in Nat
          /\ Len(Datasets) \in Nat
      BY <1>0, <2>3, CrisisAssumption
    <2>6. /\ job'.reports \in Seq(tree'["quality"]) /\ Len(job'.reports) = n
          /\ \A i \in 1 .. Len(job.reports) : job'.reports[i] = job.reports[i]
          /\ job'.reports[n] = report
      <3> HIDE DEF n
      <3> DEFINE s == job.reports
                 S == tree'["quality"]
      <3>1. s \in Seq(S) /\ report \in S
        BY <2>3, <2>5
      <3> HIDE DEF s, S
      <3>2. /\ Append(s, report) \in Seq(S) /\ Len(Append(s, report)) = Len(s) + 1
            /\ \A i \in 1 .. Len(s) : Append(s, report)[i] = s[i]
            /\ Append(s, report)[Len(s) + 1] = report
        BY <3>1, Appended
      <3> QED
        BY <2>4, <3>2 DEF s, S, n
    <2>7. ReportsOn(job.event, job'.reports)
      <3>1. \A i \in 1 .. n : i = n \/ i \in 1 .. Len(job.reports)
        BY <2>5
      <3> QED
        BY <1>0, <2>2, <2>6, <3>1 DEF ReportsOn
    <2>8. AcquireInv' /\ ValidateInv' /\ pc' \in {"report", "admission"}
      BY <1>0, <2>1, <2>3, <2>4, <2>5, <2>6, <2>7
         DEF AcquireInv, ValidateInv, AcquireSteps, ReportsOn, Checked
    <2> QED
      BY <2>3, <2>8 DEF CrisisInv
  <1> QED
    BY <1>1, <1>2

LEMMA AdmissionStep ==
    ASSUME CrisisInv, WriteAdmission
    PROVE  CrisisInv'
  <1> DEFINE a == Admission
  <1>0. /\ pc = "admission" /\ TreeInv /\ LoadedIsAdmitted /\ UNCHANGED <<rest, loaded>>
        /\ job.event \in tree["event"] /\ Len(job.event.datasets) = Len(Datasets)
        /\ job.reports \in Seq(tree["quality"]) /\ ReportsOn(job.event, job.reports)
        /\ Len(job.reports) = Len(Datasets) /\ pc' = "idle"
    BY DEF WriteAdmission, CrisisInv, ValidateInv, Finish
  <1>1. CASE UNCHANGED tree
    BY <1>0, <1>1, SameTree, IdleStep
  <1>2. CASE WriteImmutable("admission", a)
    <2>1. /\ a.event = job.event /\ a.reports = job.reports
          /\ a.admitted => \A i \in 1 .. Len(job.reports) : job.reports[i].pass
      BY DEF Admission
    <2>2. tree' = [tree EXCEPT !["admission"] = @ \cup {a}]
      BY <1>2 DEF WriteImmutable
    <2> HIDE DEF a
    <2>3. AdmissionTrue(a)
      BY <1>0, <2>1 DEF AdmissionTrue, ReportsOn
    <2>4. /\ DOMAIN tree' = Kinds
          /\ \A k \in Kinds : tree'[k] = IF k = "admission" THEN tree[k] \cup {a} ELSE tree[k]
      BY <1>0, <2>2 DEF TreeInv, Kinds
    <2>5. /\ tree'["admission"] = tree["admission"] \cup {a}
          /\ tree'["canonical"] = tree["canonical"] /\ tree'["dataset"] = tree["dataset"]
          /\ tree'["event"] = tree["event"] /\ tree'["quality"] = tree["quality"]
      BY <2>4 DEF Kinds
    <2>6. TreeInv'
      <3>1. \A x : Truthful(x)' <=> Truthful(x)
        BY <1>0 DEF Truthful, OuterInRest
      <3> QED
        BY <1>0, <2>1, <2>3, <2>4, <2>5, <3>1 DEF TreeInv, AdmissionTrue, Checked
    <2>7. LoadedIsAdmitted'
      BY <1>0, <2>5 DEF LoadedIsAdmitted
    <2> QED
      BY <1>0, <2>6, <2>7, IdleStep
  <1> QED
    BY <1>1, <1>2 DEF WriteAdmission

LEMMA LoadStep ==
    ASSUME CrisisInv, LoadAdmittedEvent
    PROVE  CrisisInv'
  <1>1. PICK a \in tree["admission"] :
            /\ a.admitted
            /\ loaded' = {LoadCanonicalCandles(a.reports[i]) : i \in 1 .. Len(a.reports)}
    BY DEF LoadAdmittedEvent
  <1>2. \A report : /\ LoadCanonicalCandles(report).of = report.input.of
                    /\ LoadCanonicalCandles(report).rows = report.input.rows
    BY DEF LoadCanonicalCandles
  <1>3. pc = "idle" /\ UNCHANGED <<rest, tree, pc>>
    BY DEF LoadAdmittedEvent
  <1>4. LoadedIsAdmitted'
    BY <1>1, <1>2, <1>3 DEF LoadedIsAdmitted
  <1>5. TreeInv'
    BY <1>3 DEF CrisisInv, TreeInv, Truthful, OuterInRest, AdmissionTrue, Checked
  <1> QED
    BY <1>3, <1>4, <1>5, IdleStep

LEMMA CrisisNext ==
    ASSUME CrisisInv, [Next]_vars
    PROVE  CrisisInv'
  <1>1. CASE AcquireEvent \/ ValidateEvent
    BY <1>1, BeginStep
  <1>2. CASE FetchChecksum \/ ReadCachedZip \/ FetchArchive \/ NormalizeArchive
    BY <1>2, FetchStep
  <1>3. CASE StoreZip \/ StoreChecksum \/ StoreCsv
    BY <1>3, StoreFileStep
  <1>4. CASE MergeRows
    BY <1>4, MergeStep
  <1>5. CASE CheckBoundary
    BY <1>5, BoundaryStep
  <1>6. CASE WriteDatasetManifest
    BY <1>6, DatasetManifestStep
  <1>7. CASE WriteEventManifest
    BY <1>7, EventManifestStep
  <1>8. CASE WriteReport
    BY <1>8, ReportStep
  <1>9. CASE WriteAdmission
    BY <1>9, AdmissionStep
  <1>10. CASE LoadAdmittedEvent
    BY <1>10, LoadStep
  <1>11. CASE Crash
    <2>1. pc' = "idle" /\ UNCHANGED <<tree, rest, loaded>>
      BY <1>11 DEF Crash, Finish
    <2>2. TreeInv' /\ LoadedIsAdmitted'
      BY <2>1, SameTree DEF CrisisInv
    <2> QED
      BY <2>1, <2>2, IdleStep
  <1>12. CASE \E o \in Objects : Revise(o) \/ ReviseChecksum(o)
    <2>1. UNCHANGED <<tree, rest, loaded, pc, job>>
      BY <1>12 DEF Revise, ReviseChecksum
    <2> QED
      BY <2>1, QuietStep
  <1>13. CASE \E k \in Kinds : Decay(k)
    <2>1. UNCHANGED <<tree, rest, loaded, pc, job>>
      BY <1>13 DEF Decay
    <2> QED
      BY <2>1, QuietStep
  <1>14. CASE UNCHANGED vars
    <2>1. UNCHANGED <<tree, rest, loaded, pc, job>>
      BY <1>14 DEF vars
    <2> QED
      BY <2>1, QuietStep
  <1> QED
    BY <1>1, <1>2, <1>3, <1>4, <1>5, <1>6, <1>7, <1>8, <1>9, <1>10, <1>11, <1>12, <1>13, <1>14
       DEF Next

-----------------------------------------------------------------------------
(* A manifest that tells the truth and was checked is what an admission      *)
(* vouches for.                                                              *)
LEMMA CheckedIsVerified ==
    ASSUME NEW m, Truthful(m), Checked(m)
    PROVE  Verified(m)
  <1>1. \A r \in m.rows : r.val > 0 /\ CloseOf(r.slot) <= m.retrieved /\ r.slot \in Expected
    BY DEF Checked, RowPasses
  <1>2. MissingSlots(m.rows) \cap {q.slot : q \in rest} = {}
    BY DEF Checked, GapEvidence, Truthful
  <1>3. OuterInRest(m.rows)
    BY DEF Checked, Truthful
  <1> QED
    BY <1>1, <1>2, <1>3 DEF Verified, OuterInRest

LEMMA CrisisInvImplies == CrisisInv => AdmissionIsSound
  <1> SUFFICES ASSUME CrisisInv PROVE AdmissionIsSound
    OBVIOUS
  <1>0. TreeInv
    BY DEF CrisisInv
  <1>1. \A S : \A s \in Seq(S) : ToSet(s) \subseteq S /\ \A i \in 1 .. Len(s) : s[i] \in S
    BY DEF ToSet
  <1>2. AdmittedIsVerified
    <2> SUFFICES ASSUME NEW a \in tree["admission"], a.admitted
                 PROVE  /\ Len(a.event.datasets) = Len(Datasets)
                        /\ \A i \in 1 .. Len(a.event.datasets) : Verified(a.event.datasets[i])
      BY DEF AdmittedIsVerified
    <2>1. /\ Len(a.event.datasets) = Len(Datasets)
          /\ \A i \in 1 .. Len(a.event.datasets) : Checked(a.event.datasets[i])
      BY <1>0 DEF TreeInv, AdmissionTrue
    <2>2. a.event.datasets \in Seq(tree["dataset"])
      BY <1>0 DEF TreeInv
    <2>3. \A i \in 1 .. Len(a.event.datasets) : Truthful(a.event.datasets[i])
      BY <1>0, <1>1, <2>2 DEF TreeInv
    <2> QED
      BY <2>1, <2>3, CheckedIsVerified
  <1>3. ReferencesPresent
    BY <1>0, <1>1 DEF TreeInv, ReferencesPresent
  <1> QED
    BY <1>2, <1>3 DEF AdmissionIsSound, CrisisInv

(* An event CRL-003 admits has every dataset verified against REST, CRL-004  *)
(* hands a replay exactly what was admitted, and no manifest of the tree     *)
(* names a file that was not written before it: for any datasets, any        *)
(* publications revised at any moment, crashes between two files and decay   *)
(* of files.                                                                 *)
THEOREM AdmissionTheorem == Spec => []AdmissionIsSound
  <1>1. Init => CrisisInv
    BY CrisisInit
  <1>2. CrisisInv /\ [Next]_vars => CrisisInv'
    BY CrisisNext
  <1>3. CrisisInv => AdmissionIsSound
    BY CrisisInvImplies
  <1> QED
    BY <1>1, <1>2, <1>3, PTL DEF Spec

-----------------------------------------------------------------------------
(* The shock matrix *)

Actions == {"EXIT_LONG", "NO_TRADE"}

(* A recorded result is that of one of the nine pairs, and nothing is        *)
(* recorded unless the registry is complete.                                 *)
OfScenario(r) ==
    \E g \in Gaps, m \in Multipliers : r = RunScenario(episode, action, [gap |-> g, mult |-> m])

ShockInv ==
    /\ episode \in Episodes /\ action \in Actions
    /\ next \in Nat \ {0}
    /\ phase = "RUN" => RegistryComplete
    /\ \E S : outputs \in Seq(S)
    /\ \A k \in DOMAIN outputs : OfScenario(outputs[k])

LEMMA ShockConstants ==
    /\ CostDen \in Nat \ {0} /\ Fee \in 0 .. CostDen /\ Slippage \in Nat /\ 5 * Slippage < CostDen
    /\ Prices \subseteq Nat /\ Quantity \in Nat /\ Cash \in Int
    /\ Registry \in Seq([gap : Nat, mult : Nat])
  BY CostAssumption, PriceAssumption

LEMMA ProductMonotone ==
    ASSUME NEW a \in Nat, NEW b \in Nat, NEW c \in Nat, NEW d \in Nat, a <= b, c <= d
    PROVE  a * c <= b * d /\ a * c \in Nat /\ b * d \in Nat
  <1>1. a * c <= b * c
    BY SMT
  <1>2. b * c <= b * d
    BY SMT
  <1>3. a * c \in Nat /\ b * d \in Nat /\ b * c \in Nat
    BY SMT
  <1> QED
    BY <1>1, <1>2, <1>3

(* A lower price and a higher slippage bring no more.                        *)
LEMMA ProceedsMonotone ==
    ASSUME NEW x \in Nat, NEW y \in Nat, x <= y, NEW s \in 0 .. CostDen, NEW u \in 0 .. CostDen, u <= s
    PROVE  LiquidationEquity(x, s) <= LiquidationEquity(y, u)
  <1> DEFINE a == CostDen - s
             b == CostDen - u
             f == CostDen - Fee
  <1>1. a \in Nat /\ b \in Nat /\ a <= b /\ f \in Nat /\ Quantity \in Nat
    BY ShockConstants
  <1> HIDE DEF a, b, f
  <1>2. Quantity * x <= Quantity * y /\ Quantity * x \in Nat /\ Quantity * y \in Nat
    BY <1>1, ProductMonotone
  <1> DEFINE q == Quantity * x
             r == Quantity * y
  <1>3. q \in Nat /\ r \in Nat /\ q <= r
    BY <1>2
  <1> HIDE DEF q, r
  <1>4. q * a <= r * b /\ q * a \in Nat /\ r * b \in Nat
    BY <1>1, <1>3, ProductMonotone
  <1> DEFINE v == q * a
             w == r * b
  <1>5. v \in Nat /\ w \in Nat /\ v <= w
    BY <1>4
  <1> HIDE DEF v, w
  <1>6. v * f <= w * f /\ v * f \in Nat /\ w * f \in Nat
    BY <1>1, <1>5, ProductMonotone
  <1>7. Proceeds(x, s) = v * f /\ Proceeds(y, u) = w * f
    BY DEF Proceeds, v, w, q, r, a, b, f
  <1>8. Proceeds(x, s) <= Proceeds(y, u) /\ Proceeds(x, s) \in Int /\ Proceeds(y, u) \in Int
    BY <1>6, <1>7
  <1>9. Cash * CostDen * CostDen \in Int
    BY ShockConstants
  <1> QED
    BY <1>8, <1>9 DEF LiquidationEquity

LEMMA SyntheticPrices ==
    ASSUME NEW p \in Nat, NEW g \in Gaps, NEW h \in Gaps, g <= h
    PROVE  /\ SyntheticPrice(p, g) \in Nat /\ SyntheticPrice(p, h) \in Nat
           /\ SyntheticPrice(p, h) <= SyntheticPrice(p, g) /\ SyntheticPrice(p, g) <= p
  <1>1. g \in {500, 1000, 2000} /\ h \in {500, 1000, 2000}
    BY DEF Gaps
  <1>2. ASSUME NEW n \in {500, 1000, 2000}
        PROVE  SyntheticPrice(p, n) \in Nat /\ SyntheticPrice(p, n) <= p
    BY DEF SyntheticPrice
  <1>3. SyntheticPrice(p, 2000) <= SyntheticPrice(p, 1000) /\ SyntheticPrice(p, 1000) <= SyntheticPrice(p, 500)
    BY DEF SyntheticPrice
  <1> QED
    BY <1>1, <1>2, <1>3

LEMMA SlippageFacts ==
    ASSUME NEW m \in Multipliers, NEW n \in Multipliers, m <= n
    PROVE  /\ Slippage * m \in 0 .. CostDen /\ Slippage * n \in 0 .. CostDen /\ Slippage * m <= Slippage * n
           /\ Slippage <= Slippage * m /\ Slippage \in 0 .. CostDen
  BY ShockConstants DEF Multipliers

LEMMA EpisodeFacts ==
    ASSUME NEW e \in Episodes
    PROVE  /\ e.bar.close \in Nat /\ e.stop \in Nat /\ e.target \in Nat /\ e.bar.close < e.target
           /\ e.stop < e.target
  <1>1. /\ e.bar \in Bar /\ e.stop \in Nat /\ e.target \in Nat
        /\ e.stop < e.bar.open /\ e.bar.open < e.target /\ EngineExit(e.bar, e.stop, e.target) = NoFill
    BY ShockConstants DEF Episodes, ConfirmedOpen
  <1>2. /\ e.bar.open \in Nat /\ e.bar.high \in Nat /\ e.bar.low \in Nat /\ e.bar.close \in Nat
        /\ e.bar.close <= e.bar.high
    BY <1>1, ShockConstants DEF Bar
  <1>3. e.bar.high < e.target
    <2> SUFFICES ASSUME e.target <= e.bar.high
                 PROVE  FALSE
      BY <1>1, <1>2
    <2>1. ~(e.bar.open <= e.stop) /\ ~(e.bar.open >= e.target) /\ e.bar.open > e.stop /\ e.bar.high >= e.target
      BY <1>1, <1>2
    <2>2. EngineExit(e.bar, e.stop, e.target) \in {Fill(e.stop, "AMBIGUOUS_STOP_PRIORITY"), Fill(e.stop, "STOP"), Fill(e.target, "TARGET")}
      BY <1>1, <2>1 DEF EngineExit
    <2> QED
      BY <1>1, <2>2 DEF Fill, NoFill
  <1> QED
    BY <1>1, <1>2, <1>3

(* Whatever answers a scenario sells or marks the position at its one price. *)
LEMMA ScenarioEquity ==
    ASSUME NEW e \in Episodes, NEW act \in Actions, NEW g \in Gaps, NEW m \in Multipliers
    PROVE  LET r == RunScenario(e, act, [gap |-> g, mult |-> m])
               p == SyntheticPrice(e.bar.close, g)
           IN  /\ r.gap = g /\ r.mult = m
               /\ r.exit.reason # "TARGET"
               /\ r.before = LiquidationEquity(e.bar.close, Slippage)
               /\ r.after = LiquidationEquity(p, Slippage * m)
               /\ act = "NO_TRADE" => r.exit = EngineExit(r.shock, e.stop, e.target)
  <1> DEFINE sc == [gap |-> g, mult |-> m]
             p == SyntheticPrice(e.bar.close, g)
             bar == SyntheticCandle(e, g)
             exit == ExitReference(act, e.stop, e.target, bar)
             r == RunScenario(e, act, sc)
  <1>1. p \in Nat /\ p < e.target /\ e.stop \in Nat /\ e.target \in Nat /\ e.stop < e.target
    <2>1. e.bar.close \in Nat /\ e.stop \in Nat /\ e.target \in Nat /\ e.bar.close < e.target /\ e.stop < e.target
      BY EpisodeFacts
    <2>2. g <= g
      BY DEF Gaps
    <2>3. p \in Nat /\ p <= e.bar.close
      BY <2>1, <2>2, SyntheticPrices
    <2> HIDE DEF p
    <2> QED
      BY <2>1, <2>3
  <1>2. bar.open = p /\ bar.high = p /\ bar.low = p /\ bar.close = p
    BY DEF SyntheticCandle
  <1> HIDE DEF p
  <1>3. exit \in {Fill(p, "SCRIPTED_EXIT"), Fill(p, "STOP"), NoFill}
    BY <1>1, <1>2 DEF ExitReference
  <1>4. act = "NO_TRADE" => exit = EngineExit(bar, e.stop, e.target)
    <2> SUFFICES ASSUME act = "NO_TRADE"
                 PROVE  exit = EngineExit(bar, e.stop, e.target)
      OBVIOUS
    <2>1. CASE p <= e.stop
      <3>1. EngineExit(bar, e.stop, e.target) = Fill(p, "STOP")
        BY <1>1, <1>2, <2>1 DEF EngineExit
      <3>2. exit = Fill(p, "STOP")
        BY <1>2, <2>1 DEF ExitReference
      <3> QED
        BY <3>1, <3>2
    <2>2. CASE ~(p <= e.stop)
      <3>1. p > e.stop /\ p < e.target /\ ~(p >= e.target)
        BY <1>1, <2>2
      <3>2. EngineExit(bar, e.stop, e.target) = NoFill
        BY <1>2, <2>2, <3>1 DEF EngineExit
      <3>3. exit = NoFill
        BY <1>2, <2>2, <3>1 DEF ExitReference
      <3> QED
        BY <3>2, <3>3
    <2> QED
      BY <2>1, <2>2
  <1>5. r.gap = g /\ r.mult = m /\ r.shock = bar /\ r.exit = exit
        /\ r.before = LiquidationEquity(e.bar.close, Slippage)
        /\ r.after = IF exit # NoFill THEN Cash * CostDen * CostDen + Proceeds(exit.price, Slippage * m)
                     ELSE LiquidationEquity(bar.open, Slippage * m)
    BY DEF RunScenario
  <1> HIDE DEF exit, bar, r
  <1>6. r.after = LiquidationEquity(p, Slippage * m)
    <2>1. CASE exit = NoFill
      BY <1>2, <1>5, <2>1
    <2>2. CASE exit # NoFill
      <3>1. exit.price = p
        BY <1>3, <2>2 DEF Fill
      <3> QED
        BY <1>5, <2>2, <3>1 DEF LiquidationEquity
    <2> QED
      BY <2>1, <2>2
  <1>7. exit.reason # "TARGET"
    BY <1>3 DEF Fill, NoFill
  <1> QED
    BY <1>4, <1>5, <1>6, <1>7 DEF r, p, sc, bar, exit

LEMMA ShockInitial == ShockInit => ShockInv
  <1> SUFFICES ASSUME ShockInit
               PROVE  ShockInv
    OBVIOUS
  <1>1. phase = "RUN" => RegistryComplete
    BY DEF ShockInit
  <1> QED
    BY <1>1 DEF ShockInit, ShockInv, Actions

LEMMA ShockSteps == ShockInv /\ [ShockNext]_shockVars => ShockInv'
  <1> SUFFICES ASSUME ShockInv, [ShockNext]_shockVars
               PROVE  ShockInv'
    OBVIOUS
  <1>1. CASE UNCHANGED <<episode, action, next, outputs>> /\ (phase' = phase \/ phase' # "RUN")
    BY <1>1 DEF ShockInv, OfScenario
  <1>2. CASE RunNext /\ outputs' # outputs
    <2> DEFINE r == RunScenario(episode, action, Scenario)
    <2>1. /\ phase = "RUN" /\ next <= Len(Registry) /\ outputs' = Append(outputs, r) /\ next' = next + 1
          /\ phase' = phase /\ UNCHANGED <<episode, action>>
      BY <1>2 DEF RunNext
    <2>2. RegistryComplete /\ next \in Nat \ {0} /\ \A k \in DOMAIN outputs : OfScenario(outputs[k])
      BY <2>1 DEF ShockInv
    <2>3. next \in DOMAIN Registry /\ Registry[next] \in [gap : Nat, mult : Nat]
      <3> DEFINE T == [gap : Nat, mult : Nat]
      <3>1. Registry \in Seq(T)
        BY ShockConstants
      <3> HIDE DEF T
      <3>2. next \in 1 .. Len(Registry) /\ DOMAIN Registry = 1 .. Len(Registry)
        BY <2>1, <2>2, <3>1
      <3>3. Registry[next] \in T
        BY <3>1, <3>2
      <3> QED
        BY <3>2, <3>3 DEF T
    <2>4. Scenario.gap \in Gaps /\ Scenario.mult \in Multipliers
      <3>1. <<Registry[next].gap, Registry[next].mult>> \in Gaps \X Multipliers
        BY <2>2, <2>3 DEF RegistryComplete
      <3> QED
        BY <3>1 DEF Scenario
    <2>5. OfScenario(r)
      <3>1. r = RunScenario(episode, action, [gap |-> Scenario.gap, mult |-> Scenario.mult])
        BY DEF RunScenario
      <3> QED
        BY <2>4, <3>1 DEF OfScenario
    <2> HIDE DEF r
    <2>6. PICK S : outputs \in Seq(S)
      BY DEF ShockInv
    <2>7. /\ outputs' \in Seq(S \cup {r}) /\ DOMAIN outputs' = 1 .. Len(outputs) + 1
          /\ \A k \in DOMAIN outputs' : (k \in DOMAIN outputs /\ outputs'[k] = outputs[k]) \/ outputs'[k] = r
      <3>1. outputs \in Seq(S \cup {r})
        BY <2>6
      <3> QED
        BY <2>1, <3>1
    <2>8. \A k \in DOMAIN outputs' : OfScenario(outputs'[k])
      BY <2>2, <2>5, <2>7
    <2>9. \A k \in DOMAIN outputs' : OfScenario(outputs[k])' <=> OfScenario(outputs'[k])
      BY <2>1 DEF OfScenario
    <2>10. \E T : outputs' \in Seq(T)
      BY <2>7
    <2>11. next' \in Nat \ {0}
      BY <2>1, <2>2
    <2>12. (episode \in Episodes /\ action \in Actions)' /\ (phase = "RUN" => RegistryComplete)'
      BY <2>1, <2>2 DEF ShockInv
    <2> QED
      BY <2>1, <2>8, <2>10, <2>11, <2>12 DEF ShockInv, OfScenario
  <1>3. \/ UNCHANGED <<episode, action, next, outputs>> /\ (phase' = phase \/ phase' # "RUN")
        \/ RunNext /\ outputs' # outputs
    <2>1. CASE RunNext /\ outputs' = outputs
      <3>1. PICK S : outputs \in Seq(S)
        BY DEF ShockInv
      <3>2. Append(outputs, RunScenario(episode, action, Scenario)) # outputs
        <4> DEFINE r == RunScenario(episode, action, Scenario)
        <4>1. outputs \in Seq(S \cup {r})
          BY <3>1
        <4> HIDE DEF r
        <4>2. Len(Append(outputs, r)) = Len(outputs) + 1 /\ Len(outputs) \in Nat
          BY <4>1
        <4>3. Append(outputs, r) # outputs
          BY <4>2
        <4> QED
          BY <4>3 DEF r
      <3> QED
        BY <2>1, <3>2 DEF RunNext
    <2>2. CASE WriteResult
      BY <2>2 DEF WriteResult
    <2>3. CASE UNCHANGED shockVars
      BY <2>3 DEF shockVars
    <2> QED
      BY <2>1, <2>2, <2>3 DEF ShockNext
  <1> QED
    BY <1>1, <1>2, <1>3

LEMMA ResultFacts ==
    ASSUME ShockInv, NEW r \in Results
    PROVE  \E g \in Gaps, m \in Multipliers :
              /\ r.gap = g /\ r.mult = m /\ r.exit.reason # "TARGET"
              /\ r.before = LiquidationEquity(episode.bar.close, Slippage)
              /\ r.after = LiquidationEquity(SyntheticPrice(episode.bar.close, g), Slippage * m)
              /\ action = "NO_TRADE" => r.exit = EngineExit(r.shock, episode.stop, episode.target)
  <1>1. PICK g \in Gaps, m \in Multipliers : r = RunScenario(episode, action, [gap |-> g, mult |-> m])
    BY DEF Results, ShockInv, OfScenario
  <1>2. episode \in Episodes /\ action \in Actions
    BY DEF ShockInv
  <1> QED
    BY <1>1, <1>2, ScenarioEquity

LEMMA ShockInvIsSound == ShockInv => ShockIsSound
  <1> SUFFICES ASSUME ShockInv
               PROVE  ShockIsSound
    OBVIOUS
  <1>0. episode.bar.close \in Nat
    BY EpisodeFacts DEF ShockInv
  <1>1. HarsherIsNoBetter
    <2> SUFFICES ASSUME NEW a \in Results, NEW b \in Results, a.gap <= b.gap, a.mult <= b.mult
                 PROVE  b.after <= a.after
      BY DEF HarsherIsNoBetter
    <2> DEFINE p(g) == SyntheticPrice(episode.bar.close, g)
    <2>1. PICK g \in Gaps, m \in Multipliers :
             a.gap = g /\ a.mult = m /\ a.after = LiquidationEquity(p(g), Slippage * m)
      BY ResultFacts
    <2>2. PICK h \in Gaps, n \in Multipliers :
             b.gap = h /\ b.mult = n /\ b.after = LiquidationEquity(p(h), Slippage * n)
      BY ResultFacts
    <2>3. g <= h /\ m <= n
      BY <2>1, <2>2
    <2>4. p(g) \in Nat /\ p(h) \in Nat /\ p(h) <= p(g)
      BY <1>0, <2>3, SyntheticPrices
    <2>5. /\ Slippage * m \in 0 .. CostDen /\ Slippage * n \in 0 .. CostDen
          /\ Slippage * m <= Slippage * n
      BY <2>3, SlippageFacts
    <2> HIDE DEF p
    <2>6. LiquidationEquity(p(h), Slippage * n) <= LiquidationEquity(p(g), Slippage * m)
      BY <2>4, <2>5, ProceedsMonotone
    <2> QED
      BY <2>1, <2>2, <2>6
  <1>2. ASSUME NEW r \in Results
        PROVE  /\ r.exit.reason # "TARGET" /\ r.after <= r.before
               /\ action = "NO_TRADE" => r.exit = EngineExit(r.shock, episode.stop, episode.target)
    <2>1. PICK g \in Gaps, m \in Multipliers :
              /\ r.exit.reason # "TARGET"
              /\ r.before = LiquidationEquity(episode.bar.close, Slippage)
              /\ r.after = LiquidationEquity(SyntheticPrice(episode.bar.close, g), Slippage * m)
              /\ action = "NO_TRADE" => r.exit = EngineExit(r.shock, episode.stop, episode.target)
      BY ResultFacts
    <2>2. g <= g /\ m <= m
      BY DEF Gaps, Multipliers
    <2> DEFINE p == SyntheticPrice(episode.bar.close, g)
    <2>3. p \in Nat /\ p <= episode.bar.close
      BY <1>0, <2>2, SyntheticPrices
    <2>4. Slippage * m \in 0 .. CostDen /\ Slippage <= Slippage * m /\ Slippage \in 0 .. CostDen
      BY <2>2, SlippageFacts
    <2> HIDE DEF p
    <2>5. LiquidationEquity(p, Slippage * m) <= LiquidationEquity(episode.bar.close, Slippage)
      BY <1>0, <2>3, <2>4, ProceedsMonotone
    <2> QED
      BY <2>1, <2>5 DEF p
  <1> QED
    BY <1>1, <1>2 DEF ShockIsSound, ShockIsAdverse, BracketsAgree

(* synthetic_shock.py: for any prices, costs and episodes, a deeper gap or a *)
(* costlier exit never leaves more equity, no scenario gains or takes        *)
(* profit, and both copies of the bracket answer alike.                      *)
THEOREM ShockTheorem == ShockSpec => []ShockIsSound
  <1> QED
    BY ShockInitial, ShockSteps, ShockInvIsSound, PTL DEF ShockSpec
=============================================================================
