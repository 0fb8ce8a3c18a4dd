------------------------------ MODULE CrisisData ------------------------------
(***************************************************************************)
(* The data pipeline of the crisis laboratory: CRL-002 downloads the       *)
(* archive objects of one registered event into an immutable,              *)
(* content-addressed tree and checks them against the REST interface,      *)
(* CRL-003 re-reads the tree and decides whether the event may be          *)
(* replayed, and CRL-004 loads an admitted event.                          *)
(*                                                                         *)
(* A file is named by the digest of its content, so the tree is a set of   *)
(* bodies for each kind of file; rot is the set of files whose bytes no    *)
(* longer have the digest in their name.  A candle is its slot on the      *)
(* interval grid and a value (0 stands for a price that is not positive);  *)
(* a source row also has a form: "ok", "closeOff" (its close time is not   *)
(* the end of its slot) or "broken" (a field that cannot be parsed).  Time *)
(* is counted in ticks.                                                    *)
(***************************************************************************)
EXTENDS Integers, Sequences, FiniteSets, FiniteSetsExt, SequencesExt

CONSTANTS Datasets,       \* the (symbol, interval) pairs, in the loops' order
          Overrides,      \* the days whose monthly rows are replaced, per pair
          Duration,       \* ticks of one candle
          CandlesPerDay,
          DaysPerMonth,
          SemanticStart,  \* the registered range of the event, in ticks
          SemanticEnd,
          ReplayEligible, \* the catalogue's mark on the event
          Publications,   \* what the publisher may hold, object by object
          Rests,          \* what the REST interface may answer
          Clocks,         \* the retrieval times an operator may give
          MaxRevisions, MaxRuns, MaxRot

ASSUME CrisisAssumption ==
    /\ Datasets \in Seq(STRING) /\ Len(Datasets) > 0
    /\ Overrides \in [ToSet(Datasets) -> SUBSET Nat]
    /\ Duration \in Nat \ {0} /\ CandlesPerDay \in Nat \ {0}
    /\ DaysPerMonth \in Nat \ {0}
    /\ SemanticStart \in Nat /\ SemanticEnd \in Nat
    /\ SemanticStart < SemanticEnd
    /\ ReplayEligible \in BOOLEAN

VARIABLES published,  \* per object: the zip, and the checksum beside it
          rest,       \* the klines of the REST interface
          tree,       \* the files of the research tree, by kind
          rot,        \* the files of the tree whose bytes have changed
          pc,         \* what the command being run does next
          job,        \* its arguments and what it holds in memory
          loaded,     \* what the last replay was given
          runs, revisions

vars == <<published, rest, tree, rot, pc, job, loaded, runs, revisions>>

(***************************************************************************)
(* The plan of a dataset.                                                  *)
(***************************************************************************)
FloorToInterval(t) == (t \div Duration) * Duration

CeilToInterval(t) == ((t + Duration - 1) \div Duration) * Duration

FirstSlot == FloorToInterval(SemanticStart) \div Duration

LastSlot == CeilToInterval(SemanticEnd) \div Duration - 1

Expected == FirstSlot..LastSlot

DayOf(slot) == slot \div CandlesPerDay

CloseOf(slot) == (slot + 1) * Duration - 1

ArchiveObject(cadence, day) ==
    [cadence |-> cadence, day |-> day]

MonthEnd(day) == day + DaysPerMonth - 1

OverrideDays(d, day) ==
    SetToSortSeq({o \in Overrides[d] : day <= o /\ o <= MonthEnd(day)}, <)

\* A whole month inside the range is one monthly object, followed by the daily
\* objects that replace its overridden days; every other day is a daily object.
BuildArchiveObjects(d) ==
    LET last == DayOf(LastSlot)
        from[c \in DayOf(FirstSlot)..(last + 1)] ==
            IF c > last THEN <<>>
            ELSE IF c % DaysPerMonth = 0 /\ MonthEnd(c) <= last
                 THEN <<ArchiveObject("monthly", c)>>
                      \o [i \in 1..Len(OverrideDays(d, c)) |->
                            ArchiveObject("daily", OverrideDays(d, c)[i])]
                      \o from[c + DaysPerMonth]
                 ELSE <<ArchiveObject("daily", c)>> \o from[c + 1]
    IN  from[DayOf(FirstSlot)]

PlanDataset(d) == BuildArchiveObjects(d)

DaysOf(o) == IF o.cadence = "daily" THEN {o.day} ELSE o.day..MonthEnd(o.day)

Objects == UNION {{[of |-> d, object |-> o] : o \in ToSet(PlanDataset(d))}
                     : d \in ToSet(Datasets)}

(***************************************************************************)
(* Normalisation of an object and verification against REST.               *)
(***************************************************************************)
Readable(zip) == \A r \in zip : r.form # "broken"

\* The rows of an object that the dataset takes: in the transport range, and
\* not of a day the monthly file is known to have wrong.
Selected(d, o, zip) ==
    {r \in zip : /\ ~(o.cadence = "monthly" /\ DayOf(r.slot) \in Overrides[d])
                 /\ r.slot \in Expected}

Canonical(rows) == {[slot |-> r.slot, val |-> r.val] : r \in rows}

Anomalies(rows) == Canonical({r \in rows : r.form = "closeOff"})

\* The answer to a query that starts at a slot: the first kline from there on.
RestFrom(slot) == {r \in rest : r.slot >= slot /\ \A q \in rest :
                                    q.slot >= slot => q.slot >= r.slot}

\* The rows are compared in order, first with the kline of their slot and,
\* when there is none, with the first later one; no kline at all is an error.
VerifyExactRestRows(rows) ==
    LET wrong == {r \in rows : r \notin Canonical(RestFrom(r.slot))}
        first == CHOOSE r \in wrong : \A q \in wrong : r.slot <= q.slot
    IN  IF wrong = {} THEN "MATCH"
        ELSE IF RestFrom(first.slot) = {} THEN "ERROR" ELSE "MISMATCH"

VerifyRestBoundaries(rows) ==
    IF rows = {} THEN "NO_ROWS"
    ELSE VerifyExactRestRows({r \in rows :
            \/ \A q \in rows : r.slot <= q.slot
            \/ \A q \in rows : r.slot >= q.slot})

\* Mutant: a gap the REST interface fills is reported as absent.
VerifyRestGapAbsenceTrusting(gaps) ==
    [status |-> "ALL_CONFIRMED_ABSENT", absent |-> gaps]

VerifyRestGapAbsence(gaps) ==
    LET absent == gaps \ {r.slot : r \in rest}
    IN  [status |-> IF absent = gaps THEN "ALL_CONFIRMED_ABSENT"
                    ELSE "PRESENT_CONFLICT",
         absent |-> absent]

GapVerification(gaps, verify) ==
    IF gaps = {} THEN [status |-> "NO_GAPS", absent |-> {}]
    ELSE IF ~verify THEN [status |-> "NOT_RUN", absent |-> {}]
    ELSE VerifyRestGapAbsence(gaps)

AcquisitionStatus(boundary, duplicates, gaps, gapStatus) ==
    CASE boundary = "MISMATCH" -> "QUARANTINED_SOURCE_CONFLICT"
      [] boundary # "MISMATCH" /\ duplicates > 0 ->
            "ACQUIRED_WITH_STRUCTURAL_ANOMALY"
      [] boundary # "MISMATCH" /\ duplicates = 0 /\ gaps # {}
            /\ gapStatus # "ALL_CONFIRMED_ABSENT" ->
            "ACQUIRED_WITH_STRUCTURAL_ANOMALY"
      [] OTHER -> IF boundary \in {"MATCH", "NOT_RUN"}
                  THEN "ACQUIRED_NEEDS_CRL003"
                  ELSE "ACQUIRED_VERIFICATION_INCOMPLETE"

OverallStatus(entries) ==
    IF Len(entries) # Len(Datasets) THEN "INCOMPLETE"
    ELSE IF \E i \in 1..Len(entries) :
                entries[i].status = "QUARANTINED_SOURCE_CONFLICT"
         THEN "COMPLETE_WITH_QUARANTINE"
    ELSE IF \E i \in 1..Len(entries) :
                entries[i].status # "ACQUIRED_NEEDS_CRL003"
         THEN "COMPLETE_WITH_ANOMALY"
    ELSE "COMPLETE"

(***************************************************************************)
(* The tree.                                                               *)
(***************************************************************************)
Kinds == {"zip", "checksum", "csv", "canonical", "dataset", "event",
          "quality", "admission"}

Sound(kind, file) == file \in tree[kind] /\ file \notin rot[kind]

\* Writing over an existing file with other bytes is refused.
Conflict(kind, file) == file \in rot[kind]

WriteImmutable(kind, file) ==
    /\ ~Conflict(kind, file)
    /\ tree' = [tree EXCEPT ![kind] = @ \cup {file}]

Idle == [command |-> "none"]

Init ==
    /\ rest \in Rests
    /\ \E p \in Publications :
          published = [o \in Objects |-> [zip |-> p[o], sum |-> p[o]]]
    /\ tree = [k \in Kinds |-> {}] /\ rot = [k \in Kinds |-> {}]
    /\ pc = "idle" /\ job = Idle
    /\ loaded = {}
    /\ runs = 0 /\ revisions = 0

(***************************************************************************)
(* External: the publisher replaces an object, then its checksum file.     *)
(***************************************************************************)
Revise(o) ==
    /\ revisions < MaxRevisions
    /\ published[o].sum = published[o].zip
    /\ \E p \in Publications :
          /\ p[o] # published[o].zip
          /\ published' = [published EXCEPT ![o].zip = p[o]]
    /\ revisions' = revisions + 1
    /\ UNCHANGED <<rest, tree, rot, pc, job, loaded, runs>>

ReviseChecksum(o) ==
    /\ published[o].sum # published[o].zip
    /\ published' = [published EXCEPT ![o].sum = published[o].zip]
    /\ UNCHANGED <<rest, tree, rot, pc, job, loaded, runs, revisions>>

\* External: a file of the tree loses its bytes.
Decay(kind) ==
    /\ \A k \in Kinds : rot[k] = {}
    /\ MaxRot > 0
    /\ \E f \in tree[kind] : rot' = [rot EXCEPT ![kind] = {f}]
    /\ UNCHANGED <<published, rest, tree, pc, job, loaded, runs, revisions>>

(***************************************************************************)
(* CRL-002: acquire-event.                                                 *)
(***************************************************************************)
BeginDataset(j, n) ==
    [j EXCEPT !.dataset = n, !.object = 1, !.rows = <<>>, !.sources = <<>>,
              !.sum = {}, !.zip = {}]

AcquireEvent ==
    /\ pc = "idle" /\ runs < MaxRuns
    /\ \E now \in Clocks, verify \in BOOLEAN :
          job' = [command |-> "acquire", retrieved |-> now, verify |-> verify,
                  dataset |-> 1, object |-> 1, rows |-> <<>>, sources |-> <<>>,
                  sum |-> {}, zip |-> {}, entries |-> <<>>,
                  rowset |-> {}, boundary |-> "NOT_RUN"]
    /\ pc' = "checksum" /\ runs' = runs + 1
    /\ UNCHANGED <<published, rest, tree, rot, loaded, revisions>>

Pair == Datasets[job.dataset]

Plan == PlanDataset(Pair)

Current == [of |-> Pair, object |-> Plan[job.object]]

NextDataset(j) ==
    IF job.dataset = Len(Datasets)
    THEN pc' = "eventManifest" /\ job' = j
    ELSE pc' = "checksum" /\ job' = BeginDataset(j, job.dataset + 1)

\* An AcquisitionError leaves the dataset out of the event; the loop goes on.
DatasetFails ==
    /\ NextDataset(job)
    /\ UNCHANGED <<published, rest, tree, rot, loaded, runs, revisions>>

\* A checksum file that was fetched, or a transport that failed after its
\* bounded retries.
FetchChecksum ==
    /\ pc = "checksum"
    /\ \/ /\ job' = [job EXCEPT !.sum = published[Current].sum]
          /\ pc' = "archive"
          /\ UNCHANGED <<published, rest, tree, rot, loaded, runs, revisions>>
       \/ DatasetFails

ZipFile(o, z) == [of |-> o.of, object |-> o.object, rows |-> z]

ReadCachedZip ==
    /\ pc = "archive"
    /\ ZipFile(Current, job.sum) \in tree["zip"]
    /\ IF Sound("zip", ZipFile(Current, job.sum))
       THEN /\ job' = [job EXCEPT !.zip = job.sum]
            /\ pc' = "verify"
            /\ UNCHANGED <<published, rest, tree, rot, loaded, runs, revisions>>
       ELSE DatasetFails

FetchArchive ==
    /\ pc = "archive"
    /\ ZipFile(Current, job.sum) \notin tree["zip"]
    /\ \/ /\ published[Current].zip = job.sum
          /\ job' = [job EXCEPT !.zip = published[Current].zip]
          /\ pc' = "verify"
          /\ UNCHANGED <<published, rest, tree, rot, loaded, runs, revisions>>
       \/ DatasetFails

\* Extraction, normalisation, and the REST check of the rows whose close time
\* was wrong.
NormalizeArchive ==
    /\ pc = "verify"
    /\ LET rows == Selected(Pair, Plan[job.object], job.zip)
           odd == Anomalies(rows)
       IN  IF /\ Readable(job.zip)
              /\ odd # {} => job.verify /\ VerifyExactRestRows(odd) = "MATCH"
           THEN /\ job' = [job EXCEPT
                      !.rows = Append(@, Canonical(rows)),
                      !.sources = Append(@,
                          [expected |-> job.sum, downloaded |-> job.zip,
                           normalized |-> Cardinality(odd),
                           verified |-> Cardinality(odd)])]
                /\ pc' = "storeZip"
                /\ UNCHANGED <<published, rest, tree, rot, loaded, runs,
                               revisions>>
           ELSE DatasetFails

StoreStep(from, to, kind) ==
    /\ pc = from
    /\ IF Conflict(kind, ZipFile(Current, job.zip))
       THEN DatasetFails
       ELSE /\ WriteImmutable(kind, ZipFile(Current, job.zip))
            /\ pc' = to
            /\ UNCHANGED <<published, rest, rot, job, loaded, runs, revisions>>

StoreZip == StoreStep("storeZip", "storeChecksum", "zip")

StoreChecksum == StoreStep("storeChecksum", "storeCsv", "checksum")

StoreCsv ==
    /\ pc = "storeCsv"
    /\ IF Conflict("csv", ZipFile(Current, job.zip))
       THEN DatasetFails
       ELSE /\ WriteImmutable("csv", ZipFile(Current, job.zip))
            /\ IF job.object < Len(Plan)
               THEN pc' = "checksum" /\ job' = [job EXCEPT !.object = @ + 1]
               ELSE pc' = "merge" /\ UNCHANGED job
            /\ UNCHANGED <<published, rest, rot, loaded, runs, revisions>>

AllRows == UNION ToSet(job.rows)

Duplicates == FoldSeq(LAMBDA s, n : n + Cardinality(s), 0, job.rows)
              - Cardinality(AllRows)

\* The rows are merged by open time; two different rows for one slot are
\* refused.  The gaps are then looked up in REST and the canonical file is
\* written.
MergeRows ==
    /\ pc = "merge"
    /\ LET file == [of |-> Pair, rows |-> AllRows]
       IN  IF \/ \E r, q \in AllRows : r.slot = q.slot /\ r # q
              \/ Conflict("canonical", file)
           THEN DatasetFails
           ELSE \/ /\ WriteImmutable("canonical", file)
                   /\ job' = [job EXCEPT !.rowset = AllRows]
                   /\ pc' = "boundary"
                   /\ UNCHANGED <<published, rest, rot, loaded, runs, revisions>>
                \/ job.verify /\ DatasetFails

CheckBoundary ==
    /\ pc = "boundary"
    /\ LET found == IF job.verify THEN VerifyRestBoundaries(job.rowset)
                    ELSE "NOT_RUN"
       IN  IF found = "ERROR" THEN DatasetFails
           ELSE \/ /\ job' = [job EXCEPT !.boundary = found]
                   /\ pc' = "datasetManifest"
                   /\ UNCHANGED <<published, rest, tree, rot, loaded, runs,
                                  revisions>>
                \/ job.verify /\ DatasetFails

MissingSlots(rows) == Expected \ {r.slot : r \in rows}

DatasetManifest ==
    LET gaps == MissingSlots(job.rowset)
        evidence == GapVerification(gaps, job.verify)
    IN  [of |-> Pair, retrieved |-> job.retrieved, sources |-> job.sources,
         rows |-> job.rowset, duplicates |-> Duplicates, gaps |-> gaps,
         evidence |-> evidence, boundary |-> job.boundary,
         status |-> AcquisitionStatus(job.boundary, Duplicates, gaps,
                                      evidence.status)]

WriteDatasetManifest ==
    /\ pc = "datasetManifest"
    /\ IF Conflict("dataset", DatasetManifest)
       THEN DatasetFails
       ELSE /\ WriteImmutable("dataset", DatasetManifest)
            /\ NextDataset([job EXCEPT !.entries = Append(@, DatasetManifest)])
            /\ UNCHANGED <<published, rest, rot, loaded, runs, revisions>>

EventManifest ==
    [retrieved |-> job.retrieved, status |-> OverallStatus(job.entries),
     datasets |-> job.entries]

Finish == pc' = "idle" /\ job' = Idle

\* A conflict here ends the command.
WriteEventManifest ==
    /\ pc = "eventManifest"
    /\ Finish
    /\ \/ WriteImmutable("event", EventManifest)
       \/ Conflict("event", EventManifest) /\ UNCHANGED tree
    /\ UNCHANGED <<published, rest, rot, loaded, runs, revisions>>

(***************************************************************************)
(* CRL-003: validate-event.                                                *)
(***************************************************************************)
\* The evidence about the gaps has to name exactly the slots that are missing.
GapEvidence(m, gaps) ==
    IF gaps = {} THEN m.evidence.status = "NO_GAPS"
    ELSE /\ m.evidence.status = "ALL_CONFIRMED_ABSENT"
         /\ m.evidence.absent = gaps

\* The checks of one canonical row: its prices, its close against the time of
\* retrieval, and its place in the transport range.
RowPasses(m, r) ==
    /\ r.val > 0
    /\ CloseOf(r.slot) <= m.retrieved
    /\ r.slot \in Expected

InspectCanonical(m) ==
    /\ m.duplicates = 0
    /\ Sound("canonical", [of |-> m.of, rows |-> m.rows])
    /\ m.rows # {}
    /\ \A r \in m.rows : RowPasses(m, r)
    /\ GapEvidence(m, MissingSlots(m.rows))

CheckSourceObjects(m) ==
    /\ Len(m.sources) > 0
    /\ \A i \in 1..Len(m.sources) :
          /\ m.sources[i].expected = m.sources[i].downloaded
          /\ m.sources[i].normalized = m.sources[i].verified

ValidateDataset(m) ==
    /\ Sound("dataset", m)
    /\ m.status = "ACQUIRED_NEEDS_CRL003"
    /\ m.boundary = "MATCH"
    /\ CheckSourceObjects(m)
    /\ InspectCanonical(m)

QualityReport(m) == [input |-> m, pass |-> ValidateDataset(m),
                     admitted |-> ValidateDataset(m) /\ ReplayEligible]

\* The event manifest is read and checked; anything but a complete event is
\* refused without a report.
ValidateEvent ==
    /\ pc = "idle" /\ runs < MaxRuns
    /\ \E e \in tree["event"] :
          /\ Sound("event", e) /\ e.status = "COMPLETE"
          /\ Len(e.datasets) = Len(Datasets)
          /\ job' = [command |-> "validate", event |-> e, reports |-> <<>>]
    /\ pc' = "report" /\ runs' = runs + 1
    /\ UNCHANGED <<published, rest, tree, rot, loaded, revisions>>

WriteReport ==
    /\ pc = "report"
    /\ LET report == QualityReport(job.event.datasets[Len(job.reports) + 1])
       IN  IF Conflict("quality", report)
           THEN Finish /\ UNCHANGED tree
           ELSE /\ WriteImmutable("quality", report)
                /\ job' = [job EXCEPT !.reports = Append(@, report)]
                /\ pc' = IF Len(job.reports) + 1 = Len(Datasets)
                         THEN "admission" ELSE "report"
    /\ UNCHANGED <<published, rest, rot, loaded, runs, revisions>>

Admission ==
    LET pass == \A i \in 1..Len(job.reports) : job.reports[i].pass
    IN  [event |-> job.event, reports |-> job.reports, pass |-> pass,
         admitted |-> pass /\ ReplayEligible]

WriteAdmission ==
    /\ pc = "admission"
    /\ Finish
    /\ \/ WriteImmutable("admission", Admission)
       \/ Conflict("admission", Admission) /\ UNCHANGED tree
    /\ UNCHANGED <<published, rest, rot, loaded, runs, revisions>>

(***************************************************************************)
(* CRL-004: the load of an admitted event.                                 *)
(***************************************************************************)
LoadCanonicalCandles(report) ==
    LET m == report.input
        gaps == MissingSlots(m.rows)
        first == Min({r.slot : r \in m.rows})
        last == Max({r.slot : r \in m.rows})
    IN  [of |-> m.of, rows |-> m.rows,
         ok |-> /\ Sound("canonical", [of |-> m.of, rows |-> m.rows])
                /\ IF m.gaps = {}
                   THEN {r.slot : r \in m.rows} = first..last
                   ELSE /\ m.evidence.status = "ALL_CONFIRMED_ABSENT"
                        /\ m.gaps = gaps
                        /\ m.evidence.absent = gaps]

LoadAdmittedEvent ==
    /\ pc = "idle"
    /\ \E a \in tree["admission"] :
          /\ Sound("admission", a)
          /\ a.admitted
          /\ Sound("event", a.event) /\ a.event.status = "COMPLETE"
          /\ \A i \in 1..Len(a.reports) :
                /\ a.reports[i].admitted
                /\ Sound("quality", a.reports[i])
                /\ Sound("dataset", a.reports[i].input)
                /\ LoadCanonicalCandles(a.reports[i]).ok
          /\ loaded' = {LoadCanonicalCandles(a.reports[i])
                           : i \in 1..Len(a.reports)}
    /\ UNCHANGED <<published, rest, tree, rot, pc, job, runs, revisions>>

\* The process dies; the tree stays as it is.
Crash ==
    /\ pc # "idle"
    /\ Finish
    /\ UNCHANGED <<published, rest, tree, rot, loaded, runs, revisions>>

Next ==
    \/ AcquireEvent \/ FetchChecksum \/ ReadCachedZip \/ FetchArchive
    \/ NormalizeArchive \/ StoreZip \/ StoreChecksum \/ StoreCsv
    \/ MergeRows \/ CheckBoundary \/ WriteDatasetManifest \/ WriteEventManifest
    \/ ValidateEvent \/ WriteReport \/ WriteAdmission \/ LoadAdmittedEvent
    \/ Crash
    \/ \E o \in Objects : Revise(o) \/ ReviseChecksum(o)
    \/ \E k \in Kinds : Decay(k)

Spec == Init /\ [][Next]_vars

(***************************************************************************)
(* Properties.                                                             *)
(***************************************************************************)
\* What an admission vouches for: a positive, closed candle in every slot of
\* the registered range except those REST does not have either, and outer
\* candles that are the ones of REST.
Verified(m) ==
    /\ \A r \in m.rows : r.val > 0 /\ CloseOf(r.slot) <= m.retrieved
    /\ {r.slot : r \in m.rows} \subseteq Expected
    /\ MissingSlots(m.rows) \cap {q.slot : q \in rest} = {}
    /\ \A r \in m.rows :
          (\A q \in m.rows : r.slot <= q.slot) \/ (\A q \in m.rows : r.slot >= q.slot)
              => r \in Canonical(rest)

\* An event CRL-003 admits is one whose every dataset is verified, whatever
\* the publisher changed during the download, whichever runs died on the way
\* and whatever an earlier run left in the cache.
AdmittedIsVerified ==
    \A a \in tree["admission"] : a.admitted =>
        /\ Len(a.event.datasets) = Len(Datasets)
        /\ \A i \in 1..Len(a.event.datasets) : Verified(a.event.datasets[i])

\* What a replay is given is, candle for candle, what CRL-003 admitted, even
\* when a file was damaged after the admission.
LoadedIsAdmitted ==
    \A l \in loaded : \E a \in tree["admission"] :
        a.admitted /\ \E i \in 1..Len(a.reports) :
            a.reports[i].input.of = l.of /\ a.reports[i].input.rows = l.rows

\* A manifest is written after everything it names: a crash never leaves a
\* manifest that refers to a file that is not in the tree.
ReferencesPresent ==
    /\ \A m \in tree["dataset"] : [of |-> m.of, rows |-> m.rows] \in tree["canonical"]
    /\ \A e \in tree["event"] : ToSet(e.datasets) \subseteq tree["dataset"]
    /\ \A a \in tree["admission"] : /\ ToSet(a.reports) \subseteq tree["quality"]
                                    /\ a.event \in tree["event"]

\* What reaches a replay is sound: admitted data are verified, loaded data are the
\* admitted ones, and no manifest names a file that is missing.
AdmissionIsSound == AdmittedIsVerified /\ LoadedIsAdmitted /\ ReferencesPresent

\* The objects of a plan never supply the same candle twice: a monthly file and
\* the daily files that correct it do not overlap, and no day is left out.
OneSourcePerDay ==
    job.command = "acquire" =>
        /\ \A i, k \in 1..Len(job.rows) : i # k =>
              {r.slot : r \in job.rows[i]} \cap {r.slot : r \in job.rows[k]} = {}
        /\ pc = "boundary" => \A s \in Expected :
              \/ s \in {r.slot : r \in job.rowset}
              \/ \E i \in 1..Len(Plan) :
                    /\ DayOf(s) \in DaysOf(Plan[i])
                    /\ Plan[i].cadence = "daily" \/ DayOf(s) \notin Overrides[Pair]
                    /\ s \notin {r.slot : r \in job.sources[i].downloaded}

=============================================================================
