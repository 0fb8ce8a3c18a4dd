--------------------------- MODULE ForwardEvidence ---------------------------
(***************************************************************************)
(* The forward evidence of phase P10: the hourly collector                 *)
(* (yatl/validation/collector_cli.py, ingestion.py, forward_store.py) that *)
(* fills a SQLite store and publishes a snapshot file, and the read-only   *)
(* commands (cli.py, monitor.py) that copy both files while the collector  *)
(* may run, and publish an export and a dashboard.                         *)
(*                                                                         *)
(* A dataset is one symbol at one interval; a row is its open time.  Rows  *)
(* of closed candles never change, so a dataset is its set of rows.        *)
(***************************************************************************)
EXTENDS Naturals, Sequences, FiniteSets

CONSTANTS
  Collectors,     \* processes running collect_once (timer and operator)
  Readers,        \* processes running status, export or the monitor
  Datasets,       \* the sequence of datasets, in the order of the two loops
  Duration,       \* Datasets -> bar length
  Warmup,         \* time from the window start to the first legal decision
  MaxClock,       \* bound on the exchange clock
  MaxCollectorCrashes,     \* bound on process crashes
  Absent            \* a file, lock or snapshot that is not there

ASSUME DatasetsAssumption ==
  /\ Datasets \in Seq(DOMAIN Duration) /\ Len(Datasets) > 0
  /\ \A d \in DOMAIN Duration : Duration[d] \in Nat \ {0}
  /\ Warmup \in Nat /\ MaxClock \in Nat /\ MaxCollectorCrashes \in Nat

VARIABLES
  clock,        \* the exchange clock
  owner,        \* the window the database is tagged with, or Absent
  dbFile,         \* rows in the main database file, per dataset
  wal,          \* rows committed to the write-ahead log only
  sidecar,      \* the -wal/-shm files exist
  holder,       \* the collector holding the flock, or Absent
  snapshot,     \* the published snapshot file, or Absent
  collector,    \* the state of each collector process
  reader,       \* the state of each reading process
  dashboard,    \* the snapshot time the dashboard shows, or Absent
  export,       \* the exported audit package, or Absent
  whole,        \* every content the main file had while no sidecar existed
  collectorCrashes

evidenceVars == <<clock, owner, dbFile, wal, sidecar, holder, snapshot, collector, reader,
          dashboard, export, whole, collectorCrashes>>

DatasetNames == {Datasets[i] : i \in DOMAIN Datasets}

\* What is not there is no collector, snapshot or dashboard.
ASSUME AbsentAssumption ==
  /\ Absent \notin Collectors
  /\ Absent \notin [at : Nat, end : [DatasetNames -> Nat]]
  /\ Absent \notin [at : Nat, ready : BOOLEAN]

\* The last bar boundary at or before t.
Cutoff(d, t) == (t \div Duration[d]) * Duration[d]

\* The identity of the sealed window: its digest binds the start, the symbols,
\* the intervals, the frozen candidate and the gate registry.
Seal == "sealed"

WindowStart == 0

\* A row the sealed window admits: aligned, at or after its start.
Admitted(d, r) == r >= WindowStart /\ r % Duration[d] = 0

\* The open times of the admitted closed candles of d up to end.
RangeTo(d, end) == {r \in 0..MaxClock : Admitted(d, r) /\ r < end}

Stored(d) == dbFile[d] \cup wal[d]

\* A snapshot names the server time and, per dataset, the rows it vouches for.
SnapshotAt(t) == [at |-> t, end |-> [d \in DatasetNames |-> Cutoff(d, t)]]

IdleCollector == [pc |-> "idle", prev |-> Absent, time |-> 0, next |-> 1]

IdleReader ==
  [pc |-> "idle", snap |-> Absent, copy |-> [d \in DatasetNames |-> {}], next |-> 1]

\* The path names no database yet, or a candle database of another phase.
EvidenceInit ==
  /\ clock = 0
  /\ owner = Absent
  /\ dbFile \in {[d \in DatasetNames |-> {}], [d \in DatasetNames |-> {0}]}
  /\ wal = [d \in DatasetNames |-> {}]
  /\ sidecar = FALSE
  /\ holder = Absent
  /\ snapshot = Absent
  /\ collector = [c \in Collectors |-> IdleCollector]
  /\ reader = [r \in Readers |-> IdleReader]
  /\ dashboard = Absent
  /\ export = Absent
  /\ whole = {dbFile}
  /\ collectorCrashes = 0

(***************************************************************************)
(* The collector                                                           *)
(***************************************************************************)
TakesLockNever(c) == TRUE

TakesLockIfClean(c) == holder = Absent /\ ~sidecar

\* The exclusive non-blocking flock on the lock file beside the snapshot;
\* a second collector leaves with ALREADY_RUNNING.
TakesLock(c) == holder = Absent

\* _bind_metadata: a database without the tag is taken over only when it holds
\* no candle; a tagged one must carry the sealed window.
Binds == owner = Seal \/ (owner = Absent /\ \A d \in DatasetNames : Stored(d) = {})

\* Enter the lock, read the previous snapshot, open the store (which creates
\* the sidecar files of the write-ahead log).
BeginCollect(c) ==
  /\ collector[c].pc = "idle"
  /\ TakesLock(c)
  /\ Binds
  /\ owner' = Seal
  /\ holder' = c
  /\ sidecar' = TRUE
  /\ collector' = [collector EXCEPT ![c] =
                     [IdleCollector EXCEPT !.pc = "clock", !.prev = snapshot]]
  /\ UNCHANGED <<clock, dbFile, wal, snapshot, reader, dashboard, export, whole,
                 collectorCrashes>>

\* Every interval has produced a closed candle since the window start.
EveryIntervalClosed(t) == \A d \in DatasetNames : Cutoff(d, t) > 0

\* Read the server time once, from a server that may lag by one unit.
ReadServerTime(c) ==
  /\ collector[c].pc = "clock"
  /\ \E t \in {clock, IF clock > 0 THEN clock - 1 ELSE 0} :
       collector' = [collector EXCEPT ![c].time = t,
                       ![c].pc = IF EveryIntervalClosed(t) THEN "load" ELSE "fail"]
  /\ UNCHANGED <<owner, clock, dbFile, wal, sidecar, holder, snapshot, reader, dashboard,
                 export, whole, collectorCrashes>>

\* Only gaps between two rows.
PassesGapsInside(d, end, rows) ==
  /\ RangeTo(d, end) # {} => rows # {}
  /\ \A r \in RangeTo(d, end) : (\E a, b \in rows : a <= r /\ r <= b) => r \in rows

\* build_health_report and the quality gate: the stored range has every
\* expected row.
PassesQualityGate(d, end, rows) == rows = RangeTo(d, end)

\* One turn of the loop over datasets: download what the store does not know
\* (the exchange may return fewer rows), write it in one transaction, read the
\* range back, gate it.
CollectDataset(c) ==
  /\ collector[c].pc = "load"
  /\ LET d == Datasets[collector[c].next]
         end == Cutoff(d, collector[c].time)
         missing == RangeTo(d, end) \ Stored(d)
     IN  \E rows \in {missing} \cup {missing \ {r} : r \in missing} :
           /\ wal' = [wal EXCEPT ![d] = @ \cup rows]
           /\ collector' = [collector EXCEPT
                ![c].next = @ + 1,
                ![c].pc = IF ~PassesQualityGate(d, end, RangeTo(d, end) \cap (Stored(d) \cup rows))
                          THEN "fail"
                          ELSE IF collector[c].next = Len(Datasets) THEN "close" ELSE "load"]
  /\ UNCHANGED <<owner, clock, dbFile, sidecar, holder, snapshot, reader, dashboard, export,
                 whole, collectorCrashes>>

\* Closing the only connection checkpoints the log and removes the sidecars;
\* when another process still has the store open they stay.
CloseStore(c) ==
  /\ collector[c].pc \in {"close", "fail"}
  /\ LET others == \E o \in Collectors \ {c} :
                     collector[o].pc \in {"clock", "load", "close", "fail"}
     IN  /\ dbFile' = IF others THEN dbFile ELSE [d \in DatasetNames |-> Stored(d)]
         /\ wal' = IF others THEN wal ELSE [d \in DatasetNames |-> {}]
         /\ sidecar' = others
         /\ whole' = IF others THEN whole ELSE whole \cup {dbFile'}
  /\ holder' = IF collector[c].pc = "fail" /\ holder = c THEN Absent ELSE holder
  /\ collector' = [collector EXCEPT ![c] =
                     IF @.pc = "fail" THEN IdleCollector
                     ELSE [@ EXCEPT !.pc = "publish"]]
  /\ UNCHANGED <<owner, clock, snapshot, reader, dashboard, export, collectorCrashes>>

\* The new snapshot may not be older than the one read under the lock; at the
\* same server time it must be the same snapshot.
AcceptsSuccessor(prev, new) ==
  prev # Absent => /\ new.at >= prev.at
                 /\ (new.at = prev.at => new = prev)

\* _atomic_replace_snapshot (a rename) and leaving the lock.
PublishSnapshot(c) ==
  /\ collector[c].pc = "publish"
  /\ LET new == SnapshotAt(collector[c].time)
     IN  snapshot' = IF AcceptsSuccessor(collector[c].prev, new) THEN new ELSE snapshot
  /\ holder' = IF holder = c THEN Absent ELSE holder
  /\ collector' = [collector EXCEPT ![c] = IdleCollector]
  /\ UNCHANGED <<owner, clock, dbFile, wal, sidecar, reader, dashboard, export, whole, collectorCrashes>>

\* A checkpoint of the log while the store is open.
Checkpoint ==
  /\ sidecar
  /\ \E d \in DatasetNames : wal[d] # {}
  /\ dbFile' = [d \in DatasetNames |-> Stored(d)]
  /\ wal' = [d \in DatasetNames |-> {}]
  /\ UNCHANGED <<owner, clock, sidecar, holder, snapshot, collector, reader, dashboard,
                 export, whole, collectorCrashes>>

\* A collector dies: the kernel drops its flock, committed rows and the
\* sidecar files stay.
CrashCollector(c) ==
  /\ collectorCrashes < MaxCollectorCrashes
  /\ collector[c].pc # "idle"
  /\ collectorCrashes' = collectorCrashes + 1
  /\ holder' = IF holder = c THEN Absent ELSE holder
  /\ collector' = [collector EXCEPT ![c] = IdleCollector]
  /\ UNCHANGED <<owner, clock, dbFile, wal, sidecar, snapshot, reader, dashboard, export, whole>>

(***************************************************************************)
(* The read-only commands                                                  *)
(***************************************************************************)
\* _load_snapshot, before the database is looked at.
LoadSnapshot(r) ==
  /\ reader[r].pc = "idle"
  /\ snapshot # Absent
  /\ reader' = [reader EXCEPT ![r] = [IdleReader EXCEPT !.pc = "first", !.snap = snapshot]]
  /\ UNCHANGED <<owner, clock, dbFile, wal, sidecar, holder, snapshot, collector, dashboard,
                 export, whole, collectorCrashes>>

\* _active_sqlite_sidecar: before the copy, after it, and after the second
\* digest; a sidecar ends the command with SOURCE_REJECTED.
CheckSidecar(r) ==
  /\ reader[r].pc \in {"first", "second", "third"}
  /\ reader' = [reader EXCEPT ![r] =
       IF sidecar THEN IdleReader
       ELSE [@ EXCEPT !.next = 1,
                      !.pc = [first |-> "copy", second |-> "digest",
                              third |-> "verify"][reader[r].pc]]]
  /\ UNCHANGED <<owner, clock, dbFile, wal, sidecar, holder, snapshot, collector, dashboard,
                 export, whole, collectorCrashes>>

\* The streamed copy, a part of the file at a time.
CopyPart(r) ==
  /\ reader[r].pc = "copy"
  /\ LET d == Datasets[reader[r].next]
     IN  reader' = [reader EXCEPT ![r].copy[d] = dbFile[d],
                       ![r].next = @ + 1,
                       ![r].pc = IF reader[r].next = Len(Datasets) THEN "second" ELSE @]
  /\ UNCHANGED <<owner, clock, dbFile, wal, sidecar, holder, snapshot, collector, dashboard,
                 export, whole, collectorCrashes>>

MatchesCopy(r, d) == reader[r].copy[d] = dbFile[d]

\* The second digest over the source must equal the digest of the copy.
DigestPart(r) ==
  /\ reader[r].pc = "digest"
  /\ LET d == Datasets[reader[r].next]
     IN  reader' = [reader EXCEPT ![r] =
           IF ~MatchesCopy(r, d) THEN IdleReader
           ELSE [@ EXCEPT !.next = reader[r].next + 1,
                          !.pc = IF reader[r].next = Len(Datasets) THEN "third" ELSE "digest"]]
  /\ UNCHANGED <<owner, clock, dbFile, wal, sidecar, holder, snapshot, collector, dashboard,
                 export, whole, collectorCrashes>>

\* The rows the snapshot vouches for are in the copy.
CopyHolds(r) ==
  \A d \in DatasetNames : RangeTo(d, reader[r].snap.end[d]) \subseteq reader[r].copy[d]

\* _verify_snapshot_store on the copy.
VerifyCopy(r) ==
  /\ reader[r].pc = "verify"
  /\ reader' = [reader EXCEPT ![r] =
                  IF CopyHolds(r) THEN [@ EXCEPT !.pc = "ready"] ELSE IdleReader]
  /\ UNCHANGED <<owner, clock, dbFile, wal, sidecar, holder, snapshot, collector, dashboard,
                 export, whole, collectorCrashes>>

\* _warmup_ready: the common end lies beyond the first legal decision.
WarmupReady(s) == \A d \in DatasetNames : s.end[d] > Warmup

\* build_dashboard: os.replace, whatever the dashboard showed before.
WriteDashboard(r) ==
  /\ reader[r].pc = "ready"
  /\ dashboard' = [at |-> reader[r].snap.at, ready |-> WarmupReady(reader[r].snap)]
  /\ reader' = [reader EXCEPT ![r] = IdleReader]
  /\ UNCHANGED <<owner, clock, dbFile, wal, sidecar, holder, snapshot, collector, export, whole,
                 collectorCrashes>>

\* _atomic_no_overwrite: os.link fails when the target exists.
CreatesExport == export = Absent

\* _export_from_bundle: nothing before the warm-up, one package for good.
WriteExport(r) ==
  /\ reader[r].pc = "ready"
  /\ export' = IF WarmupReady(reader[r].snap) /\ CreatesExport
               THEN [snap |-> reader[r].snap, copy |-> reader[r].copy] ELSE export
  /\ reader' = [reader EXCEPT ![r] = IdleReader]
  /\ UNCHANGED <<owner, clock, dbFile, wal, sidecar, holder, snapshot, collector, dashboard,
                 whole, collectorCrashes>>

ClockTick ==
  /\ clock < MaxClock
  /\ clock' = clock + 1
  /\ UNCHANGED <<owner, dbFile, wal, sidecar, holder, snapshot, collector, reader, dashboard,
                 export, whole, collectorCrashes>>

CollectorStep(c) ==
  \/ BeginCollect(c) \/ ReadServerTime(c) \/ CollectDataset(c) \/ CloseStore(c)
  \/ PublishSnapshot(c) \/ CrashCollector(c)

ReaderStep(r) ==
  \/ LoadSnapshot(r) \/ CheckSidecar(r) \/ CopyPart(r) \/ DigestPart(r)
  \/ VerifyCopy(r) \/ WriteDashboard(r) \/ WriteExport(r)

EvidenceNext ==
  \/ ClockTick
  \/ Checkpoint
  \/ \E c \in Collectors : CollectorStep(c)
  \/ \E r \in Readers : ReaderStep(r)

EvidenceSpec == EvidenceInit /\ [][EvidenceNext]_evidenceVars

(***************************************************************************)
(* Fairness.  The timers start the collector and the dashboard builder     *)
(* every hour and a started process keeps running.  Strong fairness says   *)
(* that the exchange does not fail the current range of the same dataset   *)
(* at every hour, and                                                      *)
(* that the builder, started two minutes after the collector, does not     *)
(* meet an open store at the same one of its steps at every hour.          *)
(***************************************************************************)
ServesWholeRange(c, i) ==
  /\ CollectDataset(c)
  /\ collector[c].next = i /\ collector[c].time = clock
  /\ collector'[c].pc # "fail"

ReadsCurrentTime(c) == ReadServerTime(c) /\ collector'[c].time = clock

\* The dashboard builder at step pc, while the collector is at rest.
BuildsAlone(r, pc) ==
  /\ reader[r].pc = pc /\ ~sidecar
  /\ \/ LoadSnapshot(r) \/ CheckSidecar(r) \/ CopyPart(r) \/ DigestPart(r)
     \/ VerifyCopy(r) \/ WriteDashboard(r)

BuilderSteps == {"idle", "first", "copy", "second", "digest", "third", "verify", "ready"}

\* What is owed once it stays possible.
Duty(c, k) ==
  \/ k = "begin" /\ BeginCollect(c)
  \/ k = "close" /\ CloseStore(c)
  \/ k = "publish" /\ PublishSnapshot(c)
  \/ k = "collect" /\ CollectDataset(c)

Duties == {"begin", "close", "publish", "collect"}

EvidenceFairness ==
  /\ WF_evidenceVars(ClockTick)
  /\ \A c \in Collectors :
       /\ \A k \in Duties : WF_evidenceVars(Duty(c, k))
       /\ SF_evidenceVars(ReadsCurrentTime(c))
       /\ \A i \in DOMAIN Datasets : SF_evidenceVars(ServesWholeRange(c, i))
  /\ \A r \in Readers, pc \in BuilderSteps : SF_evidenceVars(BuildsAlone(r, pc))

FairEvidenceSpec == EvidenceSpec /\ EvidenceFairness

(***************************************************************************)
(* Properties                                                              *)
(***************************************************************************)
Rows == SUBSET (0..MaxClock)

Contents == [DatasetNames -> Rows]

\* Stated apart from the code's test: an hour of data for each interval.
EveryIntervalComplete(t) == \A d \in DatasetNames : RangeTo(d, Cutoff(d, t)) # {}

EvidenceSnapshots == {SnapshotAt(t) : t \in {u \in 0..MaxClock : EveryIntervalComplete(u)}}

\* Every variable keeps to its type: stored rows are open times within the
\* clock's bound, a snapshot is one the collector can build, and the processes
\* are at a step of collect_once or of the read-only pipeline.
EvidenceTypes ==
  /\ clock \in 0..MaxClock /\ owner \in {Seal, Absent}
  /\ dbFile \in Contents /\ wal \in Contents /\ whole \subseteq Contents
  /\ sidecar \in BOOLEAN
  /\ holder \in Collectors \cup {Absent}
  /\ snapshot \in EvidenceSnapshots \cup {Absent}
  /\ \A c \in Collectors :
       /\ collector[c].pc \in {"idle", "clock", "load", "close", "fail", "publish"}
       /\ collector[c].prev \in EvidenceSnapshots \cup {Absent}
       /\ collector[c].time \in 0..MaxClock
       /\ collector[c].next \in 1..(Len(Datasets) + 1)
  /\ \A r \in Readers :
       /\ reader[r].pc \in {"idle", "first", "copy", "second", "digest", "third",
                            "verify", "ready"}
       /\ reader[r].snap \in EvidenceSnapshots \cup {Absent}
       /\ reader[r].copy \in Contents
       /\ reader[r].next \in 1..(Len(Datasets) + 1)
  /\ dashboard \in [at : 0..MaxClock, ready : BOOLEAN] \cup {Absent}
  /\ export \in [snap : EvidenceSnapshots, copy : Contents] \cup {Absent}
  /\ collectorCrashes \in 0..MaxCollectorCrashes

\* Whatever the published snapshot vouches for is durable in the store: the
\* rows were gated and the store closed before the rename, and no crash or
\* failed collection takes one away.
SnapshotIsStored ==
  snapshot # Absent =>
    \A d \in DatasetNames : RangeTo(d, snapshot.end[d]) \subseteq Stored(d)

\* A reader that got through the sidecar checks and the second digest holds the
\* database as it was at one moment between two collections, never a mixture of
\* the pages of two, although it copies without a lock.
CopyIsWhole ==
  \A r \in Readers : reader[r].pc \in {"verify", "ready"} => reader[r].copy \in whole

\* Reading the snapshot before the database is the right order: a copy that is
\* whole always holds the rows of the snapshot read before it, so the read-only
\* commands never refuse healthy evidence (_verify_snapshot_store).
CopyCoversSnapshot ==
  \A r \in Readers : reader[r].pc = "verify" => CopyHolds(r)

\* The published snapshot never goes back in server time, with two collectors,
\* a lagging time server and crashes (collect_once holds one lock from the read
\* of the previous snapshot to the rename).
SnapshotMovesForwardStep ==
  snapshot # Absent => snapshot' # Absent /\ snapshot'.at >= snapshot.at

SnapshotMovesForward == [][SnapshotMovesForwardStep]_evidenceVars

\* The exported audit package is never rewritten (_atomic_no_overwrite), not even
\* by an export started before the first one was linked.
ExportIsFinalStep ==
  export # Absent => export' = export

ExportIsFinal == [][ExportIsFinalStep]_evidenceVars

\* The dashboard never goes back to an older snapshot although build_dashboard
\* replaces the file without looking at it: systemd runs one builder at a time
\* (Readers is a singleton here) and the snapshot it loads never goes back.
DashboardMovesForwardStep ==
  dashboard # Absent => dashboard' # Absent /\ dashboard'.at >= dashboard.at

DashboardMovesForward == [][DashboardMovesForwardStep]_evidenceVars

\* Evidence is what was collected: a snapshot names candles that are stored, and a copy
\* that got through the checks is the database of one moment and covers the snapshot
\* (collect_once, _verify_snapshot_store).
EvidenceIsSound == SnapshotIsStored /\ CopyIsWhole /\ CopyCoversSnapshot

\* One builder of the dashboard at a time (systemd).
OneBuilder == \A p, q \in Readers : p = q

\* Evidence does not go back: the snapshot moves forward, an export is final, and so
\* does the dashboard of one builder (collect_once, _atomic_no_overwrite).
EvidenceIsKeptStep ==
  /\ SnapshotMovesForwardStep
  /\ ExportIsFinalStep
  /\ OneBuilder => DashboardMovesForwardStep

EvidenceIsKept == [][EvidenceIsKeptStep]_evidenceVars

OwnDatabase == owner = Absent /\ \A d \in DatasetNames : dbFile[d] = {}
Replayed == dashboard # Absent /\ dashboard.ready

\* Given a database of its own and a collector and a builder that keep being
\* started, the dashboard eventually shows a replay of evidence beyond the
\* warm-up, in spite of crashes that leave sidecars and a half-filled store.
EventuallyReplayed == OwnDatabase ~> Replayed
=============================================================================
