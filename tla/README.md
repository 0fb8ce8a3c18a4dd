# TLA+ verification of YATL

TLA+ models of the parts of `yahya-ai-trading-lab` (YATL) whose correctness
depends on interleavings, crashes, stale clocks, lost messages, the order of
events in a bar or the limits of a queue; the TLC configurations that check them
on small instances; and TLAPS proofs of their main properties for every value of
the constants.

    tlc -workers 2 -config <X>.cfg <MC module>     # one model-checking run
    tlapm <Module>Proofs.tla                        # one proof module

`PROJECT.json` lists the components, the runs, the source lines every definition
stands for, the hazards with the properties about them, the theorems, and for
each property a wrong version of the code that breaks it.

## 1. Inventory of the system

YATL is a paper-trading and strategy-research laboratory in Python.  It never
trades real money; its product is *evidence*: immutable, hash-identified
artifacts and append-only SQLite stores.  What can go wrong is therefore mostly
of one kind: two writers, or one writer and its own crashed predecessor,
disagreeing about what was accepted.

| Part (sources) | State it keeps | Operations | What is hard about it |
|---|---|---|---|
| **Batch coordinator** (`research/mass_candidate_factory/production_distributed.py`, second half) | SQLite table `batches`: state, owner, lease end, accepted manifest | init, claim (specific / next), heartbeat, pause-request, mark-paused, resume, release, mark-ingested, status | leases against a clock sampled before the write lock is granted; operations of a node that lost its lease; final states |
| **Candidate results** (same file, first half; `models.write_once`) | one immutable JSON file per candidate under a root | write result, completed?, build / verify batch manifest, pause markers | two producers of the same result; crash between look and link |
| **Auto-worker** (`production_worker_orchestrator.py`, `production_worker_runner.py`) | loop position, held batch, consecutive control failures, child process | claim, run a child per micro-shard under heartbeats, deliver | lease lost while a child computes; lost replies; restart by systemd |
| **SSH gateway** (`production_ssh_gateway.py`) | spool files, results root | forced commands; upload = owner check, receive, write artifacts, verify, mark ingested | the owner check is made once, the upload may last an hour; dies between two writes |
| **Worker agent** (`production_worker_agent.py`) | local pause marker | pause, ack-paused, resume, release, upload, claim | two halves (local marker, remote call) with a failure in between |
| **Cloud control plane** (`infra/cloudflare/yatl-coordinator/src/index.js`, `production_worker_client.py`, `production_result_transfer.py`) | D1 table, R2 objects, event log | the coordinator's operations over HTTP, artifact / manifest upload, ready, ingested; pull ingest on the VPS | every `await` of a handler lets another request in; check-then-put on R2; clients that give up |
| **Factory** (rest of `mass_candidate_factory`) | frozen plans, classification maps, monthly membership, result ledger, adjudication | waves of evidence, freeze, record a result, reconcile, adjudicate, review | the universe is frozen although most symbols are never classified; a ledger must match its verdict |
| **P1 data** (`yatl/data`) | SQLite candles, stream buffer, datasets with manifest, checkpoint database | REST backfill, stream, gap repair, dataset build, rebuild | handoff between backfill and stream; late updates of closed candles |
| **P2 backtest**, **P3 strategy** (`yatl/backtest`, `yatl/strategy`) | portfolio, run artifacts | pure simulation over candles | order of fills inside a bar; costs and rounding |
| **P4 risk** (`yatl/risk`) | hash-chained kill-switch events, risk state | observe, assess, trip / reset, size, authorize, process | what is observed late, what can no longer be reported, latches that never clear |
| **P5 execution** (`yatl/execution`) | one SQLite file: intent journal, order events and states, fills, portfolio projection; a snapshot file; an in-memory fill adapter per executor | record intent, apply order event, compute and apply a fill step, reconcile at startup, create / confirm snapshots, recover | stale events; a cancellation racing a fill; the same step computed twice; reads of several tables that are not one read; memory lost in a restart |
| **P6 analyst**, **P7 analytics** (`yatl/analyst`, `yatl/analytics`) | trace journal; none | bundle, request, validate, ground, record; ingest, rebuild, report, export | untrusted answers; a repeated command whose evidence has lapsed; reads of databases others write |
| **P8 dashboard** (`yatl/dashboard`) | published page, temporary files | load, project, publish, page through the table | publication without overwriting what another command published |
| **P9 notifications** (`yatl/notifications`) | delivery-state file per symbol | project, suppress, guarded send, retry, record | crash between send and record; lost answers; two notifiers |
| **P10 validation** (`yatl/validation`) | forward store with WAL, snapshot file, dashboard, export | collect, copy and replay, evaluate, export, monitor | copies taken while the collector writes; verdicts over growing prefixes |
| **Crisis lab** (`research/crisis_lab`) | content-addressed tree of archives, manifests, admissions | acquire, validate, load, replay windows, scan, shock matrix | publisher revises during the download; crashes between files; holes in the corpus; chunked scans |
| **Historical labs** (`research/historical_strategy_lab`) | reports | run folds and cells, risk trackers, qualify | cooldown and latches; aggregation over folds |
| **Strategy search** and **Generation 2** (`research/historical_strategy_search`, `generation_2`) | ledgers, index, rankings | search, exact recomputation, rank, replay, scale | five copies of one cell; killed runs and damaged ledgers; lost fills at a month boundary |
| **Model lab, opportunity data, research intake** | reports, downloads, registries | offline, single process | little state; see 6 |
| **Operations** (`ops/`) | systemd units, forced-command script | start, restart, timers | decides which directories two processes share |

How the parts interact.  *Control plane*: a worker calls the coordinator (in
process on the VPS, over SSH or through Cloudflare elsewhere); its child writes
result files under the worker's root; the delivery of a complete batch goes
through the gateway (or R2 and the pull of the VPS), which writes the same files
into the results root of the VPS and marks the batch ingested.  On the VPS the
worker's root *is* the results root (`ops/systemd/yatl-mcf-auto-worker.service`,
`ops/ssh/yatl-mcf-node-command`), so a local child and any number of gateway
processes write there at once.  *Paper execution*: an executor reads the five
tables of its SQLite file, becomes READY if they reconcile, and turns P4
authorizations into intents, orders and fills by three store methods, each one
`BEGIN IMMEDIATE` transaction; P7 reads that database and the P6 journal while
both go on, P8 publishes what P7 exports.  *Forward validation*: a timer collects
candles into a store and publishes a snapshot file; read-only commands copy both
and replay the whole prefix; the monitor turns the verdict into notifications.
The labs read archives of their own.

## 2. Modules and the code they model

| Module | Models | State | Actions |
|---|---|---|---|
| `LeaseCoordinator` | `production_distributed.py`, coordinator half | `state`, `owner_node`, `lease_left`, `ingested_manifest` per batch; `told`, what a node was last told about its lease | `ClaimSpecific`, `ClaimNext`, `Heartbeat`, `PauseRequest`, `MarkPaused`, `Resume`, `Release`, `MarkIngested`, `Tick` |
| `DistributedRun` (extends it) | orchestrator, runner child, gateway, agent, the result files | result files per root, worker position and held batch, gateway sessions, acknowledged batches, pause markers, operator commands | one per step of `run_auto_worker`, of the child, of an upload session, of an agent command; crash, lost reply, dead session, restart |
| `ResultArchive` | *abstract*: what the run promises | `results`, `accepted` | `Publish` a result once, `Accept` a complete batch once |
| `CloudRelay` | the Cloudflare Worker, its client and the VPS pull | D1 rows, R2 objects and manifests, calls in progress, calls given up, uploads, archive | a handler is a chain of steps, one per `await`; time, abandoned calls, pull and its crash |
| `PaperStores`, `PaperExecution` | `journal.py`, `state.py`, `portfolio.py`, `reconcile.py`, `contracts.py`, `fills.py` of `yatl/execution`; P2's fill engine and ledger as they use it | `intents`, `events`, `states`, `fills`, `portfolio`; per executor: phase, tables read so far, readiness, adapter, uncommitted step | `Startup`, one `Load…` per SELECT, `Record`, `OrderEvent`, `AdapterProcess`, `CommitStep`, `CommitRefused`, `Crash` |
| `RecoverySnapshot` | `recovery.py`, `runner.py` | store rows, target and pending file, operators' commands | build table by table, write pending, rename, confirm, report; executors write meanwhile; crash |
| `RiskGate`, `RiskSizing` | `yatl/risk`; fills, ledger and metrics of P2 | portfolio state, Kill Switch, adapter, authorization; stages of one trade and its equity curve | observe, feed / reset the switch, authorize, process; size, limit, approve, enter, exit, mark |
| `CandleStore` | `yatl/data` | clock, candles, stream, queue, build, manifest, checkpoint | receive, disconnect, backfill, hand off, page, verify, write manifest, rebuild |
| `NotificationDelivery` | `yatl/notifications`, `monitor_notify.py` | state files, messages accepted, processes | project, read, suppress, post and its outcomes, wait, record, crash |
| `ForwardEvidence`, `ForwardGate` | `yatl/validation` | clock, database file and WAL, lock, snapshot, readers, dashboard, export; the replay of a prefix | collect, checkpoint, publish, copy, replay, export, build; one more closed hour |
| `AnalystTrace` | `yatl/analyst` | commands, journal | start on any evidence and answer, record, crash before or after the commit |
| `AnalyticsChain`, `DashboardPublish` | `yatl/analytics`, `yatl/dashboard` | the two databases and the six reads of a gate run; files, processes, temporary files, reader | writers, tampering, one action per read; export, load, look again, publish, page |
| `CrisisData`, `CrisisReplay`, `ShockMatrix` | `research/crisis_lab` | publisher, REST, tree, command in progress; corpus, scan state, windows; episode and scenarios | fetch, normalise, store, merge, verify, manifests, reports, admission, load, decay; decide / fill / chunk end; one scenario |
| `StrategyRules`, `LabCell`, `LabQualification` | `yatl/strategy`, `research/historical_strategy_lab` | candles and setup; engine, ledger, tracker; cells and summary | a decision; an hour of a cell; a cell, aggregation, comparison |
| `MaReplay`, `SurvivorRanking`, `VolScaling` | `research/historical_strategy_search`, `generation_2` | five cells side by side; ledgers, index, result; plans of scales and cells | a bar; a trial, a ledger, the index, ranking, crash, damage; a bar |
| `MembershipWaves`, `CandidateAdjudication` | the factory's universe and adjudication | candles, evidence, maps, audits, freezes; rows, ledger, verdict, review | audit, acquire, materialize, freeze; run, record, reconcile, adjudicate, clear, freeze |
| `…Proofs` | theorems and proofs of fourteen of them in eight modules: `DistributedRunProofs` (coordinator and run), `PaperExecutionProofs`, `TradingServicesProofs` (recovery, candles, risk gate), `MonitoringProofs` (notifications, forward evidence), `CloudRelayProofs`, `ReportingProofs` (journal, dashboard), `CrisisLabProofs` (data, shock matrix), `MembershipWavesProofs` | | |

Conventions of the abstraction:

* **Time** in the coordinator is the remaining lease, counted down by `Tick`; a
  call brings a clock sample of an `age` in `0..BusyTimeout`, because the code
  calls `time.time()` before `BEGIN IMMEDIATE` may wait for the write lock.  In
  `CloudRelay` a handler keeps the sample of `Date.now()` it took when it started.
* **A result file** is the node that produced it: results are deterministic, the
  stored bytes differ only in `producer_node_id`.  A manifest names its producer.
* **Digests** are the values they digest: an order state is its chain of events, a
  step its authorization, intent and order, a file of the crisis tree its content.
  A damaged file is one in `rot`.
* **A call that raises** rolls back and is no step, except where the caller's own
  state changes (a refused claim counts a failure; a refused commit leaves the
  adapter moved on).
* **Numbers** are integers in a unit in which no rate of the instance rounds
  (`Unit`, `Bps`, `CostDen`); floors, truncations and comparisons are kept.
* **Texts**, formats and HTML are left out; a text rule (forbidden words) is a
  Boolean of the message.
* Some definitions (`ExpiredInclusive`, `ReportUnconfirmed`, `UnitBarFillFirst`, …)
  are plausible wrong versions of the definition that follows them, named for what
  they get wrong.  No specification uses them; each is the counter-check of a
  property, which must fail when the wrong version takes the place of the right one.

*Composed modules.*  `MCControlPlane`, `MCTradingServices`, `MCReporting`,
`MCStrategyLabs`, `MCResearchSearch` and `MCProgress` check several components in
one run.  These components share no state, so interleaving them would only
multiply states: the variable `part` chooses at the start which component runs,
the variables of the others are `Off`, and every action carries `Frame`, which
keeps them so.  A component instantiated twice has two `part` names
(`"risk"` / `"delayed"`, `"notify"` / `"calm"`), each with its own constants.
Each composed module EXTENDS the components that have proofs, so that the run and
the theorem are about one definition, and reaches the others by INSTANCE.  A
component that is extended starts in its initial state and stays there while
another one runs.  The names of the top-level operators of such a component tell
which it is (`RiskInit`, `DataNext`, `EvidenceSpec`).  Its properties are conjunctions
`part = "x" => X!Property`; the parts are named and commented where they are
defined.

## 3. Runs

| Run (cfg) | Instance | Properties | Shows |
|---|---|---|---|
| `lease_coordinator` (`LeaseCoordinator`) | 2 nodes with leases 2 and 1, 2 batches, 2 manifests, lock wait 1 | `RowShape`, `HeldUntilTold`, `OwnershipIsKept` | rows stay consistent; a promised lease is kept whatever the clock samples; pauses and ingestion are not undone |
| `distributed_run` (`DistributedRun`) | VPS and remote worker, 1 batch of 2 candidates, 2 faults, unattended; or the remote worker beside an operator with 4 commands | `ArchiveMatchesManifest`, `DeliveredIsArchived`, `PausedIsMarked`, `FilesImmutable`, `ImplementsArchive` | what is ingested is complete, immutable and named by its manifest; marker and row agree although commands die half-way; the run implements `ResultArchive` |
| `control_plane` (`ControlPlane`) | relay: 2 nodes, 1 candidate, results of one batch with one call given up, or leases of two batches; remote: 2 SSH workers, 1 fault | `RelayIsSafe`, `BatchDeliverable` | handlers interleaved at every `await` keep rows and archive consistent and leases as told; dying uploads never make a batch undeliverable |
| `paper_execution` (`PaperExecution`) | 1 executor over an entry, an entry stopped inside its bar and an exit; or 2 executors over the entries; 1 crash | `OrderReplays`, `PositionBacked`, `FilledOrderFrozen`, `AtMostOneEffect` | order logs are legal lifecycles; a filled order is never cancelled; one effect per authorization; the position is backed and cash suffices |
| `trading_services` (`TradingServices`) | eleven parts, see below | `RecoveryIsSafe`, `FilesAreKept`; `CandlesAreWhole`, `ClosedIsFinal`; `DeliveryIsBounded`, `PostsAreGuarded`; `EvidenceIsSound`, `EvidenceIsKept`; `EntriesAreGuarded`; `ServicesAreExact`, `NeverTakenBack` | the services around the executor, each with its own crashes, second process or late answers |
| `reporting` (`Reporting`) | quality gate beside two writers; exporter and builder; two builders; a paging reader; two analyst commands | `JournalIsSound`, `JournalKeepsRows`, `ReportIsTrue`, `PublicationIsSafe`, `NoUnaskedOverwrite` | what is shown is what happened, at one moment, and nothing published is overwritten unasked |
| `strategy_labs` (`StrategyLabs`) | crisis data with one dataset (every change of one row, every REST answer), with two, and with revisions, crashes and decay; replays; rules; cells; qualification | `AdmissionIsSound`, `ReplayIsFaithful`, `LabIsExact` | only verified data reach a replay, each candle from one source; scans do not depend on chunking; trackers latch exactly |
| `research_search` (`ResearchSearch`) | five cells over 6 bars; 2 × 6 trials; six months; 4 symbols over 8 days; 6 candidates | `MembershipIsTrue`, `CellsAgree` (scaling included), `SelectionIsSound` (ranking and adjudication) | searches, ranking, scaling, membership and adjudication give what their definitions say |
| `progress` (`Progress`) | the VPS worker, restarted by systemd, beside a remote worker that is started once; 1 batch of 2 candidates, 2 faults; 3 reports; 1 dataset, 1 crash; 9 scenarios | `EventuallyAllIngested`, `LatestTold`, `EventuallyReplayed`, `ShockIsSound` | under fair scheduling every batch is ingested, the latest status is told, collected hours reach the dashboard |
| `identical_rerun`, `paper_reconstruct`, `forward_gate_gap` | small instances of the above | `IdenticalRerunAccepted`, `ReadyReconstructs`, `SummaryAfterWarmup` | **violated**, see 5 |

The parts of `trading_services`: *recovery* (two operators who take turns and
four commands, or two at once), *risk* (a caller that finishes each bar) and *delayed*
(one that uses its authorizations late), *sizing*, *notify* (one monitor, every answer and
fault), *runner* (a second notifier), *calm* (no kill, storage that works, answers
that say what was done), *candles*, *evidence* (two collectors, one reader), *gate*
(one symbol, four hours, every candle shape) and *pooled* (two symbols).

*Bounds.*  Each is chosen so that the case the properties are about occurs, and no
larger.

* Control plane: two candidates are needed for a partial archive, two workers for a
  lost lease to matter; batches interact only through the claim order, so one batch
  suffices except for leases.  A lease of 1 with a lock wait of 1 already contains
  the worst stale sample; `lease_coordinator` adds unequal leases.  Two faults allow
  a crash and a lost reply, or a crash during the recovery from a crash.  In the
  relay, `MaxTime = 4` lets a lease expire twice, `MaxLate = 1` lets one abandoned
  handler run on beside its successor.
* Paper execution: times `0..3` give each order event and the fill a time of its own;
  cash suffices for the stopped entry and the entry, so that overlap is refused by
  position and not by cash.
* Recovery: four commands allow create, crash, status, confirm; rows grow by two
  events and one fill, enough for every table to change between two SELECTs.
* Notifications: two posts per process and three attempts reach the limit of the
  waits (`MaxTotalWait = 4` with retry-after up to 4); `MaxRecords` is hit.
* Risk gate: seven bars and sessions of three, so that a streak of two losses can fall
  into one session or two; any bar may open and close a position at once.  *delayed* has
  five bars and a drawdown limit one lost trade reaches: there the entry under an
  active switch does occur, and the property names its only cause.
* Candle store: five intervals, one reconnect, a backfill of two: the disconnect can
  fall before, inside and after the range the build asks for.  A backfill may be given
  any part of what it asks for, a page of the build may leave candles out, and
  intervals may end while the stream hands over.
* Forward gate: limits keep the registered order (session < drawdown), four hours
  contain a day change at which a trade of the old day closes.
* Crisis data: slots 1..3 with a month of two days whose second day is overridden:
  a day before the month, a monthly object and its correction.
* Search: windows 1 and 2, six bars with up to two holes, a quarter that ends inside them;
  a 4-point grid gives every pair neighbours, one of them always a good one; months of three days of two hours with a hole at each kind of
  hour (`MCHoles`) and one crossing of the averages at each kind of hour
  (`MCCrosses`).  Membership: months that begin on days 4 and 6, three tables with a
  tie, a surge, a gap, a late listing and a delisting on a boundary.
  `MinNeighbors` is 3 in the code and 2 here, since four candidates form the square.

*Deadlock* is checked in `lease_coordinator` and `distributed_run`.  The other
instances end when their inputs are used up (every authorization settled, every
bar replayed, every command run), so it is off there.

*Fairness* is stated in each component and collected in `MCProgress`:

* The run: weak fairness of every worker and gateway step, since each is the next
  instruction of a running process, and of the restart of the VPS worker, the only
  one that has a unit with `Restart=on-failure`
  (`ops/systemd/yatl-mcf-auto-worker.service`).  The remote worker is started once
  (`ops/windows/Start-YatlMcfWorker.ps1`): when it fails or has used up its control
  failures it stays down (`StartedOnce`), perhaps holding the batch, and the VPS
  worker has to finish alone.  Time passes only while no running worker is about to
  lose its lease (`Timely`): `run_child_with_heartbeat` refuses a heartbeat
  interval that is not shorter than the lease.  No fairness is assumed of faults or
  of the operator.  If the remote worker were started again without end, a
  collision (5.1) could repeat forever; the property does not cover that.
* Notifications: weak fairness of the monitor's steps and of its timer, with a
  service that accepts.  With one that refuses or is ambiguous nothing can be
  promised, and the code promises nothing.
* Forward evidence: weak fairness of the collector and its timer; strong fairness
  that a time request sometimes returns the current time, that REST sometimes serves
  the whole range, and that a builder sometimes runs while no collector writes.
  Each can fail any number of times; the collector runs once an hour for minutes.

## 4. Proofs

Every theorem holds for all constants that satisfy the named assumptions of its
module.  These type the constants, keep `None`, `NoNode`, `NoManifest` and the
like apart from proper values, and say nothing the code does not: a positive
duration, a list of claims is a list, volumes are numbers.  TLC evaluates them in
each run.

* **Coordinator** (`LeaseSafety`, `RowsConsistent`, `OwnershipTheorem`).  The
  invariant adds `ToldBound`: no reply ever promised more than the caller's own
  lease.  Without it a claim by a node with a longer lease could not be shown to
  leave the promise made to another node intact.
* **Distributed run** (`ArchiveTheorem`, `DeliveryTheorem`, `PauseMarkerTheorem`,
  `RunTypesTheorem`, `ImmutableTheorem`, `RefinementTheorem`).  Every step is a
  coordinator step or leaves the rows alone (`RunStepIsCoordStep`), so the
  coordinator's invariant carries over.  `RunInv` adds that a bundle under way is
  complete, that the archive holds what an upload has written so far
  (`SessionPrefixArchived`), and where a command stands relative to its marker.
  Files only ever appear, so the prefix grows into the whole batch at the moment it
  is marked ingested; the refinement of `ResultArchive` follows.
* **Paper stores** (`OneEffectTheorem`, `FrozenTheorem`, `ReplayTheorem`,
  `PositionTheorem`, `PaperTypesTheorem`).  `StoreInv` is the conjunction of types, `OrderReplays`,
  `FilledOrderFrozen` and `AtMostOneEffect`.  They need each other: a second effect
  of an authorization would have to be computed for the intent and order its first
  fills name, because that order is frozen; then its digest is the first step's and
  it is refused as already applied.  The order is frozen since a fill names the
  current state and the foreign key forbids rewriting it.  `PositionTheorem` is about
  the replay of the ledger, a recursive function of the fills: `LedgersExist` gives
  the replay of every prefix, `LedgerShape` says by least counterexample what it holds
  after each fill, and `PositionStep` that an appended step goes on from there.
* **Recovery** (`RecoveryTheorem`, `FilesTheorem`, `RecoveryTypes`).  `Anchored`: at
  whatever moments the SELECTs of a snapshot ran, what it anchors lies within the
  stores, which only grow; so no prefix check can fail because of a race.
  `OneAtATime`: with operators who take turns, from the check to the rename no
  snapshot stands, the pending file is the operator's own and complete before it is
  renamed, and what is unlinked is what was confirmed.
* **Candle store** (`CandlesTheorem`, `ClosedTheorem`).  `StreamInv`: the messages on
  their way follow one another from the candle the stream consumes next up to the
  one the exchange works on, and every candle from the first handed over to the last
  consumed is closed or known to be missed.  Missed (`stream.missed`, a history) is what
  a backfill asked for and was not given and what ended between it and the next
  connection: nothing in the code looks for those.  While a backfill is written, what is
  neither closed nor missed is among the rows it holds.  A closed candle stays closed
  because every writer goes through `Conflicts`; a manifest is written only of a range
  in which nothing is absent or open, so short pages end in a build that fails.
* **Risk gate** (`EntryTheorem`, `StateTheorem`).  `RiskInv` relates three clocks: the
  bar observed last, the bar processed last and the bar of the pending authorization.
  A portfolio ahead of the adapter knows every fill and, when flat, the cash
  (`FillsSeen`); a fill that comes late shows in a quantity that no longer agrees, and
  with such a portfolio nothing else can be filled.  So while an approved entry
  waits, flat, each observation sees the cash it saw before, no breaker trips, and
  the switch it was approved under has no reason to latch (`EntryStands`).
  `EntryTheorem` has no condition for the entry under an active Kill Switch: a late
  caller that trades a bar which opens and closes a position at once does produce it
  (5), and then the managed state has missed that trade (`led.missed`, a history).
  `CountsWith` adds the one close that may still be unreported.  `StateTheorem` is
  about a caller that finishes each bar and follows the position, the streak and the
  session PnL, the last two up to the trades the state was not told of.
* **Cloudflare relay** (`RelayTheorem`).  `RequestsInv`: a sample is never ahead of
  the clock, and a handler that passed the check of a ready report has its manifest
  in the bucket for good.  `PromiseInv`: what a node was told lies within one lease of
  the sample of its running call, so no request of its own moves its lease end back.
  It holds only while no call was given up (`lates = 0`), which is what the property
  says too; with an abandoned heartbeat it is false (5).  The claim of the next batch
  takes a minimum, hence `LeastNumber` (well-foundedness of `<`).
* **Analyst's journal** (`JournalTheorem`, `JournalRowsTheorem`).  A row is a function
  of the two files of its command (`Trace`); everything a row promises is therefore a
  fact about `Trace` for every bundle and every answer (`GroundedFacts`: the first
  claim that fails decides, so none hides behind another).  What is left to
  induction is small: the journal is a sequence of traces, no two rows belong to one
  request and answer, and what a command leaves is accounted for (`Accounted`).  An
  answer that is no UTF-8, or that the JSON reader gives up on without calling it
  malformed (a number too long, nesting too deep), ends its command without a row: the
  first two as invalid input, the last with a traceback.
* **Dashboard** (`PublicationTheorem`, `OverwriteTheorem`).  What a builder has checked
  it may rely on when it publishes, because a body never changes under its digest
  (`Reliable`); a body that passed has one segment of each dimension whatever its
  fault, so the checks on some segment speak of the segment.  The files left behind
  are counted against the deaths (`Orphans`): the temporary files are those of the
  processes at work and of those that died.
* **Membership** (`MembershipTheorem`).  `TopOfPart`: a part of a finite set that
  holds the set's top has the same top.  An empty frontier says that the top of the
  symbols not ruled out is classified; so the ordinary ones among them have that very
  top, which is what full knowledge would give.  That a list uses no later candle
  follows from the operators of one month looking only below their boundary.
* **Crisis data** (`AdmissionTheorem`).  A manifest tells the truth about REST when it
  is written (`Truthful`), and what it names is in the tree before it (`TreeInv`);
  files are never taken away and REST does not change what it once had, so both stay
  true.  A passing report has `Checked` its dataset, a fact about the manifest's content
  that no later decay can undo; `Truthful` and `Checked` together are what an
  admission vouches for.  The plan of a dataset stays opaque.
* **Shock matrix** (`ShockTheorem`).  Whatever answers a shock (the strategy, the stop or
  nothing), a scenario trades or marks its position at one price; a harsher one has
  that price no higher and its costs no lower, and the rest is monotonicity of
  products.
* **Notifications** (`DeliveryTheorem`, `OnePostTheorem`, `AcknowledgedTheorem`,
  `RecordedTheorem`, `AtMostOnceTheorem`, `DeliveryBoundedTheorem`,
  `PostsGuardedTheorem`).  The first three hold for any number of
  notifiers: what a process has read of the state file stays true of what Telegram
  took (`SendFacts`), because Telegram takes nothing back, so the file it writes over
  another's is still a set of accepted notifications.  Nothing is said of which ones,
  and a second notifier can indeed erase a record.  With one notifier at a time
  (`Alone`, what systemd gives the monitor) the file is still what the process has read
  (`ViewIsFile`), so what it records is never posted again.  `AtMostOnceTheorem` adds
  exactly the assumptions of its name, `Calm`: no kill, no failed write, no answer that
  leaves open what was done; `CalmInv` finds each accepted notification in its file or
  with the process about to write it.
* **Forward evidence** (`EvidenceTheorem`, `EvidenceKeptTheorem`).  `CollectorsInTurn`: a
  collector at work holds the lock, has read the snapshot that stands and has stored
  what the quality gate let through.  `AtRest`: while there is no sidecar the main
  file is the content of one moment.  A reader copies file after file, so what it
  holds is bounded from both sides (`Fine`): the contents of the moment of its second
  check lie between what it had copied and what the file has now, and the third
  check makes the two equal.  `DashboardBehind`: one builder never shows less than
  what stands; with two it can, and the property says so.

Each inductive invariant (`CoordInv`, `RunInv`, `ProducerInv`, `PaperInv`,
`RecoveryInv`, `DataInv`, `StreamInv`, `RiskInv`, `RelayInv`, `TraceInv`, `PublishInv`,
`WaveInv`, `CrisisInv`, `ShockInv`, `DeliveryInv`, `EvidenceInv`) also holds in every
state TLC reaches on the instance of the component's run.  The arguments use no
bound of the instances: `MaxFaults`, `MaxCommands`, `MaxRevisions` and the like are
arbitrary.

Only model-checked:

* Liveness (`EventuallyAllIngested`, `LatestTold`, `EventuallyReplayed`): TLAPS does
  not reason about fairness with `ENABLED`.
* What compares a running value with a sum or a maximum over a history, or with a
  recursion over days: `CellsAgree`, `LabIsExact`, `ReportIsTrue`, `ReplayIsFaithful`
  and most of `ServicesAreExact` (sizes, costs, metrics, the forward gate's replay).
  Each needs an induction of its own, by least counterexample as in
  `PaperExecutionProofs`: the induction theorems of the library take an operator,
  which no installed prover can instantiate.  Of `ServicesAreExact` the first
  conjunct, `StateFollowsFills`, is proved (`StateTheorem`).
* `SelectionIsSound`: `CandidateAdjudication` declares a RECURSIVE closure (clusters),
  so no theorem may stand above it.
* `NeverTakenBack`: the mark of a position and the finality of a hard failure in the
  forward gate, next to a second instance of the risk gate that `EntryTheorem` covers.

## 5. Where the code and its documents disagree

Three disagreements have a run that TLC must find violated:

1. **Identical rerun** (`identical_rerun`, `IdenticalRerunAccepted`).
   `write_once` compares the stored bytes, which contain `producer_node_id`
   (`models.py:57`).  The foundation document says a batch may be completed by
   several nodes and the code says that an identical rerun is idempotent
   (`production_distributed.py:303`); in fact the second producer's upload is
   refused as an artifact collision. A VPS worker beside
   remote ones can thus make every remote delivery of a batch fail.  The batch is
   not lost: `BatchDeliverable` holds, proved as `DeliverableTheorem`, but it may be
   the VPS worker alone that can still deliver it.
2. **Reconstruction of Paper state** (`paper_reconstruct`, `ReadyReconstructs`).
   The fill adapter always starts flat (`fills.py:195`).  After a restart with an
   open position the stores reconcile and report READY, and every exit of that
   position is refused.
3. **Summary after warm-up** (`forward_gate_gap`, `SummaryAfterWarmup`).  A
   `FillModelError` leaves `_run_symbol` (`paper_runner.py:672`); since each run
   replays the whole prefix, one bar that opens outside the bracket turns every
   later summary into INTERNAL_ERROR.

Others were met while modelling.  Where the module keeps a property for them, the
property states what one might expect and is part of no run, because it does not
hold; the checked property next to it says what does hold.

| Where | What one might expect | What the code does |
|---|---|---|
| `PaperExecution.ReadyWasExact` | READY means the stores reconciled at some moment | the five tables are read by five SELECTs in no transaction; another executor may write between two of them, and rows of different moments can match |
| `PaperExecution.CommittedIsLoadable` | a committed history loads again | fills are appended without a limit, loading refuses more than `MAX_LEDGER_BATCH` |
| `RecoverySnapshot.AnchorsReconciled` | a snapshot anchors the state its reconciliation digest names | the digest and the anchors come from different reads |
| `RecoverySnapshot.RecoveryIsSafe`, `FilesAreKept` | a snapshot that stands is whole and never overwritten | true of operators who take turns; two `create` commands at once can share the pending file and rename over each other |
| `CloudRelay.ClaimedUntilTold` | a claim holds until the lease end it returned | a heartbeat the client gave up may still run and move the lease end back |
| `CloudRelay.ReadyIsIngestible` | what awaits ingest can be ingested | objects uploaded earlier by another producer stay; the pull then finds a mismatch |
| `NotificationDelivery.AtMostOnce`, `AcknowledgedIsRecorded` | one message per notification, each acknowledged one recorded | a crash, a lost answer, a full state file or a second notifier between send and record sends again; the checked properties say when not |
| `CandleStore.CheckpointKept` | a rebuilt checkpoint is kept | two rebuilds both see no file and the second rename replaces the first (the run has one rebuild) |
| `CandleStore` handoff | no hole between backfill and stream | nobody checks that the answer to a backfill is complete, and an interval that ends between it and the connection is in neither; `StreamLeavesNoHole` names exactly these |
| `AnalystTrace` | every answer of a model is validated and traced | one that cannot be decoded is INVALID_INPUT without a trace (`cli.py:104`), one nested too deeply ends in a traceback (`response.py:337` catches only what is malformed) |
| `RiskGate.StreakLockIsFinal` | the documents call the Kill Switch manually resettable | after a loss streak a reset demands an inactive breaker, which needs a win, which needs an entry: the property holds, the reset never succeeds |
| `RiskGate` | no entry is filled while the Kill Switch is active | the adapter never looks at the switch; a caller that uses an authorization late, after a bar that opened and closed a position at a loss before it was observed, can fill an entry after the switch tripped (`UntoldEntryStep` says that this is its only cause). Callers that finish each bar cannot (`EntriesAreGuarded`) |
| `RiskGate.StateFollowsFills` | the managed state counts every closed trade | one that a single bar opened and closed cannot be reported (`state.py:244`): its loss is in neither the streak nor the session PnL |
| `RiskGate.SessionIsToday` | the session is the day of the observation | a session begins with the first observation of a new day, not with midnight's |
| `RiskGate` | an exit follows its entry | an authorization used in the bar of its entry may exit there: the adapter accepts both |
| `LabCell` | the labs count decisions alike | HSL-001 and HSL-004 count an hour whose fill is missing as a decision, HSL-002 and HSL-003 do not |
| `LabCell` | the closed trades add up to the ledger's realized profit (`walk_forward.py:524` and its four copies); `docs/MASTER-PLAN.md:1835` says this accounting was aligned with a precision of 256 digits | each trade is computed with 256 digits, their sum with the default 28: one exit at a stop or target of more digits, which an ATR over 14 hours nearly always gives, and the cell ends with "accounting disagrees with ledger" (`ended = "SUM"`) |
| `LabCell` | the same line says that the decimals of a setup were put right | momentum and volatility expansion do not round their levels (`momentum.py:422`, `volatility_expansion.py:274`); a `LongSetup` takes 40 decimals, and the cell ends (`ended = "SETUP"`) |
| `LabCell` | a lab runs on any admitted market | fills beyond the base volume of their bar raise (`fills.py:181`); an entry stopped in its own bar needs its quantity twice (`ended = "VOLUME"`) |
| `SurvivorRanking` | a killed search can be resumed | a torn index or result file makes each later run fail; the overall cap of twelve never binds beside three families of three |
| `MembershipWaves` | the two builders of monthly lists agree | they do where both are defined (`MembershipIsTrue`), but treat symbols delisted in the month and empty months differently |
| `CandidateAdjudication` | more correlation, fewer effective trials | n²/Σρ² is not monotone in the cluster's members |
| P9 data quality alert | it is delivered | it names no symbol, the runner accepts only named ones: each such job ends SOURCE_REJECTED |

## 6. What is not modelled, and why

* *Control plane*: the receipt file of the gateway, spool clean-up, micro-shards of
  more than one candidate, a child that outlives a killed worker, two upload
  sessions of one node.  They add writers of the same kind to the same files.  In
  the relay: DIRECT_PULL readiness, tokens, the event log, which nothing reads.
* *Paper execution*: several symbols per database (nothing crosses symbols), rows
  rewritten behind the program's back (the digests that would notice are values
  here).
* *Factory*: generation, features, rules and runtime are numeric functions of frozen
  inputs; their determinism is an assumption of the control plane's model.
  Authorization texts and manifests of frozen bytes are written once.  The deflated
  Sharpe ratio and the overfitting probability are one Boolean per candidate.
* *P2 to P4*: scenario runners and artifact writers, which only drive and print.
* *Labs*: the choice of control windows by similarity; what the volatility scalers
  earn (the money of a cell is `MaReplay`'s), their verdict's gates on money.
* *Model lab*: a campaign of calls to a model and numeric scoring.  *Opportunity
  data*: the write-once and checksum rules are the ones of `CrisisData`.  *Research
  intake*: static records.
* *Acceptance harnesses, the command line, exchange accounts and market data
  access*: scripted demonstrations and read-only input.
* *Texts*: prompts, reports, messages, HTML.

Simplifications inside the modules: a killed search leaves its orphan file in the
finalising step, in the code also in the trials (`trend_ma.py:826`); ties between
families are broken by an index, in the code by the name, which complexity already
separates; the moving-average cells count in integers where the code has binary64;
the tampering of the quality gate's databases is a changed cash, drop, order, intent or
trace; the two bracket codes of the shock matrix are compared on flat bars; the volume
of a lab's bar is counted in fills, and a lab never runs out of cash.

## 7. Where to go on

The core, the components of the composed runs and their main properties are modelled;
fourteen components have theorems.  What would say most next:

1. The forward gate: that its counters are those of the replayed trades, for any number
   of hours.  The replay is a recursive function of the hours, as the ledger is in
   `PaperExecutionProofs`, and the same argument applies.
2. Sizing: that the quantity is the largest the limits allow, which is arithmetic of
   floors without induction.
3. `LabCell`: the two trackers against the reference over the whole history.
