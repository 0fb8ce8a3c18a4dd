----------------------------- MODULE MCProgress -----------------------------
(* What must eventually happen, each under the fairness of its own          *)
(* component: a distributed run ends with every batch ingested, the latest  *)
(* status is delivered, the collected hours are replayed on the dashboard;  *)
(* and the shock matrix, whose scenarios are computed one after the other.  *)
(* The components share no state; a behaviour runs one of them (part) and   *)
(* only its fairness applies.                                               *)
EXTENDS ShockMatrix

CONSTANTS
    vps, laptop,   \* the nodes of the run
    NoNode, None,   \* no owner, no value
    Off    \* the variables of a component that is not the one running

VARIABLES
    part,  \* the component that runs, chosen once
    state, owner_node, lease_left, ingested_manifest, told, files, pc, cur, pos,
    failures, session, acked, marker, agent, commands, faults,
    summary, deliveries, accepted, proc,
    clock, owner, dbFile, wal, sidecar, holder, snapshot, collector, reader, dashboard,
    export, whole, crashes

-----------------------------------------------------------------------------
\* All nine scenarios of the shock matrix.
MCRegistry == <<[gap |-> 500, mult |-> 1], [gap |-> 500, mult |-> 2],
                [gap |-> 500, mult |-> 5], [gap |-> 1000, mult |-> 1],
                [gap |-> 1000, mult |-> 2], [gap |-> 1000, mult |-> 5],
                [gap |-> 2000, mult |-> 1], [gap |-> 2000, mult |-> 2],
                [gap |-> 2000, mult |-> 5]>>

-----------------------------------------------------------------------------
\* The VPS worker, which systemd restarts, beside a remote worker, which nothing does.
Run == INSTANCE DistributedRun WITH
    Workers <- {vps, laptop}, VPS <- vps, CandidateCount <- 2, MaxControlFailures <- 2,
    MaxFaults <- 2, MaxCommands <- 0, Nodes <- {vps, laptop}, BatchCount <- 1,
    Manifests <- (SUBSET {vps, laptop}) \ {{}}, NoManifest <- {},
    LeaseOf <- [n \in {vps, laptop} |-> 1], BusyTimeout <- 0

\* Three reports, room for all of them, a service that answers.
Notify == INSTANCE NotificationDelivery WITH
    Monitors <- {"m1"}, Runners <- {}, SymbolOrder <- <<"BTCUSDT", "ETHUSDT">>,
    Reports <- 1 .. 3, MaxAttempts <- 3, Backoff <- <<1, 2>>, MaxRateWait <- 3,
    MaxTotalWait <- 4, MaxRecords <- 3, RetryAfters <- {2, 3, 4},
    Answers <- {"accepted"}, Faults <- {}, MaxPosts <- 2

\* One dataset, one crash.
Evidence == INSTANCE ForwardEvidence WITH
    Collectors <- {"c1"}, Readers <- {"r1"}, Datasets <- <<"btc_1h">>,
    Duration <- [btc_1h |-> 1], Warmup <- 1, MaxClock <- 2,
    MaxCollectorCrashes <- 1, Absent <- None, collectorCrashes <- crashes

ASSUME Notify!DeliveryAssumption
ASSUME Evidence!DatasetsAssumption
ASSUME Evidence!AbsentAssumption

-----------------------------------------------------------------------------
RunOff ==
    /\ state = Off /\ owner_node = Off /\ lease_left = Off /\ ingested_manifest = Off
    /\ told = Off /\ files = Off /\ pc = Off /\ cur = Off /\ pos = Off
    /\ failures = Off /\ session = Off /\ acked = Off /\ marker = Off /\ agent = Off
    /\ commands = Off /\ faults = Off

NotificationOff ==
    /\ summary = Off /\ deliveries = Off /\ accepted = Off /\ proc = Off

EvidenceOff ==
    /\ clock = Off /\ owner = Off /\ dbFile = Off /\ wal = Off /\ sidecar = Off
    /\ holder = Off /\ snapshot = Off /\ collector = Off /\ reader = Off
    /\ dashboard = Off /\ export = Off /\ whole = Off /\ crashes = Off

\* One episode that no strategy answers.
ShockIdle ==
    /\ episode = CHOOSE e \in Episodes : TRUE
    /\ action = "NO_TRADE"

Init ==
    /\ \/ part = "run" /\ Run!Init
       \/ part = "notify" /\ Notify!DeliveryInit
       \/ part = "evidence" /\ Evidence!EvidenceInit
       \/ part = "shock"
    /\ IF part = "run" THEN TRUE ELSE RunOff
    /\ IF part = "notify" THEN TRUE ELSE NotificationOff
    /\ IF part = "evidence" THEN TRUE ELSE EvidenceOff
    /\ ShockInit /\ (IF part = "shock" THEN TRUE ELSE ShockIdle)

\* The components share no state: the ones that do not run stay as they are.
Frame ==
    /\ part' = part
    /\ IF part = "run" THEN TRUE ELSE UNCHANGED <<state, owner_node, lease_left,
           ingested_manifest, told, files, pc, cur, pos, failures, session, acked,
           marker, agent, commands, faults>>
    /\ IF part = "notify" THEN TRUE ELSE UNCHANGED <<summary, deliveries, accepted,
           proc>>
    /\ IF part = "evidence" THEN TRUE ELSE UNCHANGED <<clock, owner, dbFile, wal,
           sidecar, holder, snapshot, collector, reader, dashboard, export, whole,
           crashes>>
    /\ IF part = "shock" THEN TRUE ELSE UNCHANGED shockVars

\* The PowerShell script starts the remote worker once.
StartedOnce == pc[laptop] \in {"off", "stopped"} => pc'[laptop] = pc[laptop]

Next ==
    \/ part = "run" /\ Run!TimelyNext /\ StartedOnce /\ Frame
    \/ part = "notify" /\ Notify!DeliveryNext /\ Frame
    \/ part = "evidence" /\ Evidence!EvidenceNext /\ Frame
    \/ part = "shock" /\ ShockNext /\ Frame

vars == <<part, state, owner_node, lease_left, ingested_manifest, told, files, pc, cur,
          pos, failures, session, acked, marker, agent, commands, faults, summary,
          deliveries, accepted, proc, clock, owner, dbFile, wal, sidecar, holder,
          snapshot, collector, reader, dashboard, export, whole, crashes, shockVars>>

\* The fairness of the component that runs, as its module states it.
Fairness ==
    /\ \A n \in {vps, laptop} : \A k \in Run!DutiesOf(n) :
          WF_vars(part = "run" /\ Run!Duty(n, k) /\ Frame)
    /\ WF_vars(part = "run" /\ Run!Timely /\ Run!Clock /\ Frame)
    /\ WF_vars(part = "notify" /\ Notify!NewReport /\ Frame)
    /\ WF_vars(part = "notify" /\ Notify!StartMonitor("m1") /\ Frame)
    /\ WF_vars(part = "notify" /\ Notify!NotifierStep("m1") /\ Frame)
    /\ WF_vars(part = "evidence" /\ Evidence!ClockTick /\ Frame)
    /\ \A k \in Evidence!Duties :
          WF_vars(part = "evidence" /\ Evidence!Duty("c1", k) /\ Frame)
    /\ SF_vars(part = "evidence" /\ Evidence!ReadsCurrentTime("c1") /\ Frame)
    /\ SF_vars(part = "evidence" /\ Evidence!ServesWholeRange("c1", 1) /\ Frame)
    /\ \A pc1 \in Evidence!BuilderSteps :
          SF_vars(part = "evidence" /\ Evidence!BuildsAlone("r1", pc1) /\ Frame)
    /\ WF_vars(part = "shock" /\ ShockNext /\ Frame)

Spec == Init /\ [][Next]_vars /\ Fairness

-----------------------------------------------------------------------------
\* orchestrator docstring: "repeats until all 14 batches are ingested", in spite of a
\* remote worker that fails for good, since the one on the VPS is restarted.
EventuallyAllIngested == <>(part = "run" => Run!AllIngested)

\* Every symbol's latest status is eventually accepted by Telegram.
LatestTold ==
    \A s \in Notify!Symbols : <>(part = "notify" => Notify!LatestAccepted(s))

\* Given a database of its own and a collector and a builder that keep being started,
\* the dashboard eventually shows a replay of evidence beyond the warm-up, in spite of
\* crashes that leave sidecars and a half-filled store.
EventuallyReplayed ==
    (part = "evidence" /\ Evidence!OwnDatabase) ~> (part = "evidence" /\ Evidence!Replayed)
=============================================================================
