--------------------------- MODULE DistributedRun ---------------------------
(***************************************************************************)
(* The distributed MCF-PROD-001 run: auto-workers                          *)
(* (production_worker_orchestrator.run_auto_worker) that lease batches     *)
(* from the coordinator, run one child process per candidate, and deliver  *)
(* complete batches to the VPS, remotely through the SSH gateway           *)
(* (production_ssh_gateway.execute_server_command / ingest_batch_bundle)   *)
(* or, on the VPS itself, by marking them ingested.                        *)
(*                                                                         *)
(* Results are deterministic: two nodes compute the same result for a      *)
(* candidate and the same result_artifact_sha256.  The stored FILE still   *)
(* differs, because its bytes hold producer_node_id; so a result file is   *)
(* modelled by the node that produced it, and a batch manifest (whose      *)
(* artifact list is the same for everyone) by its set `nodes`.             *)
(*                                                                         *)
(* The VPS worker's --worker-root is the directory the gateway ingests     *)
(* into (ops/systemd/yatl-mcf-auto-worker.service, yatl-mcf-node-command), *)
(* so files[VPS] is both.                                                  *)
(***************************************************************************)
EXTENDS LeaseCoordinator

CONSTANTS
    Workers,             \* the nodes running the auto-worker
    VPS,                 \* the node that hosts coordinator and archive
    CandidateCount,      \* candidates (= one-candidate micro-shards) per batch
    MaxControlFailures,  \* consecutive refused claims before a worker stops
    MaxFaults,           \* bound on crashes, lost replies and dead sessions
    MaxCommands          \* bound on pause, resume and release commands

Candidates == 1..CandidateCount

ASSUME RunAssumption ==
    /\ VPS \in Nodes
    /\ Workers \subseteq Nodes
    /\ Manifests = (SUBSET Nodes) \ {{}}
    /\ CandidateCount \in Nat \ {0}
    /\ MaxControlFailures \in Nat \ {0}
    /\ MaxFaults \in Nat
    /\ MaxCommands \in Nat

VARIABLES
    files,     \* files[r][b][c]: producer of the result file under r's root
    pc,        \* where a worker is in run_auto_worker
    cur,       \* the batch it holds (meaningful while it works)
    pos,       \* the micro-shard it is at
    failures,  \* control_failures
    session,   \* the gateway process serving n's upload: batch, bundle, next
    acked,     \* completed_batches of all runs of n: deliveries acknowledged
    marker,    \* marker[n]: batches with a control/<batch>.pause file under n's root
    agent,     \* the operator command in flight on n: its batch and what is left
    commands,  \* pause, resume and release commands so far
    faults     \* crashes, lost replies and dead sessions so far

workerVars == <<pc, cur, pos, failures, acked>>
agentVars == <<marker, agent, commands>>
vars == <<coordVars, files, workerVars, session, agentVars, faults>>

NoFile == [c \in Candidates |-> NoNode]
NoSession == [batch |-> 0, bundle |-> NoFile, next |-> 0]
NoCommand == [batch |-> 0, todo |-> "none"]

Producers(row) == {row[c] : c \in Candidates}

Serving(n) == session[n].batch # 0
AllIngested == \A b \in Batches : state[b] = "INGESTED"

Fault == faults < MaxFaults /\ faults' = faults + 1

-----------------------------------------------------------------------------
(* The auto-worker.  (An operator with a qualified name, defined just before *)
(* the one it qualifies, is a faulty variant for the mutation runs.)         *)

Goto(n, label) == pc' = [pc EXCEPT ![n] = label]

(* The status call at the head of the loop finds every batch INGESTED. *)
GlobalComplete(n) ==
    /\ pc[n] = "loop" /\ AllIngested
    /\ Goto(n, "done")
    /\ UNCHANGED <<coordVars, files, cur, pos, failures, acked, session, agentVars, faults>>

WorkLeft(n) ==
    /\ pc[n] = "loop" /\ ~AllIngested
    /\ Goto(n, "claim")
    /\ UNCHANGED <<coordVars, files, cur, pos, failures, acked, session, agentVars, faults>>

Claim(n) ==
    /\ pc[n] = "claim"
    /\ \E b \in Batches, age \in Ages :
          /\ ClaimNext(n, b, age)
          /\ cur' = [cur EXCEPT ![n] = b]
    /\ pos' = [pos EXCEPT ![n] = 1]
    /\ failures' = [failures EXCEPT ![n] = 0]
    /\ Goto(n, "shard")
    /\ UNCHANGED <<files, acked, session, agentVars, faults>>

(* claim_next raised: back to the status call, and after MaxControlFailures  *)
(* in a row the end of the worker.                                           *)
CountFailure(n) ==
    IF failures[n] + 1 >= MaxControlFailures
    THEN failures' = [failures EXCEPT ![n] = 0] /\ Goto(n, "off")
    ELSE failures' = [failures EXCEPT ![n] = @ + 1] /\ Goto(n, "loop")

ClaimRefused(n) ==
    /\ pc[n] = "claim"
    /\ \E age \in Ages : \A b \in Batches : ~AvailableAt(b, age)
    /\ CountFailure(n)
    /\ UNCHANGED <<coordVars, files, cur, pos, acked, session, agentVars, faults>>

(* The transport fails: the claim was not sent, or it committed and only the *)
(* reply is lost.  The worker retries, not knowing it may own a batch.       *)
ClaimUnanswered(n) ==
    /\ pc[n] = "claim"
    /\ Fault
    /\ \/ \E b \in Batches, age \in Ages : ClaimNext(n, b, age)
       \/ UNCHANGED coordVars
    /\ CountFailure(n)
    /\ UNCHANGED <<files, cur, pos, acked, session, agentVars>>

Beat(n) == \E age \in Ages : Heartbeat(n, cur[n], age)

(* run_child_with_heartbeat: one heartbeat before the child starts. *)
StartChild(n) ==
    /\ pc[n] = "shard"
    /\ Beat(n)
    /\ Goto(n, "child")
    /\ UNCHANGED <<files, cur, pos, failures, acked, session, agentVars, faults>>

ChildHeartbeat(n) ==
    /\ pc[n] \in {"child", "computing"}
    /\ Beat(n)
    /\ UNCHANGED <<files, workerVars, session, agentVars, faults>>

(* MICROSHARD_COMPLETE: on to the next micro-shard or to the delivery. *)
Advance(n) ==
    IF pos[n] < CandidateCount
    THEN pos' = [pos EXCEPT ![n] = @ + 1] /\ Goto(n, "shard")
    ELSE UNCHANGED pos /\ Goto(n, "complete")

(* run_microshard in the child.  First the pause marker, which ends child and *)
(* worker in good order (exit 0: no restart); then candidate_completed, which *)
(* skips a result already under this root, whoever produced it.               *)
ChildPauses(n) ==
    /\ pc[n] = "child" /\ cur[n] \in marker[n]
    /\ Goto(n, "stopped")
    /\ UNCHANGED <<coordVars, files, cur, pos, failures, acked, session, agentVars, faults>>

ChildSkips(n) ==
    /\ pc[n] = "child" /\ cur[n] \notin marker[n]
    /\ files[n][cur[n]][pos[n]] # NoNode
    /\ Advance(n)
    /\ UNCHANGED <<coordVars, files, cur, failures, acked, session, agentVars, faults>>

ChildComputes(n) ==
    /\ pc[n] = "child" /\ cur[n] \notin marker[n]
    /\ files[n][cur[n]][pos[n]] = NoNode
    /\ Goto(n, "computing")
    /\ UNCHANGED <<coordVars, files, cur, pos, failures, acked, session, agentVars, faults>>

ChildWritesOver(n) ==
    /\ pc[n] = "computing"
    /\ files' = [files EXCEPT ![n][cur[n]][pos[n]] = n]
    /\ Advance(n)
    /\ UNCHANGED <<coordVars, cur, failures, acked, session, agentVars, faults>>

(* write_candidate_result: a result that appeared meanwhile is the same one  *)
(* and is left alone.  The child does not look at the lease.                 *)
ChildWrites(n) ==
    /\ pc[n] = "computing"
    /\ files' = IF files[n][cur[n]][pos[n]] = NoNode
                THEN [files EXCEPT ![n][cur[n]][pos[n]] = n]
                ELSE files
    /\ Advance(n)
    /\ UNCHANGED <<coordVars, cur, failures, acked, session, agentVars, faults>>

(* A gateway that links the same path between the child's look and its       *)
(* write_once: "concurrent artifact collision" fails the child.              *)
ChildCollision(n) ==
    /\ pc[n] = "computing"
    /\ files[n][cur[n]][pos[n]] \notin {NoNode, n}
    /\ Goto(n, "off")
    /\ UNCHANGED <<coordVars, files, cur, pos, failures, acked, session, agentVars, faults>>

(* The heartbeat between the last micro-shard and complete_batch. *)
FinalHeartbeat(n) ==
    /\ pc[n] = "complete"
    /\ Beat(n)
    /\ Goto(n, "deliver")
    /\ UNCHANGED <<files, cur, pos, failures, acked, session, agentVars, faults>>

(* A heartbeat that raises terminates the child and ends the worker. *)
LeaseLost(n) ==
    /\ pc[n] \in {"shard", "child", "computing", "complete"}
    /\ \E age \in Ages : ~ActiveLease(n, cur[n], age)
    /\ Goto(n, "off")
    /\ UNCHANGED <<coordVars, files, cur, pos, failures, acked, session, agentVars, faults>>

(* LocalControl.complete_batch on the VPS: manifest of its own root, then    *)
(* mark_ingested.                                                            *)
LocalComplete(n) ==
    /\ pc[n] = "deliver" /\ n = VPS
    /\ NoNode \notin Producers(files[VPS][cur[n]])
    /\ MarkIngested(cur[n], Producers(files[VPS][cur[n]]))
    /\ acked' = [acked EXCEPT ![n] = @ \cup {cur[n]}]
    /\ Goto(n, "loop")
    /\ UNCHANGED <<files, cur, pos, failures, session, agentVars, faults>>

(* _owned_batch: the upload is admitted for any state its owner can be in.   *)
Owned(n, b) ==
    owner_node[b] = n /\ state[b] \in {"CLAIMED", "PAUSE_REQUESTED", "PAUSED"}

(* SshControl.complete_batch: build_batch_bundle from the local root (which  *)
(* requires a complete batch) and the gateway's owner check.  From here on   *)
(* the gateway process runs by itself, without looking at the lease again.   *)
StartUpload(n) ==
    /\ pc[n] = "deliver" /\ n # VPS /\ ~Serving(n)
    /\ NoNode \notin Producers(files[n][cur[n]])
    /\ IF Owned(n, cur[n])
       THEN /\ session' = [session EXCEPT ![n] =
                 [batch |-> cur[n], bundle |-> files[n][cur[n]], next |-> 1]]
            /\ Goto(n, "waiting")
       ELSE Goto(n, "off") /\ UNCHANGED session
    /\ UNCHANGED <<coordVars, files, cur, pos, failures, acked, agentVars, faults>>

(* SIGKILL, OOM, reboot of the worker machine, or its SSH client giving up:  *)
(* nothing on the VPS notices.                                               *)
Crash(n) ==
    /\ pc[n] \notin {"off", "stopped", "done"}
    /\ Fault
    /\ Goto(n, "off")
    /\ failures' = [failures EXCEPT ![n] = 0]
    /\ UNCHANGED <<coordVars, files, cur, pos, acked, session, agentVars>>

(* systemd's Restart=on-failure on the VPS, or an operator who starts any    *)
(* worker that has stopped; either way it begins at the head of the loop.    *)
Restart(n) ==
    /\ pc[n] \in {"off", "stopped"}
    /\ Goto(n, "loop")
    /\ UNCHANGED <<coordVars, files, cur, pos, failures, acked, session, agentVars, faults>>

-----------------------------------------------------------------------------
(* The gateway process serving an upload of n. *)

EndSession(n) == session' = [session EXCEPT ![n] = NoSession]

(* The client waiting for this process sees it end; a restarted one does not. *)
ClientSees(n, label) ==
    IF pc[n] = "waiting" THEN Goto(n, label) ELSE UNCHANGED pc

CanWriteAlways(n) == TRUE

(* write_once of the next artifact: creates the file, or accepts an existing *)
(* one with the same bytes.                                                  *)
CanWrite(n) ==
    LET s == session[n] IN
    files[VPS][s.batch][s.next] \in {NoNode, s.bundle[s.next]}

GatewayWriteKeeps(n) ==
    LET s == session[n] IN
    /\ Serving(n) /\ s.next <= CandidateCount
    /\ files' = IF files[VPS][s.batch][s.next] = NoNode
                THEN [files EXCEPT ![VPS][s.batch][s.next] = s.bundle[s.next]]
                ELSE files
    /\ session' = [session EXCEPT ![n].next = @ + 1]
    /\ UNCHANGED <<coordVars, workerVars, agentVars, faults>>

GatewayWrite(n) ==
    /\ Serving(n) /\ session[n].next <= CandidateCount
    /\ CanWrite(n)
    /\ files' = [files EXCEPT ![VPS][session[n].batch][session[n].next] =
                                 session[n].bundle[session[n].next]]
    /\ session' = [session EXCEPT ![n].next = @ + 1]
    /\ UNCHANGED <<coordVars, workerVars, agentVars, faults>>

GatewayCollisionAccepted(n) ==
    /\ Serving(n) /\ session[n].next <= CandidateCount
    /\ ~CanWrite(n)
    /\ acked' = [acked EXCEPT ![n] = @ \cup {session[n].batch}]
    /\ EndSession(n)
    /\ ClientSees(n, "loop")
    /\ UNCHANGED <<coordVars, files, cur, pos, failures, agentVars, faults>>

(* "artifact collision": the upload is refused; what it wrote stays. *)
GatewayCollision(n) ==
    /\ Serving(n) /\ session[n].next <= CandidateCount
    /\ ~CanWrite(n)
    /\ EndSession(n)
    /\ ClientSees(n, "off")
    /\ UNCHANGED <<coordVars, files, cur, pos, failures, acked, agentVars, faults>>

IngestUnverified(n) ==
    Serving(n) /\ MarkIngested(session[n].batch, Producers(session[n].bundle))

(* verify_batch_manifest against the archive, then mark_ingested.  The files *)
(* it compares are write-once, so the two calls are one step.                *)
Ingest(n) ==
    LET s == session[n] IN
    /\ Serving(n) /\ s.next > CandidateCount
    /\ Producers(files[VPS][s.batch]) = Producers(s.bundle)
    /\ MarkIngested(s.batch, Producers(s.bundle))

GatewayIngest(n) ==
    /\ Ingest(n)
    /\ acked' = IF pc[n] = "waiting"
                THEN [acked EXCEPT ![n] = @ \cup {session[n].batch}] ELSE acked
    /\ EndSession(n)
    /\ ClientSees(n, "loop")
    /\ UNCHANGED <<files, cur, pos, failures, agentVars, faults>>

IngestReplyLost(n) ==
    /\ Fault
    /\ Ingest(n)
    /\ EndSession(n)
    /\ ClientSees(n, "off")
    /\ UNCHANGED <<files, cur, pos, failures, acked, agentVars>>

(* The SSH connection drops or the VPS reboots: the process dies between two *)
(* of its steps.                                                             *)
GatewayDies(n) ==
    /\ Serving(n)
    /\ Fault
    /\ EndSession(n)
    /\ ClientSees(n, "off")
    /\ UNCHANGED <<coordVars, files, cur, pos, failures, acked, agentVars>>

Clock == Tick /\ UNCHANGED <<files, workerVars, session, agentVars, faults>>

-----------------------------------------------------------------------------
(* The operator's worker agent on node n, one command at a time.  `pause`    *)
(* sets the local marker, then asks the coordinator; `resume` and `release`  *)
(* ask the coordinator, then clear the marker.  The second half may be       *)
(* refused, or never happen.                                                 *)

Command(n, b, todo) ==
    /\ agent[n] = NoCommand /\ commands < MaxCommands
    /\ commands' = commands + 1
    /\ agent' = [agent EXCEPT ![n] = [batch |-> b, todo |-> todo]]
    /\ UNCHANGED <<files, workerVars, session, faults>>

CommandEnds(n) ==
    /\ agent' = [agent EXCEPT ![n] = NoCommand]
    /\ UNCHANGED <<files, workerVars, session, commands>>

AgentPause(n, b) ==
    /\ Command(n, b, "request")
    /\ marker' = [marker EXCEPT ![n] = @ \cup {b}]
    /\ UNCHANGED coordVars

AgentRequests(n) ==
    /\ agent[n].todo = "request"
    /\ \E age \in Ages :
          IF ActiveLease(n, agent[n].batch, age)
          THEN PauseRequest(n, agent[n].batch, age) ELSE UNCHANGED coordVars
    /\ CommandEnds(n)
    /\ UNCHANGED <<marker, faults>>

(* ack-paused: the operator's word that the worker has stopped. *)
AgentAcks(n, b) ==
    /\ agent[n] = NoCommand
    /\ MarkPaused(n, b)
    /\ UNCHANGED <<files, workerVars, session, agentVars, faults>>

AgentResumesClearingFirst(n, b) ==
    /\ state[b] = "PAUSED" /\ owner_node[b] = n
    /\ Command(n, b, "clear")
    /\ marker' = [marker EXCEPT ![n] = @ \ {b}]
    /\ UNCHANGED coordVars

AgentResumes(n, b) ==
    /\ Command(n, b, "clear")
    /\ \E age \in Ages : Resume(n, b, age)
    /\ UNCHANGED marker

AgentReleases(n, b) ==
    /\ Command(n, b, "clear")
    /\ Release(n, b)
    /\ UNCHANGED marker

AgentClears(n) ==
    /\ agent[n].todo = "clear"
    /\ marker' = [marker EXCEPT ![n] = @ \ {agent[n].batch}]
    /\ CommandEnds(n)
    /\ UNCHANGED <<coordVars, faults>>

AgentDies(n) ==
    /\ agent[n] # NoCommand
    /\ Fault
    /\ CommandEnds(n)
    /\ UNCHANGED <<coordVars, marker>>

-----------------------------------------------------------------------------
Init ==
    /\ CoordInit
    /\ files = [r \in Nodes |-> [b \in Batches |-> NoFile]]
    /\ pc = [n \in Workers |-> "loop"]
    /\ cur = [n \in Workers |-> 1]
    /\ pos = [n \in Workers |-> 1]
    /\ failures = [n \in Workers |-> 0]
    /\ session = [n \in Workers |-> NoSession]
    /\ acked = [n \in Workers |-> {}]
    /\ marker = [n \in Workers |-> {}]
    /\ agent = [n \in Workers |-> NoCommand]
    /\ commands = 0
    /\ faults = 0

WorkerStep(n) ==
    \/ GlobalComplete(n) \/ WorkLeft(n) \/ Claim(n) \/ ClaimRefused(n)
    \/ StartChild(n) \/ ChildHeartbeat(n) \/ ChildPauses(n) \/ ChildSkips(n)
    \/ ChildComputes(n) \/ ChildWrites(n) \/ ChildCollision(n)
    \/ FinalHeartbeat(n) \/ LeaseLost(n)
    \/ LocalComplete(n) \/ StartUpload(n) \/ Restart(n)

GatewayStep(n) == GatewayWrite(n) \/ GatewayCollision(n) \/ GatewayIngest(n)

FaultStep(n) ==
    \/ ClaimUnanswered(n) \/ Crash(n) \/ IngestReplyLost(n) \/ GatewayDies(n)

AgentStep(n) ==
    \/ \E b \in Batches : \/ AgentPause(n, b) \/ AgentAcks(n, b)
                          \/ AgentResumes(n, b) \/ AgentReleases(n, b)
    \/ AgentRequests(n) \/ AgentClears(n) \/ AgentDies(n)

NodeNext(n) == WorkerStep(n) \/ GatewayStep(n) \/ FaultStep(n) \/ AgentStep(n)

Next == (\E n \in Workers : NodeNext(n)) \/ Clock

Spec == Init /\ [][Next]_vars

-----------------------------------------------------------------------------
Labels == {"loop", "claim", "shard", "child", "computing", "complete", "deliver", "waiting",
           "off", "stopped", "done"}

Sessions == [batch : Batches \cup {0},
             bundle : [Candidates -> Nodes \cup {NoNode}],
             next : 0..(CandidateCount + 1)]

(* Every variable stays in its domain. *)
TypeOK ==
    /\ CoordTypeOK
    /\ files \in [Nodes -> [Batches -> [Candidates -> Nodes \cup {NoNode}]]]
    /\ pc \in [Workers -> Labels]
    /\ cur \in [Workers -> Batches]
    /\ pos \in [Workers -> Candidates]
    /\ failures \in [Workers -> 0..MaxControlFailures]
    /\ session \in [Workers -> Sessions]
    /\ acked \in [Workers -> SUBSET Batches]
    /\ marker \in [Workers -> SUBSET Batches]
    /\ agent \in [Workers -> [batch : Batches \cup {0},
                              todo : {"none", "request", "clear"}]]
    /\ commands \in 0..MaxCommands
    /\ faults \in 0..MaxFaults

(* docs: "VPS verifies artifact SHA .. and candidate coverage; VPS writes    *)
(* immutable accepted copies".  Whatever uploads, local completions, crashes *)
(* and lease losses interleave, an INGESTED batch is complete in the archive *)
(* and its manifest names exactly the producers of the archived files.       *)
ArchiveMatchesManifest ==
    \A b \in Batches : state[b] = "INGESTED" =>
        /\ NoNode \notin Producers(files[VPS][b])
        /\ ingested_manifest[b] = Producers(files[VPS][b])

(* docs: "worker may archive/delete its local copy only after explicit       *)
(* INGESTED_ACCEPTED".  Whatever a worker counts as completed is ingested.   *)
AckedIsIngested ==
    \A n \in Workers : \A b \in acked[n] : state[b] = "INGESTED"

(* While a gateway process serves a bundle, everything it has passed over is *)
(* in the archive byte for byte: no rival upload or local child replaced it. *)
SessionPrefixArchived ==
    \A n \in Workers : Serving(n) =>
        \A c \in Candidates : c < session[n].next =>
            files[VPS][session[n].batch][c] = session[n].bundle[c]

(* What is delivered is archived: the two above, which a late upload, a dead *)
(* gateway and a rival's ingest could each break.                            *)
DeliveredIsArchived == AckedIsIngested /\ SessionPrefixArchived

(* docs: "safe pause prevents a new candidate from starting".  A batch the   *)
(* coordinator holds as paused, or being paused, has its marker on the       *)
(* owner, where the next child will find it: no order of commands, refusals  *)
(* and crashes leaves a paused batch that its own worker would go on with.   *)
PausedIsMarked ==
    \A n \in Workers, b \in Batches :
        state[b] \in {"PAUSE_REQUESTED", "PAUSED"} /\ owner_node[b] = n
        => b \in marker[n]

(* docs: "Candidate result artifacts are immutable": no step changes or      *)
(* removes a result file of any root.                                        *)
FileStep ==
    \A r \in Nodes, b \in Batches, c \in Candidates :
        files[r][b][c] # NoNode => files'[r][b][c] = files[r][b][c]

FilesImmutable == [][FileStep]_vars

(* The run implements the archive it promises. *)
Archive == INSTANCE ResultArchive WITH
    results <- files[VPS], accepted <- ingested_manifest

ImplementsArchive == Archive!ArchiveSpec

(* docs: "A logical batch may eventually be completed by multiple nodes      *)
(* across separate safe resume/transfer episodes", and write_candidate_result: *)
(* "An identical rerun on another node is scientifically idempotent."        *)
(* Results are deterministic here, so no upload by a batch's owner should be *)
(* refused as an artifact collision.                                         *)
IdenticalRerunAccepted ==
    \A n \in Workers :
        Serving(n) /\ session[n].next <= CandidateCount => CanWrite(n)

(* docs: "Expired leases become eligible for recovery."  However uploads of  *)
(* rival owners interleave and die, a batch not yet ingested can still be    *)
(* delivered: by the VPS worker, which ingests whatever its root holds, or   *)
(* by a remote worker whose bundle no archived file contradicts.             *)
BatchDeliverable ==
    \A b \in Batches : state[b] # "INGESTED" =>
        \E n \in Workers :
            \/ n = VPS
            \/ \A c \in Candidates : files[VPS][b][c] \in {NoNode, n}

-----------------------------------------------------------------------------
(* Liveness.  A worker that is up renews its lease before it ends:           *)
(* run_child_with_heartbeat refuses heartbeat_seconds >= lease_seconds.      *)
Timely ==
    \A n \in Workers :
        /\ pc[n] \in {"shard", "child", "computing", "complete"}
        /\ owner_node[cur[n]] = n
        => lease_left[cur[n]] > 0

TimelyNext ==
    (\E n \in Workers : NodeNext(n)) \/ (Timely /\ Clock)

Duties == {"poll", "claim", "start", "compute", "write", "heartbeat", "finish", "restart", "gateway"}

\* Only the VPS worker has a unit with Restart=on-failure.
DutiesOf(n) == IF n = VPS THEN Duties ELSE Duties \ {"restart"}

\* What the scheduler of node n owes it, one by one.
Duty(n, k) ==
    \/ k = "poll" /\ (GlobalComplete(n) \/ WorkLeft(n))
    \/ k = "claim" /\ (Claim(n) \/ ClaimRefused(n))
    \/ k = "start" /\ StartChild(n)
    \/ k = "compute" /\ (ChildPauses(n) \/ ChildSkips(n) \/ ChildComputes(n))
    \/ k = "write" /\ (ChildWrites(n) \/ ChildCollision(n))
    \/ k = "heartbeat" /\ (FinalHeartbeat(n) \/ LeaseLost(n))
    \/ k = "finish" /\ (LocalComplete(n) \/ StartUpload(n))
    \/ k = "restart" /\ Restart(n)
    \/ k = "gateway" /\ GatewayStep(n)

Fairness ==
    /\ \A n \in Workers : \A k \in DutiesOf(n) : WF_vars(Duty(n, k))
    /\ WF_vars(Timely /\ Clock)

LiveSpec == Init /\ [][TimelyNext]_vars /\ Fairness

(* orchestrator docstring: "repeats until all 14 batches are ingested".      *)
EventuallyAllIngested == <>AllIngested
=============================================================================
