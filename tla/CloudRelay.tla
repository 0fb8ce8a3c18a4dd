------------------------------ MODULE CloudRelay ------------------------------
(***************************************************************************)
(* The Cloudflare coordinator (infra/cloudflare/yatl-coordinator): a       *)
(* Worker over a D1 table of batches and an R2 bucket of results, the      *)
(* https client of the nodes (production_worker_client.py, upload_batch of *)
(* production_result_transfer.py) and the pull of the VPS                  *)
(* (ingest_ready_batches_once).                                            *)
(*                                                                         *)
(* Requests run concurrently: a handler samples Date.now() when it starts, *)
(* and every await after that (a D1 statement, the body, an R2 call) is a  *)
(* step of its own.  A client that waits too long gives up its call; the   *)
(* handler goes on.  The event log and last_seen_ms are written after the  *)
(* change they describe and read by nobody; they are left out.             *)
(*                                                                         *)
(* As in DistributedRun a result file is identified by its producer: two   *)
(* nodes compute the same result and the same object key, but the bytes    *)
(* and the batch manifest name the producing node.                         *)
(***************************************************************************)
EXTENDS Integers, FiniteSets, FiniteSetsExt

CONSTANTS
    RelayNodes, None,
    RelayBatchCount,      \* batches of the plan
    RelayCandidateCount,  \* candidates per batch
    Lease,                \* lease_seconds of every call
    MaxTime,              \* bound on the clock
    MaxCalls,             \* bound on the requests of each node
    MaxLate,              \* bound on calls a client gives up while they run
    MaxPullFaults,        \* bound on crashes of the pull
    MaxAttempts,          \* MAX_CLAIM_ATTEMPTS
    Used                  \* bound: the kinds of request a run issues

Kinds == {"claim", "auto", "heartbeat", "pause", "paused", "resume", "release",
          "artifact", "manifest", "ready"}

RelayBatches == 1..RelayBatchCount
RelayCandidates == 1..RelayCandidateCount

ASSUME RelayAssumption ==
    /\ {RelayBatchCount, RelayCandidateCount, Lease, MaxAttempts} \subseteq Nat \ {0}
    /\ {MaxTime, MaxCalls, MaxLate, MaxPullFaults} \subseteq Nat
    /\ Used \subseteq Kinds
    /\ None \notin RelayNodes /\ None \notin Nat

VARIABLES
    row,        \* the batches table: state, owner, lease end, manifest
    objects,    \* R2: the producer of the object stored for a candidate
    manifests,  \* R2: the manifests stored for a batch
    clock,
    call,       \* the request a node's client waits for, or None
    late,       \* requests whose client gave up
    sent,       \* upload_batch: how far the upload of the batch has got
    calls, lates, pullFaults,
    toldEnd,    \* lease end of a batch a node was told by a heartbeat or resume
    granted,    \* ... by a claim
    archive,    \* files under the root of the VPS: their producer
    pull        \* ingest_batch_from_r2 in progress: batch, manifest, next

tableVars == <<row, objects, manifests>>
clientVars == <<call, late, sent, calls, lates, toldEnd, granted>>
vpsVars == <<archive, pull, pullFaults>>
relayVars == <<tableVars, clock, clientVars, vpsVars>>

NoPull == [batch |-> 0, manifest |-> None, next |-> 0]

-----------------------------------------------------------------------------
(* A request: its node, its batch, the handler's clock sample and the await  *)
(* it is at.                                                                 *)
Request(n, kind, b, c) ==
    [node |-> n, kind |-> kind, batch |-> b, cand |-> c, now |-> clock,
     at |-> IF kind = "auto" THEN "select" ELSE IF kind \in {"artifact", "manifest", "ready"}
            THEN "check" ELSE "update", left |-> MaxAttempts]

(* upload_batch sends every artifact, then the manifest, then ready, each    *)
(* after the last was confirmed.                                             *)
InOrder(n, kind, b, c) ==
    CASE kind = "artifact" -> sent[n][b] = c - 1
      [] kind = "manifest" -> sent[n][b] = RelayCandidateCount
      [] kind = "ready" -> sent[n][b] = RelayCandidateCount + 1
      [] OTHER -> TRUE

Send(n, kind, b, c) ==
    /\ call[n] = None /\ calls[n] < MaxCalls
    /\ InOrder(n, kind, b, c)
    /\ call' = [call EXCEPT ![n] = Request(n, kind, b, c)]
    /\ calls' = [calls EXCEPT ![n] = @ + 1]
    /\ UNCHANGED <<tableVars, clock, late, sent, lates, toldEnd, granted, vpsVars>>

(* The timeout of urlopen: the command fails, the handler goes on. *)
GiveUp(n) ==
    /\ call[n] # None /\ lates < MaxLate
    /\ late' = late \cup {call[n]}
    /\ call' = [call EXCEPT ![n] = None]
    /\ sent' = [sent EXCEPT ![n][call[n].batch] = 0]
    /\ lates' = lates + 1
    /\ UNCHANGED <<tableVars, clock, calls, toldEnd, granted, vpsVars>>

(* The handler of r reaches its next await, or answers.                      *)
RelayAdvance(r, to) ==
    IF r \in late THEN late' = (late \ {r}) \cup {to} /\ UNCHANGED call
    ELSE call' = [call EXCEPT ![r.node] = to] /\ UNCHANGED late

Answer(r) ==
    IF r \in late THEN late' = late \ {r} /\ UNCHANGED call
    ELSE call' = [call EXCEPT ![r.node] = None] /\ UNCHANGED late

Refuse(r) ==
    /\ Answer(r)
    /\ sent' = IF r \in late THEN sent ELSE [sent EXCEPT ![r.node][r.batch] = 0]
    /\ UNCHANGED <<tableVars, toldEnd, granted>>

(* History: what a live reply promises, and the end of a promise when the    *)
(* node's own request gives the batch up.                                    *)
Promise(p, r, until) ==
    IF r \in late THEN p ELSE [p EXCEPT ![r.node][r.batch] = until]

Withdraw(p, r) == [p EXCEPT ![r.node][r.batch] = 0]

-----------------------------------------------------------------------------
ClaimableInclusive(b, n, now) ==
    \/ row[b].state = "AVAILABLE"
    \/ row[b].state = "CLAIMED" /\ (row[b].owner = n \/ row[b].lease <= now)

(* The WHERE clause of claimSpecific. *)
Claimable(b, n, now) ==
    \/ row[b].state = "AVAILABLE"
    \/ row[b].state = "CLAIMED" /\ (row[b].owner = n \/ row[b].lease < now)

Held(b, n, now) ==
    row[b].state = "CLAIMED" /\ row[b].owner = n /\ row[b].lease >= now

RelayOwned(b, n, states) == row[b].state \in states /\ row[b].owner = n

(* claimAuto: the first claimable batch, then claimSpecific on it. *)
AutoSelect(r) ==
    LET free == {b \in RelayBatches : Claimable(b, None, r.now)} IN
    /\ r.kind = "auto" /\ r.at = "select"
    /\ IF free = {} \/ r.left = 0 THEN Refuse(r)
       ELSE /\ RelayAdvance(r, [r EXCEPT !.batch = Min(free), !.at = "update",
                                    !.left = @ - 1])
            /\ UNCHANGED <<tableVars, sent, toldEnd, granted>>

ClaimUpdate(r) ==
    /\ r.kind \in {"claim", "auto"} /\ r.at = "update"
    /\ IF Claimable(r.batch, r.node, r.now)
       THEN /\ row' = [row EXCEPT ![r.batch] =
                         [state |-> "CLAIMED", owner |-> r.node,
                          lease |-> r.now + Lease, manifest |-> @.manifest]]
            /\ RelayAdvance(r, [r EXCEPT !.at = "reply"])
            /\ UNCHANGED <<objects, manifests, sent, toldEnd, granted>>
       ELSE IF r.kind = "auto"
       THEN /\ RelayAdvance(r, [r EXCEPT !.at = "select"])
            /\ UNCHANGED <<tableVars, sent, toldEnd, granted>>
       ELSE Refuse(r)

(* The reply is a second SELECT of the row. *)
ClaimReply(r) ==
    /\ r.at = "reply"
    /\ Answer(r)
    /\ granted' = IF row[r.batch].lease = None THEN granted
                  ELSE Promise(granted, r, row[r.batch].lease)
    /\ UNCHANGED <<tableVars, sent, toldEnd>>

HeartbeatUpdate(r) ==
    /\ r.kind = "heartbeat"
    /\ IF Held(r.batch, r.node, r.now)
       THEN /\ row' = [row EXCEPT ![r.batch].lease = r.now + Lease]
            /\ toldEnd' = Promise(toldEnd, r, r.now + Lease)
            /\ Answer(r)
            /\ UNCHANGED <<objects, manifests, sent, granted>>
       ELSE Refuse(r)

ResumeUpdate(r) ==
    /\ r.kind = "resume"
    /\ IF RelayOwned(r.batch, r.node, {"PAUSED"})
       THEN /\ row' = [row EXCEPT ![r.batch].state = "CLAIMED",
                                  ![r.batch].lease = r.now + Lease]
            /\ toldEnd' = Promise(toldEnd, r, r.now + Lease)
            /\ Answer(r)
            /\ UNCHANGED <<objects, manifests, sent, granted>>
       ELSE Refuse(r)

(* The updates by which a node lets go of the running lease.                 *)
LetGo(r, guard, new) ==
    IF guard
    THEN /\ row' = [row EXCEPT ![r.batch] = new]
         /\ toldEnd' = Withdraw(toldEnd, r) /\ granted' = Withdraw(granted, r)
         /\ Answer(r)
         /\ UNCHANGED <<objects, manifests, sent>>
    ELSE Refuse(r)

PauseUpdate(r) ==
    /\ r.kind = "pause"
    /\ LetGo(r, Held(r.batch, r.node, r.now),
             [row[r.batch] EXCEPT !.state = "PAUSE_REQUESTED"])

PausedUpdate(r) ==
    /\ r.kind = "paused"
    /\ LetGo(r, RelayOwned(r.batch, r.node, {"PAUSE_REQUESTED"}),
             [row[r.batch] EXCEPT !.state = "PAUSED", !.lease = None])

ReleaseUpdate(r) ==
    /\ r.kind = "release"
    /\ LetGo(r, RelayOwned(r.batch, r.node, {"CLAIMED", "PAUSE_REQUESTED", "PAUSED"}),
             [row[r.batch] EXCEPT !.state = "AVAILABLE", !.owner = None, !.lease = None])

-----------------------------------------------------------------------------
(* PUT artifact and PUT manifest: the owner is checked, then the body is     *)
(* awaited and stored, unconditionally, under the key of its semantic digest.*)
PutCheck(r) ==
    /\ r.kind \in {"artifact", "manifest"} /\ r.at = "check"
    /\ IF RelayOwned(r.batch, r.node, IF r.kind = "artifact" THEN {"CLAIMED", "AWAITING_INGEST"}
                                 ELSE {"CLAIMED"})
       THEN RelayAdvance(r, [r EXCEPT !.at = "put"])
            /\ UNCHANGED <<tableVars, sent, toldEnd, granted>>
       ELSE Refuse(r)

Confirmed(r, n) ==
    sent' = IF r \in late THEN sent ELSE [sent EXCEPT ![r.node][r.batch] = n]

PutArtifact(r) ==
    /\ r.kind = "artifact" /\ r.at = "put"
    /\ objects' = [objects EXCEPT ![r.batch][r.cand] = r.node]
    /\ Confirmed(r, r.cand)
    /\ Answer(r)
    /\ UNCHANGED <<row, manifests, toldEnd, granted>>

PutManifest(r) ==
    /\ r.kind = "manifest" /\ r.at = "put"
    /\ manifests' = [manifests EXCEPT ![r.batch] = @ \cup {r.node}]
    /\ Confirmed(r, RelayCandidateCount + 1)
    /\ Answer(r)
    /\ UNCHANGED <<row, objects, toldEnd, granted>>

ReadyCheck(r) ==
    /\ r.kind = "ready" /\ r.at = "check"
    /\ IF RelayOwned(r.batch, r.node, {"CLAIMED"}) /\ r.node \in manifests[r.batch]
       THEN RelayAdvance(r, [r EXCEPT !.at = "update"])
            /\ UNCHANGED <<tableVars, sent, toldEnd, granted>>
       ELSE Refuse(r)

(* AWAITING_INGEST keeps its owner; no lease is checked. *)
ReadyUpdate(r) ==
    /\ r.kind = "ready" /\ r.at = "update"
    /\ LetGo(r, RelayOwned(r.batch, r.node, {"CLAIMED"}),
             [row[r.batch] EXCEPT !.state = "AWAITING_INGEST", !.lease = None,
                                  !.manifest = r.node])

Handle(r) ==
    /\ \/ AutoSelect(r) \/ ClaimUpdate(r) \/ ClaimReply(r) \/ HeartbeatUpdate(r)
       \/ ResumeUpdate(r) \/ PauseUpdate(r) \/ PausedUpdate(r) \/ ReleaseUpdate(r)
       \/ PutCheck(r) \/ PutArtifact(r) \/ PutManifest(r)
       \/ ReadyCheck(r) \/ ReadyUpdate(r)
    /\ UNCHANGED <<clock, calls, lates, vpsVars>>

-----------------------------------------------------------------------------
(* The pull: status, then manifest and objects, each saved with write_once,  *)
(* verify_batch_manifest on the saved files, the acknowledgement.            *)
PullStart(b) ==
    /\ pull = NoPull /\ row[b].state = "AWAITING_INGEST"
    /\ pull' = [batch |-> b, manifest |-> row[b].manifest, next |-> 1]
    /\ UNCHANGED <<tableVars, clock, clientVars, archive, pullFaults>>

PullObject ==
    LET b == pull.batch c == pull.next IN
    /\ pull # NoPull /\ c <= RelayCandidateCount
    /\ IF archive[b][c] \in {None, objects[b][c]}
       THEN /\ archive' = [archive EXCEPT ![b][c] = objects[b][c]]
            /\ pull' = [pull EXCEPT !.next = c + 1]
       ELSE pull' = NoPull /\ UNCHANGED archive
    /\ UNCHANGED <<tableVars, clock, clientVars, pullFaults>>

(* verify_batch_manifest: the manifest rebuilt from the files is this one. *)
Verified(b, manifest) == {archive[b][c] : c \in RelayCandidates} = {manifest}

PullAcknowledge ==
    LET b == pull.batch IN
    /\ pull # NoPull /\ pull.next > RelayCandidateCount
    /\ row' = IF /\ Verified(b, pull.manifest)
                 /\ row[b].state = "AWAITING_INGEST" /\ row[b].manifest = pull.manifest
              THEN [row EXCEPT ![b].state = "INGESTED", ![b].owner = None]
              ELSE row
    /\ pull' = NoPull
    /\ UNCHANGED <<objects, manifests, clock, clientVars, archive, pullFaults>>

PullCrash ==
    /\ pull # NoPull /\ pullFaults < MaxPullFaults
    /\ pull' = NoPull /\ pullFaults' = pullFaults + 1
    /\ UNCHANGED <<tableVars, clock, clientVars, archive>>

RelayTick ==
    /\ clock < MaxTime
    /\ clock' = clock + 1
    /\ UNCHANGED <<tableVars, clientVars, vpsVars>>

-----------------------------------------------------------------------------
RelayInit ==
    /\ row = [b \in RelayBatches |-> [state |-> "AVAILABLE", owner |-> None,
                                 lease |-> None, manifest |-> None]]
    /\ objects = [b \in RelayBatches |-> [c \in RelayCandidates |-> None]]
    /\ manifests = [b \in RelayBatches |-> {}]
    /\ clock = 1
    /\ call = [n \in RelayNodes |-> None] /\ late = {}
    /\ sent = [n \in RelayNodes |-> [b \in RelayBatches |-> 0]]
    /\ calls = [n \in RelayNodes |-> 0] /\ lates = 0 /\ pullFaults = 0
    /\ toldEnd = [n \in RelayNodes |-> [b \in RelayBatches |-> 0]]
    /\ granted = toldEnd
    /\ archive = objects
    /\ pull = NoPull

Requests == ({call[n] : n \in RelayNodes} \ {None}) \cup late

RelayNext ==
    \/ \E n \in RelayNodes, kind \in Used, b \in RelayBatches, c \in RelayCandidates :
           /\ kind # "artifact" => c = 1
           /\ kind = "auto" => b = 1
           /\ Send(n, kind, b, c)
    \/ \E n \in RelayNodes : GiveUp(n)
    \/ \E r \in Requests : Handle(r)
    \/ \E b \in RelayBatches : PullStart(b)
    \/ PullObject \/ PullAcknowledge \/ PullCrash
    \/ RelayTick

RelaySpec == RelayInit /\ [][RelayNext]_relayVars

-----------------------------------------------------------------------------
\* The columns of a row agree with its state, whatever handlers interleave
\* between their reads and their updates; a batch reported ready still belongs
\* to the node that reported it, under a manifest that is in the bucket.
RelayRowShape ==
    \A b \in RelayBatches :
        /\ (row[b].owner = None) <=> (row[b].state \in {"AVAILABLE", "INGESTED"})
        /\ (row[b].lease # None) <=> (row[b].state \in {"CLAIMED", "PAUSE_REQUESTED"})
        /\ row[b].state \in {"AWAITING_INGEST", "INGESTED"} =>
               row[b].manifest \in manifests[b]
        /\ row[b].state = "AWAITING_INGEST" => row[b].manifest = row[b].owner

\* handleIngested answers a pull that has verified what it saved: an INGESTED
\* batch is complete on the VPS and is the batch its manifest describes,
\* whatever late uploads did to the bucket meanwhile.
IngestedIsArchived ==
    \A b \in RelayBatches :
        row[b].state = "INGESTED" =>
            {archive[b][c] : c \in RelayCandidates} = {row[b].manifest}

\* "Heartbeats extend the lease": a node that a heartbeat or a resume told of
\* a lease end, and that has not let go since, owns the batch until then.
RelayHeldUntilTold ==
    \A n \in RelayNodes, b \in RelayBatches :
        clock <= toldEnd[n][b] => row[b].owner = n

\* The relay is safe: rows are consistent, what is ingested is archived, and, as
\* long as no client has given up a call that still runs, a node keeps its batch
\* until the lease end it was told.
RelayIsSafe ==
    /\ RelayRowShape /\ IngestedIsArchived
    /\ lates = 0 => RelayHeldUntilTold

\* "A live lease prevents another node from claiming the same batch": a node
\* that a claim told of a lease end owns the batch until then.
ClaimedUntilTold ==
    \A n \in RelayNodes, b \in RelayBatches :
        clock <= granted[n][b] => row[b].owner = n

\* "The VPS can then pull, hash-verify, reconcile, and mark the batch ingested
\* without manual file transfer": what the VPS has saved of a batch that awaits
\* ingest is of the producer its manifest names.
ReadyIsIngestible ==
    \A b \in RelayBatches, c \in RelayCandidates :
        row[b].state = "AWAITING_INGEST" => archive[b][c] \in {None, row[b].manifest}
=============================================================================
