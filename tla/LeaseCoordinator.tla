-------------------------- MODULE LeaseCoordinator --------------------------
(***************************************************************************)
(* The SQLite batch coordinator of the distributed MCF-PROD-001 run:       *)
(* research/mass_candidate_factory/production_distributed.py, the          *)
(* functions init_coordinator .. mark_ingested.                            *)
(*                                                                         *)
(* Every operation is one BEGIN IMMEDIATE transaction, so each is one      *)
(* action.  What is NOT atomic is the clock: `now` is read before the      *)
(* transaction starts, and sqlite3.connect(timeout=30) may then wait for   *)
(* the write lock.  An operation therefore runs with a clock sample that   *)
(* is `age` time units old, 0 <= age <= BusyTimeout.                       *)
(*                                                                         *)
(* Time is kept relative to the wall clock, so that it needs no bound:     *)
(* lease_left[b] is lease_until_ms - clock.  The code's test               *)
(* lease_until_ms < now, with now = clock - age, is lease_left < -age; no  *)
(* operation can tell apart leases that lapsed more than BusyTimeout ago.  *)
(*                                                                         *)
(* Abstracted: batch_sha256 (fixed by the plan), updated_at_ms (never read *)
(* by a guard) and the plan binding, which is the same for every caller.   *)
(* A call that raises rolls its transaction back and is not a step.        *)
(***************************************************************************)
EXTENDS Integers

CONSTANTS
    Nodes,        \* enrolled node ids (NODE-VPS, NODE-LAPTOP, ...)
    NoNode,       \* SQL NULL in column owner_node
    BatchCount,   \* number of frozen batches; batch_code order is 1..BatchCount
    Manifests,    \* batch result manifests that pass structural validation
    NoManifest,   \* SQL NULL in column ingested_manifest_sha256
    LeaseOf,      \* LeaseOf[n]: the lease_seconds node n is configured with
    BusyTimeout   \* how old a clock sample can be when its transaction runs

ASSUME ConstantsAssumption ==
    /\ NoNode \notin Nodes
    /\ NoManifest \notin Manifests
    /\ BatchCount \in Nat \ {0}
    /\ LeaseOf \in [Nodes -> Nat \ {0}]
    /\ BusyTimeout \in Nat

Batches == 1..BatchCount

Ages == 0..BusyTimeout

\* A lease that has lapsed for every possible clock sample.
Lapsed == -(BusyTimeout + 1)

\* SQL NULL in column lease_until_ms, outside the range of lease_left.
NoLease == -(BusyTimeout + 2)

\* The states a row of this coordinator reaches.  AWAITING_INGEST and BLOCKED
\* are refused by claim_batch but never written by this module.
States == {"AVAILABLE", "CLAIMED", "PAUSE_REQUESTED", "PAUSED", "INGESTED"}

VARIABLES
    state,              \* batches.state
    owner_node,         \* batches.owner_node
    lease_left,         \* batches.lease_until_ms, relative to the clock
    ingested_manifest,  \* batches.ingested_manifest_sha256
    told                \* history: told[n][b] is the latest lease end, relative
                        \* to the clock, that a reply granted n for b since n
                        \* last gave b up (Lapsed: none, or long past)

coordVars == <<state, owner_node, lease_left, ingested_manifest, told>>

-----------------------------------------------------------------------------
(* Faulty variants, each defined before the operator it is a variant of;     *)
(* the mutation runs put one in its place.                                   *)
ExpiredInclusive(b, age) ==
    state[b] = "CLAIMED" /\ lease_left[b] # NoLease /\ lease_left[b] <= -age

ExpiredWhilePausing(b, age) ==
    /\ state[b] \in {"CLAIMED", "PAUSE_REQUESTED"}
    /\ lease_left[b] # NoLease /\ lease_left[b] < -age

ExpiredNever(b, age) == FALSE

(* UPDATE .. WHERE state='CLAIMED' AND lease_until_ms < now: the sweep every *)
(* claim makes over the whole table before it looks for its batch.  A NULL   *)
(* lease is not less than anything in SQL.                                   *)
Expired(b, age) ==
    state[b] = "CLAIMED" /\ lease_left[b] # NoLease /\ lease_left[b] < -age

Grant(n, b, left) ==
    told' = [told EXCEPT ![n][b] = IF left > @ THEN left ELSE @]

GivenUp(n, b) == told' = [told EXCEPT ![n][b] = Lapsed]

(* The rows a claim of b leaves behind: expired rows made AVAILABLE, b owned *)
(* by n.                                                                     *)
ClaimRows(n, b, age) ==
    /\ state' = [x \in Batches |->
                   IF x = b THEN "CLAIMED"
                   ELSE IF Expired(x, age) THEN "AVAILABLE" ELSE state[x]]
    /\ owner_node' = [x \in Batches |->
                   IF x = b THEN n
                   ELSE IF Expired(x, age) THEN NoNode ELSE owner_node[x]]
    /\ lease_left' = [x \in Batches |->
                   IF x = b THEN LeaseOf[n] - age
                   ELSE IF Expired(x, age) THEN NoLease ELSE lease_left[x]]
    /\ Grant(n, b, LeaseOf[n] - age)
    /\ UNCHANGED ingested_manifest

AvailableAt(b, age) == state[b] = "AVAILABLE" \/ Expired(b, age)

(* claim_batch(batch_code=b): refused when the row is ingested or paused, or *)
(* claimed by another node under a live lease.  The owner's own claim of a   *)
(* batch it holds is accepted and renews the lease.                          *)
ClaimSpecific(n, b, age) ==
    /\ \/ AvailableAt(b, age)
       \/ state[b] = "CLAIMED" /\ owner_node[b] = n
    /\ ClaimRows(n, b, age)

(* claim_batch(batch_code=None): the first available batch in code order. *)
ClaimNext(n, b, age) ==
    /\ AvailableAt(b, age)
    /\ \A x \in Batches : AvailableAt(x, age) => b <= x
    /\ ClaimRows(n, b, age)

(* The guard heartbeat and pause-request share: a live lease of this node. *)
ActiveLease(n, b, age) ==
    state[b] = "CLAIMED" /\ owner_node[b] = n /\ lease_left[b] >= -age

Heartbeat(n, b, age) ==
    /\ ActiveLease(n, b, age)
    /\ lease_left' = [lease_left EXCEPT ![b] = LeaseOf[n] - age]
    /\ Grant(n, b, LeaseOf[n] - age)
    /\ UNCHANGED <<state, owner_node, ingested_manifest>>

PauseRequest(n, b, age) ==
    /\ ActiveLease(n, b, age)
    /\ state' = [state EXCEPT ![b] = "PAUSE_REQUESTED"]
    /\ GivenUp(n, b)
    /\ UNCHANGED <<owner_node, lease_left, ingested_manifest>>

MarkPausedKeepsLease(n, b) ==
    /\ state[b] = "PAUSE_REQUESTED" /\ owner_node[b] = n
    /\ state' = [state EXCEPT ![b] = "PAUSED"]
    /\ UNCHANGED <<owner_node, lease_left, ingested_manifest, told>>

(* coordinator_mark_paused: no lease check, only the matching pause request. *)
MarkPaused(n, b) ==
    /\ state[b] = "PAUSE_REQUESTED" /\ owner_node[b] = n
    /\ state' = [state EXCEPT ![b] = "PAUSED"]
    /\ lease_left' = [lease_left EXCEPT ![b] = NoLease]
    /\ UNCHANGED <<owner_node, ingested_manifest, told>>

Resume(n, b, age) ==
    /\ state[b] = "PAUSED" /\ owner_node[b] = n
    /\ state' = [state EXCEPT ![b] = "CLAIMED"]
    /\ lease_left' = [lease_left EXCEPT ![b] = LeaseOf[n] - age]
    /\ Grant(n, b, LeaseOf[n] - age)
    /\ UNCHANGED <<owner_node, ingested_manifest>>

Release(n, b) ==
    /\ owner_node[b] = n
    /\ state[b] \in {"CLAIMED", "PAUSE_REQUESTED", "PAUSED"}
    /\ state' = [state EXCEPT ![b] = "AVAILABLE"]
    /\ owner_node' = [owner_node EXCEPT ![b] = NoNode]
    /\ lease_left' = [lease_left EXCEPT ![b] = NoLease]
    /\ GivenUp(n, b)
    /\ UNCHANGED ingested_manifest

(* mark_ingested checks neither owner nor lease: only that an ingested batch *)
(* is not re-ingested under a different manifest.                            *)
MarkIngested(b, m) ==
    /\ ~(state[b] = "INGESTED" /\ ingested_manifest[b] # m)
    /\ state' = [state EXCEPT ![b] = "INGESTED"]
    /\ owner_node' = [owner_node EXCEPT ![b] = NoNode]
    /\ lease_left' = [lease_left EXCEPT ![b] = NoLease]
    /\ ingested_manifest' = [ingested_manifest EXCEPT ![b] = m]
    /\ UNCHANGED told

(* One unit of time: every lease end comes closer, down to Lapsed. *)
Aged(left) == IF left > Lapsed THEN left - 1 ELSE left

Tick ==
    /\ lease_left' = [b \in Batches |-> Aged(lease_left[b])]
    /\ told' = [n \in Nodes |-> [b \in Batches |-> Aged(told[n][b])]]
    /\ UNCHANGED <<state, owner_node, ingested_manifest>>

(* init_coordinator: INSERT OR IGNORE of one AVAILABLE row per frozen batch, *)
(* so later calls of it (every SSH command makes one) change nothing.        *)
CoordInit ==
    /\ state = [b \in Batches |-> "AVAILABLE"]
    /\ owner_node = [b \in Batches |-> NoNode]
    /\ lease_left = [b \in Batches |-> NoLease]
    /\ ingested_manifest = [b \in Batches |-> NoManifest]
    /\ told = [n \in Nodes |-> [b \in Batches |-> Lapsed]]

NodeStep(n, b) ==
    \/ \E age \in Ages : \/ ClaimSpecific(n, b, age)
                         \/ ClaimNext(n, b, age)
                         \/ Heartbeat(n, b, age)
                         \/ PauseRequest(n, b, age)
                         \/ Resume(n, b, age)
    \/ MarkPaused(n, b)
    \/ Release(n, b)

CoordNext ==
    \/ \E n \in Nodes, b \in Batches : NodeStep(n, b)
    \/ \E b \in Batches, m \in Manifests : MarkIngested(b, m)
    \/ Tick

CoordSpec == CoordInit /\ [][CoordNext]_coordVars

-----------------------------------------------------------------------------
(* Every column stays in its domain. *)
CoordTypeOK ==
    /\ state \in [Batches -> States]
    /\ owner_node \in [Batches -> Nodes \cup {NoNode}]
    /\ lease_left \in [Batches -> Int]
    /\ ingested_manifest \in [Batches -> Manifests \cup {NoManifest}]
    /\ told \in [Nodes -> [Batches -> Int]]

(* A row has an owner, a lease and a manifest exactly when its state says    *)
(* so: nothing AVAILABLE or INGESTED keeps an owner who could still pause or *)
(* upload, and every CLAIMED row has a lease end, which the sweep needs (a   *)
(* CLAIMED row with a NULL lease would never be recovered).                  *)
RowShape ==
    \A b \in Batches :
        /\ (owner_node[b] = NoNode) <=> (state[b] \in {"AVAILABLE", "INGESTED"})
        /\ (lease_left[b] = NoLease) <=>
              (state[b] \notin {"CLAIMED", "PAUSE_REQUESTED"})
        /\ (lease_left[b] = NoLease \/ lease_left[b] >= Lapsed)
        /\ (ingested_manifest[b] = NoManifest) <=> (state[b] # "INGESTED")

(* Lease safety as a worker sees it.  A node that was granted b until U, and *)
(* has not itself released or paused b, still holds b (or b is ingested) as  *)
(* long as the clock has not passed U - BusyTimeout.  The slack is real: a   *)
(* heartbeat or claim that waited for the write lock commits an older sample *)
(* and moves lease_until_ms back by up to BusyTimeout.                       *)
HeldUntilTold ==
    \A n \in Nodes, b \in Batches :
        told[n][b] >= BusyTimeout =>
            \/ state[b] = "INGESTED"
            \/ /\ state[b] = "CLAIMED"
               /\ owner_node[b] = n
               /\ lease_left[b] >= told[n][b] - BusyTimeout

(* docs: "A live lease prevents another node from claiming the same batch."  *)
(* A row under a live lease changes hands only by the owner's own release or *)
(* by the ingest of the batch.                                               *)
LiveLeaseStep ==
    \A b \in Batches :
        state[b] = "CLAIMED" /\ lease_left[b] >= 0
        /\ owner_node'[b] # owner_node[b]
        => state'[b] = "INGESTED" \/ Release(owner_node[b], b)

(* A paused batch is not recovered by lease expiry and not by a claim or a   *)
(* heartbeat of its own node: its row leaves PAUSE_REQUESTED or PAUSED only  *)
(* by its owner's acknowledge (to PAUSED), resume or release, or by ingest.  *)
PauseStep ==
    \A b \in Batches :
        /\ state[b] \in {"PAUSE_REQUESTED", "PAUSED"}
        /\ state'[b] # "INGESTED"
        /\ state'[b] # state[b] \/ owner_node'[b] # owner_node[b]
        => \/ MarkPaused(owner_node[b], b)
           \/ \E age \in Ages : Resume(owner_node[b], b, age)
           \/ Release(owner_node[b], b)

(* An ingested batch is final: no later claim, release or ingest reopens it  *)
(* or replaces the manifest it was accepted under.                           *)
FinalStep ==
    \A b \in Batches :
        state[b] = "INGESTED" =>
            /\ state'[b] = "INGESTED"
            /\ ingested_manifest'[b] = ingested_manifest[b]

(* Ownership changes by these rules only, in every interleaving of claims,   *)
(* sweeps, heartbeats, pauses and ingests with stale clock samples: a live   *)
(* lease is not taken over, a paused batch is not swept, an ingested one is  *)
(* not reopened.                                                             *)
OwnershipIsKept == [][LiveLeaseStep /\ PauseStep /\ FinalStep]_coordVars
=============================================================================
