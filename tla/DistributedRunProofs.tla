------------------------ MODULE DistributedRunProofs ------------------------
(***************************************************************************)
(* Proofs about the coordinator and the distributed run, for any number of *)
(* nodes, batches, candidates and faults.  The argument: the coordinator   *)
(* alone keeps its invariant; every step of the run is a step (or a        *)
(* stutter) of the coordinator, whose invariant then carries over; a       *)
(* gateway process has archived, unchanged, the prefix of its bundle it    *)
(* has passed; so whoever marks a batch ingested finds exactly its         *)
(* manifest in the archive, and write-once keeps it there.                 *)
(***************************************************************************)
EXTENDS DistributedRun, TLAPS
-----------------------------------------------------------------------------
(* The SQLite coordinator by itself: any lease lengths and any lock wait.    *)

(* No reply ever promised a lease beyond the caller's own lease length from  *)
(* now: the fact that bounds how far a stale sample can move a lease back.   *)
ToldBound ==
    \A n \in Nodes, b \in Batches :
        told[n][b] >= Lapsed /\ told[n][b] <= LeaseOf[n]

(* The inductive invariant. *)
CoordInv ==
    /\ CoordTypeOK
    /\ RowShape
    /\ ToldBound
    /\ HeldUntilTold

(* Constants and the NULL of the lease column, in the form the steps use. *)
LEMMA ConstantFacts ==
    /\ BusyTimeout \in Nat
    /\ NoNode \notin Nodes
    /\ NoManifest \notin Manifests
    /\ \A n \in Nodes : LeaseOf[n] \in Nat \ {0}
    /\ Lapsed \in Int /\ Lapsed = -(BusyTimeout + 1)
    /\ NoLease \in Int /\ NoLease < Lapsed
    /\ \A age \in Ages : age \in Nat /\ age <= BusyTimeout
  BY ConstantsAssumption DEF NoLease, Lapsed, Ages

(* The empty table of init_coordinator satisfies the invariant. *)
LEMMA CoordInitInv == CoordInit => CoordInv
  <1> SUFFICES ASSUME CoordInit PROVE CoordInv
    OBVIOUS
  <1> USE ConstantFacts DEF CoordInit
  <1>1. CoordTypeOK
    BY DEF CoordTypeOK, States
  <1>2. RowShape
    BY DEF RowShape
  <1>3. ToldBound
    BY DEF ToldBound
  <1>4. HeldUntilTold
    BY DEF HeldUntilTold
  <1> QED
    BY <1>1, <1>2, <1>3, <1>4 DEF CoordInv

(* A claim, specific or next, that finds its batch free or its own, keeps the *)
(* invariant.                                                                 *)
LEMMA ClaimInv ==
    ASSUME CoordInv, NEW n \in Nodes, NEW b \in Batches, NEW age \in Ages,
           \/ AvailableAt(b, age)
           \/ state[b] = "CLAIMED" /\ owner_node[b] = n,
           ClaimRows(n, b, age)
    PROVE  CoordInv'
  <1> USE ConstantFacts
  <1>0. /\ CoordTypeOK /\ RowShape /\ ToldBound /\ HeldUntilTold
    BY DEF CoordInv
  <1>t. \A x \in Nodes, y \in Batches :
           told'[x][y] = IF x = n /\ y = b
                         THEN IF LeaseOf[n] - age > told[n][b]
                              THEN LeaseOf[n] - age ELSE told[n][b]
                         ELSE told[x][y]
    BY <1>0 DEF ClaimRows, Grant, CoordTypeOK
  <1>1. CoordTypeOK'
    BY <1>0 DEF CoordTypeOK, ClaimRows, Grant, States, Expired
  <1>2. RowShape'
    BY <1>0 DEF RowShape, CoordTypeOK, ClaimRows, AvailableAt, Expired
  <1>3. ToldBound'
    BY <1>0, <1>t DEF ToldBound, CoordTypeOK, ClaimRows
  <1>4. HeldUntilTold'
    <2> SUFFICES ASSUME NEW x \in Nodes, NEW y \in Batches,
                        told'[x][y] >= BusyTimeout
                 PROVE  \/ state'[y] = "INGESTED"
                        \/ /\ state'[y] = "CLAIMED"
                           /\ owner_node'[y] = x
                           /\ lease_left'[y] >= told'[x][y] - BusyTimeout
      BY DEF HeldUntilTold
    <2>1. CASE x = n /\ y = b
      <3>1. told[n][b] <= LeaseOf[n] /\ told[n][b] \in Int
        BY <1>0 DEF ToldBound, CoordTypeOK
      <3>d. told'[n][b] = IF LeaseOf[n] - age > told[n][b]
                          THEN LeaseOf[n] - age ELSE told[n][b]
        BY <1>t
      <3>2. /\ state'[b] = "CLAIMED"
            /\ owner_node'[b] = n
            /\ lease_left'[b] = LeaseOf[n] - age
        BY DEF ClaimRows
      <3> QED
        BY <2>1, <3>1, <3>2, <3>d, <1>0
    <2>2. CASE ~(x = n /\ y = b)
      <3>1. told'[x][y] = told[x][y] /\ told[x][y] \in Int
        BY <2>2, <1>t, <1>0 DEF ClaimRows, CoordTypeOK
      <3>2. \/ state[y] = "INGESTED"
            \/ /\ state[y] = "CLAIMED"
               /\ owner_node[y] = x
               /\ lease_left[y] >= told[x][y] - BusyTimeout
        BY <3>1, <1>0 DEF HeldUntilTold
      <3>3. ~Expired(y, age)
        BY <3>1, <3>2, <1>0 DEF Expired, CoordTypeOK
      <3>4. y # b
        BY <3>2, <3>3, <2>2 DEF AvailableAt
      <3> QED
        BY <3>1, <3>2, <3>3, <3>4 DEF ClaimRows
    <2> QED
      BY <2>1, <2>2
  <1> QED
    BY <1>1, <1>2, <1>3, <1>4 DEF CoordInv

(* A lease renewed in place (heartbeat of a live lease, resume of a paused    *)
(* batch) keeps HeldUntilTold: the renewal is at most BusyTimeout short of    *)
(* anything the node was told before.                                         *)
LEMMA RenewHeld ==
    ASSUME CoordInv, NEW n \in Nodes, NEW b \in Batches, NEW age \in Ages,
           owner_node[b] = n, state[b] \in {"CLAIMED", "PAUSED"},
           state' = [state EXCEPT ![b] = "CLAIMED"],
           lease_left' = [lease_left EXCEPT ![b] = LeaseOf[n] - age],
           Grant(n, b, LeaseOf[n] - age),
           UNCHANGED <<owner_node, ingested_manifest>>
    PROVE  CoordInv'
  <1> USE ConstantFacts
  <1>0. /\ CoordTypeOK /\ RowShape /\ ToldBound /\ HeldUntilTold
    BY DEF CoordInv
  <1>t. \A x \in Nodes, y \in Batches :
           told'[x][y] = IF x = n /\ y = b
                         THEN IF LeaseOf[n] - age > told[n][b]
                              THEN LeaseOf[n] - age ELSE told[n][b]
                         ELSE told[x][y]
    BY <1>0 DEF Grant, CoordTypeOK
  <1>1. CoordTypeOK'
    BY <1>0 DEF CoordTypeOK, Grant, States
  <1>2. RowShape'
    BY <1>0 DEF RowShape, CoordTypeOK
  <1>3. ToldBound'
    BY <1>0, <1>t DEF ToldBound, CoordTypeOK
  <1>4. HeldUntilTold'
    <2> SUFFICES ASSUME NEW x \in Nodes, NEW y \in Batches,
                        told'[x][y] >= BusyTimeout
                 PROVE  \/ state'[y] = "INGESTED"
                        \/ /\ state'[y] = "CLAIMED"
                           /\ owner_node'[y] = x
                           /\ lease_left'[y] >= told'[x][y] - BusyTimeout
      BY DEF HeldUntilTold
    <2>1. CASE x = n /\ y = b
      <3>1. /\ told[n][b] <= LeaseOf[n] /\ told[n][b] \in Int
            /\ LeaseOf[n] \in Nat
        BY <1>0 DEF ToldBound, CoordTypeOK
      <3>2. told'[n][b] = IF LeaseOf[n] - age > told[n][b]
                          THEN LeaseOf[n] - age ELSE told[n][b]
        BY <1>t
      <3>3. /\ state'[b] = "CLAIMED"
            /\ owner_node'[b] = n
            /\ lease_left'[b] = LeaseOf[n] - age
        BY <1>0 DEF CoordTypeOK
      <3> QED
        BY <2>1, <3>1, <3>2, <3>3, <1>0
    <2>2. CASE ~(x = n /\ y = b)
      <3>1. told'[x][y] = told[x][y]
        BY <2>2, <1>t
      <3>2. \/ state[y] = "INGESTED"
            \/ /\ state[y] = "CLAIMED"
               /\ owner_node[y] = x
               /\ lease_left[y] >= told[x][y] - BusyTimeout
        BY <3>1, <1>0 DEF HeldUntilTold
      <3>3. y # b
        BY <3>2, <2>2
      <3> QED
        BY <3>1, <3>2, <3>3, <1>0 DEF CoordTypeOK
    <2> QED
      BY <2>1, <2>2
  <1> QED
    BY <1>1, <1>2, <1>3, <1>4 DEF CoordInv

(* A step that takes b away from its holder n only at n's own request (n      *)
(* stops relying on it), or ingests b, keeps HeldUntilTold for every node.    *)
LEMMA GiveUpHeld ==
    ASSUME CoordInv, NEW n \in Nodes, NEW b \in Batches,
           owner_node[b] = n, state[b] # "INGESTED", GivenUp(n, b),
           \A y \in Batches : y # b =>
               /\ state'[y] = state[y]
               /\ owner_node'[y] = owner_node[y]
               /\ lease_left'[y] = lease_left[y]
    PROVE  HeldUntilTold'
  <1> USE ConstantFacts
  <1>0. CoordTypeOK /\ HeldUntilTold
    BY DEF CoordInv
  <1>1. \A x \in Nodes, y \in Batches :
           told'[x][y] = IF x = n /\ y = b THEN Lapsed ELSE told[x][y]
    BY <1>0 DEF GivenUp, CoordTypeOK
  <1> SUFFICES ASSUME NEW x \in Nodes, NEW y \in Batches,
                      told'[x][y] >= BusyTimeout
               PROVE  \/ state'[y] = "INGESTED"
                      \/ /\ state'[y] = "CLAIMED"
                         /\ owner_node'[y] = x
                         /\ lease_left'[y] >= told'[x][y] - BusyTimeout
    BY DEF HeldUntilTold
  <1>2. ~(x = n /\ y = b)
    BY <1>1
  <1>3. told'[x][y] = told[x][y]
    BY <1>1, <1>2
  <1>4. \/ state[y] = "INGESTED"
        \/ /\ state[y] = "CLAIMED"
           /\ owner_node[y] = x
           /\ lease_left[y] >= told[x][y] - BusyTimeout
    BY <1>0, <1>3 DEF HeldUntilTold
  <1>5. y # b
    BY <1>4, <1>2
  <1> QED
    BY <1>3, <1>4, <1>5

(* Every step of the coordinator keeps the invariant. *)
LEMMA CoordNextInv == CoordInv /\ [CoordNext]_coordVars => CoordInv'
  <1> SUFFICES ASSUME CoordInv, [CoordNext]_coordVars PROVE CoordInv'
    OBVIOUS
  <1> USE ConstantFacts
  <1>0. CoordTypeOK /\ RowShape /\ ToldBound /\ HeldUntilTold
    BY DEF CoordInv
  <1>1. ASSUME NEW n \in Nodes, NEW b \in Batches, NEW age \in Ages,
               ClaimSpecific(n, b, age)
        PROVE  CoordInv'
    BY <1>1, ClaimInv DEF ClaimSpecific
  <1>2. ASSUME NEW n \in Nodes, NEW b \in Batches, NEW age \in Ages,
               ClaimNext(n, b, age)
        PROVE  CoordInv'
    BY <1>2, ClaimInv DEF ClaimNext
  <1>3. ASSUME NEW n \in Nodes, NEW b \in Batches, NEW age \in Ages,
               Heartbeat(n, b, age)
        PROVE  CoordInv'
    <2>1. state' = [state EXCEPT ![b] = "CLAIMED"]
      BY <1>0, <1>3 DEF Heartbeat, ActiveLease, CoordTypeOK
    <2> QED
      BY <1>3, <2>1, RenewHeld DEF Heartbeat, ActiveLease
  <1>4. ASSUME NEW n \in Nodes, NEW b \in Batches, NEW age \in Ages,
               Resume(n, b, age)
        PROVE  CoordInv'
    BY <1>4, RenewHeld DEF Resume
  <1>5. ASSUME NEW n \in Nodes, NEW b \in Batches, NEW age \in Ages,
               PauseRequest(n, b, age)
        PROVE  CoordInv'
    <2> USE <1>0, <1>5 DEF PauseRequest, ActiveLease
    <2>1. CoordTypeOK'
      BY DEF CoordTypeOK, GivenUp, States
    <2>2. RowShape'
      BY DEF RowShape, CoordTypeOK
    <2>3. ToldBound'
      BY DEF ToldBound, CoordTypeOK, GivenUp
    <2>4. HeldUntilTold'
      BY GiveUpHeld DEF CoordTypeOK
    <2> QED
      BY <2>1, <2>2, <2>3, <2>4 DEF CoordInv
  <1>6. ASSUME NEW n \in Nodes, NEW b \in Batches, MarkPaused(n, b)
        PROVE  CoordInv'
    <2> USE <1>0, <1>6 DEF MarkPaused
    <2>1. CoordTypeOK'
      BY DEF CoordTypeOK, States
    <2>2. RowShape'
      BY DEF RowShape, CoordTypeOK
    <2>3. ToldBound'
      BY DEF ToldBound
    <2>4. HeldUntilTold'
      BY DEF HeldUntilTold, CoordTypeOK
    <2> QED
      BY <2>1, <2>2, <2>3, <2>4 DEF CoordInv
  <1>7. ASSUME NEW n \in Nodes, NEW b \in Batches, Release(n, b)
        PROVE  CoordInv'
    <2> USE <1>0, <1>7 DEF Release
    <2>1. CoordTypeOK'
      BY DEF CoordTypeOK, GivenUp, States
    <2>2. RowShape'
      BY DEF RowShape, CoordTypeOK
    <2>3. ToldBound'
      BY DEF ToldBound, CoordTypeOK, GivenUp
    <2>4. HeldUntilTold'
      BY GiveUpHeld DEF CoordTypeOK
    <2> QED
      BY <2>1, <2>2, <2>3, <2>4 DEF CoordInv
  <1>8. ASSUME NEW b \in Batches, NEW m \in Manifests, MarkIngested(b, m)
        PROVE  CoordInv'
    <2> USE <1>0, <1>8 DEF MarkIngested
    <2>1. CoordTypeOK'
      BY DEF CoordTypeOK, States
    <2>2. RowShape'
      BY DEF RowShape, CoordTypeOK
    <2>3. ToldBound'
      BY DEF ToldBound
    <2>4. HeldUntilTold'
      BY DEF HeldUntilTold, CoordTypeOK
    <2> QED
      BY <2>1, <2>2, <2>3, <2>4 DEF CoordInv
  <1>9. ASSUME Tick PROVE CoordInv'
    <2> USE <1>0, <1>9 DEF Tick, Aged
    <2>1. CoordTypeOK'
      BY DEF CoordTypeOK
    <2>2. RowShape'
      BY DEF RowShape, CoordTypeOK
    <2>3. ToldBound'
      BY DEF ToldBound, CoordTypeOK
    <2>4. HeldUntilTold'
      BY DEF HeldUntilTold, CoordTypeOK
    <2> QED
      BY <2>1, <2>2, <2>3, <2>4 DEF CoordInv
  <1>10. CASE UNCHANGED coordVars
    BY <1>0, <1>10 DEF coordVars, CoordInv, CoordTypeOK, RowShape, ToldBound,
       HeldUntilTold
  <1> QED
    BY <1>1, <1>2, <1>3, <1>4, <1>5, <1>6, <1>7, <1>8, <1>9, <1>10
       DEF CoordNext, NodeStep

(* The coordinator keeps its type and its lease safety: for every number of  *)
(* nodes and batches, a node granted a batch until U holds it until at least *)
(* U - BusyTimeout, however claims, sweeps and delayed heartbeats interleave.*)
THEOREM LeaseSafety == CoordSpec => []HeldUntilTold
  <1>1. CoordInv => HeldUntilTold
    BY DEF CoordInv
  <1> QED
    BY CoordInitInv, CoordNextInv, <1>1, PTL DEF CoordSpec

(* The columns stay in their domains, and owner, lease and manifest agree    *)
(* with the state of every row.                                              *)
THEOREM RowsConsistent == CoordSpec => [](CoordTypeOK /\ RowShape)
  <1>1. CoordInv => CoordTypeOK /\ RowShape
    BY DEF CoordInv
  <1> QED
    BY CoordInitInv, CoordNextInv, <1>1, PTL DEF CoordSpec

(* A live lease is taken from its holder only by the holder's release or by  *)
(* ingest, whatever stale clock sample a rival claim or its sweep carries.   *)
LEMMA LiveLeaseKept ==
    ASSUME CoordInv, CoordNext
    PROVE  LiveLeaseStep
  <1> SUFFICES ASSUME NEW b \in Batches,
                      state[b] = "CLAIMED", lease_left[b] >= 0,
                      owner_node'[b] # owner_node[b],
                      state'[b] # "INGESTED"
               PROVE  Release(owner_node[b], b)
    BY DEF LiveLeaseStep
  <1>0. CoordTypeOK /\ RowShape
    BY DEF CoordInv
  <1>1. \A age \in Ages : ~Expired(b, age) /\ ~AvailableAt(b, age)
    BY <1>0, ConstantFacts DEF Expired, AvailableAt, CoordTypeOK
  <1>2. ASSUME NEW n \in Nodes, NEW x \in Batches, NodeStep(n, x)
        PROVE  Release(owner_node[b], b)
    <2>1. ASSUME NEW age \in Ages,
                 ClaimSpecific(n, x, age) \/ ClaimNext(n, x, age)
          PROVE  FALSE
      BY <2>1, <1>1, <1>0 DEF ClaimSpecific, ClaimNext, ClaimRows, CoordTypeOK
    <2>2. ASSUME NEW age \in Ages,
                 Heartbeat(n, x, age) \/ PauseRequest(n, x, age) \/ Resume(n, x, age)
          PROVE  FALSE
      BY <2>2 DEF Heartbeat, PauseRequest, Resume
    <2>3. ~MarkPaused(n, x)
      BY DEF MarkPaused
    <2>4. CASE Release(n, x)
      BY <2>4, <1>0 DEF Release, CoordTypeOK
    <2> QED
      BY <1>2, <2>1, <2>2, <2>3, <2>4 DEF NodeStep
  <1>3. ASSUME NEW x \in Batches, NEW m \in Manifests, MarkIngested(x, m)
        PROVE  FALSE
    BY <1>3, <1>0 DEF MarkIngested, CoordTypeOK
  <1>4. ~Tick
    BY DEF Tick
  <1> QED
    BY <1>2, <1>3, <1>4 DEF CoordNext

(* A row that asks for a pause or is paused is changed by no sweep, claim or *)
(* heartbeat, whoever makes it: only its owner's acknowledge, resume or      *)
(* release and the ingest touch its state and its owner.                     *)
LEMMA PauseKept ==
    ASSUME CoordInv, CoordNext
    PROVE  PauseStep
  <1> DEFINE Ended(b) == \/ MarkPaused(owner_node[b], b)
                         \/ \E age \in Ages : Resume(owner_node[b], b, age)
                         \/ Release(owner_node[b], b)
  <1> SUFFICES ASSUME NEW b \in Batches,
                      state[b] \in {"PAUSE_REQUESTED", "PAUSED"},
                      state'[b] # "INGESTED",
                      state'[b] # state[b] \/ owner_node'[b] # owner_node[b]
               PROVE  Ended(b)
    BY DEF PauseStep
  <1>0. CoordTypeOK /\ RowShape
    BY DEF CoordInv
  <1>1. \A age \in Ages : ~Expired(b, age) /\ ~AvailableAt(b, age)
    BY DEF Expired, AvailableAt
  <1>2. ASSUME NEW n \in Nodes, NEW x \in Batches, NodeStep(n, x)
        PROVE  Ended(b)
    <2>1. ASSUME NEW age \in Ages,
                 ClaimSpecific(n, x, age) \/ ClaimNext(n, x, age)
          PROVE  FALSE
      BY <2>1, <1>1, <1>0 DEF ClaimSpecific, ClaimNext, ClaimRows, CoordTypeOK
    <2>2. ASSUME NEW age \in Ages, Heartbeat(n, x, age)
          PROVE  FALSE
      BY <2>2 DEF Heartbeat
    <2>3. ASSUME NEW age \in Ages, PauseRequest(n, x, age)
          PROVE  FALSE
      BY <2>3, <1>0 DEF PauseRequest, ActiveLease, CoordTypeOK
    <2>4. ASSUME NEW age \in Ages, Resume(n, x, age)
          PROVE  Ended(b)
      <3>1. x = b /\ owner_node[b] = n
        BY <2>4, <1>0 DEF Resume, CoordTypeOK
      <3> QED
        BY <3>1, <2>4
    <2>5. ASSUME MarkPaused(n, x)
          PROVE  Ended(b)
      <3>1. x = b /\ owner_node[b] = n
        BY <2>5, <1>0 DEF MarkPaused, CoordTypeOK
      <3> QED
        BY <3>1, <2>5
    <2>6. ASSUME Release(n, x)
          PROVE  Ended(b)
      <3>1. x = b /\ owner_node[b] = n
        BY <2>6, <1>0 DEF Release, CoordTypeOK
      <3> QED
        BY <3>1, <2>6
    <2> QED
      BY <1>2, <2>1, <2>2, <2>3, <2>4, <2>5, <2>6 DEF NodeStep
  <1>3. ASSUME NEW x \in Batches, NEW m \in Manifests, MarkIngested(x, m)
        PROVE  FALSE
    BY <1>3, <1>0 DEF MarkIngested, CoordTypeOK
  <1>4. ~Tick
    BY DEF Tick
  <1> QED
    BY <1>2, <1>3, <1>4 DEF CoordNext

(* Once a batch is INGESTED no step reopens it or swaps its manifest.        *)
LEMMA FinalKept ==
    ASSUME CoordInv, CoordNext
    PROVE  FinalStep
  <1> SUFFICES ASSUME NEW b \in Batches, state[b] = "INGESTED"
               PROVE  /\ state'[b] = "INGESTED"
                      /\ ingested_manifest'[b] = ingested_manifest[b]
    BY DEF FinalStep
  <1>0. CoordTypeOK /\ RowShape
    BY DEF CoordInv
  <1>1. ASSUME NEW n \in Nodes, NEW x \in Batches, NodeStep(n, x)
        PROVE  /\ state'[b] = "INGESTED"
               /\ ingested_manifest'[b] = ingested_manifest[b]
    <2>1. ASSUME NEW age \in Ages,
                 ClaimSpecific(n, x, age) \/ ClaimNext(n, x, age)
          PROVE  state'[b] = "INGESTED" /\ UNCHANGED ingested_manifest
      BY <2>1, <1>0 DEF ClaimSpecific, ClaimNext, ClaimRows, AvailableAt,
         Expired, CoordTypeOK
    <2>2. ASSUME NEW age \in Ages,
                 Heartbeat(n, x, age) \/ PauseRequest(n, x, age) \/ Resume(n, x, age)
          PROVE  state'[b] = "INGESTED" /\ UNCHANGED ingested_manifest
      BY <2>2, <1>0 DEF Heartbeat, PauseRequest, Resume, ActiveLease, CoordTypeOK
    <2>3. ASSUME MarkPaused(n, x) \/ Release(n, x)
          PROVE  state'[b] = "INGESTED" /\ UNCHANGED ingested_manifest
      BY <2>3, <1>0 DEF MarkPaused, Release, CoordTypeOK
    <2> QED
      BY <1>1, <2>1, <2>2, <2>3 DEF NodeStep
  <1>2. ASSUME NEW x \in Batches, NEW m \in Manifests, MarkIngested(x, m)
        PROVE  /\ state'[b] = "INGESTED"
               /\ ingested_manifest'[b] = ingested_manifest[b]
    BY <1>2, <1>0 DEF MarkIngested, CoordTypeOK
  <1>3. CASE Tick
    BY <1>3 DEF Tick
  <1> QED
    BY <1>1, <1>2, <1>3 DEF CoordNext

(* Under any interleaving and any stale clock sample within the busy timeout *)
(* a live lease is taken from its holder only by the holder's release or by  *)
(* ingest, a paused batch keeps its state and its owner until its owner      *)
(* acknowledges, resumes or releases it or it is ingested, and an ingested   *)
(* batch keeps its state and its manifest.                                   *)
THEOREM OwnershipTheorem == CoordSpec => OwnershipIsKept
  <1>1. CoordInv /\ [CoordNext]_coordVars
        => [LiveLeaseStep /\ PauseStep /\ FinalStep]_coordVars
    BY LiveLeaseKept, PauseKept, FinalKept
  <1> QED
    BY CoordInitInv, CoordNextInv, <1>1, PTL DEF CoordSpec, OwnershipIsKept
-----------------------------------------------------------------------------
(* The distributed run *)

(* A gateway process serves the bundle of a complete batch, from its first   *)
(* artifact on.                                                              *)
BundlesComplete ==
    \A n \in Workers : Serving(n) =>
        NoNode \notin Producers(session[n].bundle) /\ session[n].next # 0

(* A command in flight names a batch; a pause under way has set its marker,  *)
(* and a marker about to be cleared belongs to a batch that is not paused.   *)
AgentInv ==
    \A n \in Workers :
        /\ agent[n].todo # "none" => agent[n].batch \in Batches
        /\ agent[n].todo = "request" => agent[n].batch \in marker[n]
        /\ agent[n].todo = "clear" =>
              ~(/\ state[agent[n].batch] \in {"PAUSE_REQUESTED", "PAUSED"}
                /\ owner_node[agent[n].batch] = n)

(* The inductive invariant. *)
RunInv ==
    /\ TypeOK
    /\ CoordInv
    /\ AgentInv
    /\ PausedIsMarked
    /\ BundlesComplete
    /\ SessionPrefixArchived
    /\ ArchiveMatchesManifest
    /\ AckedIsIngested

-----------------------------------------------------------------------------
(* A complete row of result files has a manifest: a non-empty set of nodes.  *)
LEMMA ProducersManifest ==
    ASSUME NEW row \in [Candidates -> Nodes \cup {NoNode}],
           NoNode \notin Producers(row)
    PROVE  Producers(row) \in Manifests
  <1>1. 1 \in Candidates
    BY RunAssumption DEF Candidates
  <1>2. Producers(row) \subseteq Nodes
    BY DEF Producers
  <1>3. row[1] \in Producers(row)
    BY <1>1 DEF Producers
  <1> QED
    BY <1>2, <1>3, RunAssumption

(* The table an ingest leaves behind. *)
LEMMA MarkIngestedEffect ==
    ASSUME CoordTypeOK, NEW b \in Batches, NEW m, MarkIngested(b, m)
    PROVE  /\ state'[b] = "INGESTED" /\ ingested_manifest'[b] = m
           /\ \A x \in Batches : x # b =>
                 state'[x] = state[x] /\ ingested_manifest'[x] = ingested_manifest[x]
           /\ state[b] = "INGESTED" => ingested_manifest[b] = m
  BY DEF MarkIngested, CoordTypeOK

(* What a step of the run can do to the coordinator's verdicts: nothing, or  *)
(* accept one batch under the manifest of its archived files.                *)
Quiet ==
    /\ \A b \in Batches : (state'[b] = "INGESTED") <=> (state[b] = "INGESTED")
    /\ ingested_manifest' = ingested_manifest

Accepting(b) ==
    /\ NoNode \notin Producers(files[VPS][b])
    /\ MarkIngested(b, Producers(files[VPS][b]))
    /\ UNCHANGED files

(* What workers and operators ask of the coordinator short of an ingest. *)
LeaseStep(n, b) ==
    \/ \E age \in Ages : \/ ClaimNext(n, b, age) \/ Heartbeat(n, b, age)
                         \/ PauseRequest(n, b, age) \/ Resume(n, b, age)
    \/ MarkPaused(n, b)
    \/ Release(n, b)

(* Leases, pauses and the clock give no verdict. *)
LEMMA QuietCoord ==
    ASSUME CoordTypeOK,
           \/ UNCHANGED coordVars
           \/ Tick
           \/ \E n \in Nodes, b \in Batches : LeaseStep(n, b)
    PROVE  Quiet
  <1>1. CASE UNCHANGED coordVars
    BY <1>1 DEF Quiet, coordVars
  <1>2. CASE Tick
    BY <1>2 DEF Quiet, Tick
  <1>3. ASSUME NEW n \in Nodes, NEW b \in Batches, NEW age \in Ages,
               ClaimNext(n, b, age)
        PROVE  Quiet
    BY <1>3 DEF Quiet, ClaimNext, ClaimRows, AvailableAt, Expired, CoordTypeOK
  <1>4. ASSUME NEW n \in Nodes, NEW b \in Batches, NEW age \in Ages,
               Heartbeat(n, b, age)
        PROVE  Quiet
    BY <1>4 DEF Quiet, Heartbeat
  <1>5. ASSUME NEW n \in Nodes, NEW b \in Batches, NEW age \in Ages,
               PauseRequest(n, b, age) \/ Resume(n, b, age)
        PROVE  Quiet
    BY <1>5 DEF Quiet, PauseRequest, Resume, ActiveLease, CoordTypeOK
  <1>6. ASSUME NEW n \in Nodes, NEW b \in Batches,
               MarkPaused(n, b) \/ Release(n, b)
        PROVE  Quiet
    BY <1>6 DEF Quiet, MarkPaused, Release, CoordTypeOK
  <1> QED
    BY <1>1, <1>2, <1>3, <1>4, <1>5, <1>6 DEF LeaseStep

(* The coordinator's part of every step.  *)
CoordPart ==
    \/ UNCHANGED coordVars
    \/ Tick
    \/ \E n \in Nodes, b \in Batches : LeaseStep(n, b)

(* A step either gives no verdict, or accepts one complete batch. *)
LEMMA RunStepKinds ==
    ASSUME TypeOK, AgentInv, BundlesComplete, [Next]_vars
    PROVE  CoordPart \/ \E b \in Batches : Accepting(b)
  <1> USE DEF TypeOK, CoordPart, LeaseStep
  <1>n. \A n \in Workers : n \in Nodes /\ cur[n] \in Batches
    BY RunAssumption
  <1>1. ASSUME NEW n \in Workers, WorkerStep(n)
        PROVE  CoordPart \/ \E b \in Batches : Accepting(b)
    <2>1. CASE \/ GlobalComplete(n) \/ WorkLeft(n) \/ ClaimRefused(n)
               \/ ChildPauses(n) \/ ChildSkips(n) \/ ChildComputes(n)
               \/ ChildWrites(n) \/ ChildCollision(n)
               \/ LeaseLost(n) \/ StartUpload(n) \/ Restart(n)
      BY <2>1 DEF GlobalComplete, WorkLeft, ClaimRefused, ChildPauses, ChildSkips,
         ChildComputes, ChildWrites, ChildCollision, LeaseLost, StartUpload, Restart
    <2>2. CASE Claim(n)
      BY <2>2, <1>n DEF Claim
    <2>3. CASE StartChild(n) \/ ChildHeartbeat(n) \/ FinalHeartbeat(n)
      BY <2>3, <1>n DEF StartChild, ChildHeartbeat, FinalHeartbeat, Beat
    <2>4. CASE LocalComplete(n)
      BY <2>4, <1>n DEF LocalComplete, Accepting
    <2> QED
      BY <1>1, <2>1, <2>2, <2>3, <2>4 DEF WorkerStep
  <1>2. ASSUME NEW n \in Workers, Ingest(n), UNCHANGED files
        PROVE  \E b \in Batches : Accepting(b)
    <2>1. session[n].batch \in Batches
      BY <1>2 DEF Ingest, Serving, Sessions
    <2>2. NoNode \notin Producers(session[n].bundle)
      BY <1>2 DEF Ingest, BundlesComplete
    <2> QED
      BY <1>2, <2>1, <2>2 DEF Ingest, Accepting
  <1>3. ASSUME NEW n \in Workers, GatewayStep(n)
        PROVE  CoordPart \/ \E b \in Batches : Accepting(b)
    BY <1>2, <1>3 DEF GatewayStep, GatewayWrite, GatewayCollision, GatewayIngest
  <1>4. ASSUME NEW n \in Workers, FaultStep(n)
        PROVE  CoordPart \/ \E b \in Batches : Accepting(b)
    BY <1>2, <1>4, <1>n DEF FaultStep, ClaimUnanswered, Crash, IngestReplyLost,
       GatewayDies
  <1>5. ASSUME NEW n \in Workers, AgentStep(n)
        PROVE  CoordPart
    <2>1. CASE \E b \in Batches : \/ AgentPause(n, b) \/ AgentAcks(n, b)
                                  \/ AgentResumes(n, b) \/ AgentReleases(n, b)
      BY <1>n, <2>1 DEF AgentPause, AgentAcks, AgentResumes, AgentReleases
    <2>2. CASE AgentRequests(n)
      <3>1. agent[n].batch \in Batches \/ agent[n].todo # "request"
        BY <1>5, <2>2 DEF AgentInv
      <3> QED
        BY <1>n, <2>2, <3>1 DEF AgentRequests
    <2>3. CASE AgentClears(n) \/ AgentDies(n)
      BY <2>3 DEF AgentClears, AgentDies
    <2> QED
      BY <1>5, <2>1, <2>2, <2>3 DEF AgentStep
  <1>6. CASE Clock
    BY <1>6 DEF Clock
  <1>7. CASE UNCHANGED vars
    BY <1>7 DEF vars, coordVars
  <1> QED
    BY <1>1, <1>3, <1>4, <1>5, <1>6, <1>7 DEF Next, NodeNext

(* So every step of the run is a step of the coordinator or leaves it alone, *)
(* and the coordinator's invariant holds throughout the run.                 *)
LEMMA RunStepIsCoordStep ==
    ASSUME TypeOK, AgentInv, BundlesComplete, [Next]_vars
    PROVE  [CoordNext]_coordVars
  <1>1. CASE CoordPart
    BY <1>1 DEF CoordPart, LeaseStep, CoordNext, NodeStep
  <1>2. ASSUME NEW b \in Batches, Accepting(b)
        PROVE  CoordNext
    <2>1. files[VPS][b] \in [Candidates -> Nodes \cup {NoNode}]
      BY RunAssumption DEF TypeOK
    <2>2. Producers(files[VPS][b]) \in Manifests
      BY <1>2, <2>1, ProducersManifest DEF Accepting
    <2> QED
      BY <1>2, <2>2 DEF Accepting, CoordNext
  <1> QED
    BY <1>1, <1>2, RunStepKinds

(* Result files are written by a child and by a gateway process only. *)
LEMMA WritingSteps ==
    ASSUME [Next]_vars
    PROVE  \/ UNCHANGED files
           \/ \E n \in Workers : ChildWrites(n) \/ GatewayWrite(n)
  <1>1. ASSUME NEW n \in Workers, WorkerStep(n), ~ChildWrites(n)
        PROVE  UNCHANGED files
    BY <1>1 DEF WorkerStep, GlobalComplete, WorkLeft, Claim, ClaimRefused,
       StartChild, ChildHeartbeat, ChildPauses, ChildSkips, ChildComputes,
       ChildCollision, FinalHeartbeat, LeaseLost, LocalComplete, StartUpload, Restart
  <1>2. ASSUME NEW n \in Workers, GatewayStep(n), ~GatewayWrite(n)
        PROVE  UNCHANGED files
    BY <1>2 DEF GatewayStep, GatewayCollision, GatewayIngest
  <1>3. ASSUME NEW n \in Workers, FaultStep(n)
        PROVE  UNCHANGED files
    BY <1>3 DEF FaultStep, ClaimUnanswered, Crash, IngestReplyLost, GatewayDies
  <1>4. Clock => UNCHANGED files
    BY DEF Clock
  <1>5. UNCHANGED vars => UNCHANGED files
    BY DEF vars
  <1>6. ASSUME NEW n \in Workers, AgentStep(n)
        PROVE  UNCHANGED files
    BY <1>6 DEF AgentStep, AgentPause, AgentRequests, AgentAcks, AgentResumes,
       AgentReleases, AgentClears, AgentDies, Command, CommandEnds
  <1> QED
    BY <1>1, <1>2, <1>3, <1>4, <1>5, <1>6 DEF Next, NodeNext

(* No step changes or removes a result file. *)
LEMMA FilesStay ==
    ASSUME TypeOK, [Next]_vars
    PROVE  FileStep
  <1> USE DEF TypeOK
  <1>0. UNCHANGED files => FileStep
    BY DEF FileStep
  <1>1. ASSUME NEW n \in Workers, ChildWrites(n)
        PROVE  FileStep
    <2>1. n \in Nodes /\ cur[n] \in Batches /\ pos[n] \in Candidates
      BY RunAssumption
    <2> QED
      BY <1>1, <2>1 DEF ChildWrites, FileStep
  <1>2. ASSUME NEW n \in Workers, GatewayWrite(n)
        PROVE  FileStep
    <2>1. /\ session[n].batch \in Batches /\ session[n].next \in Nat
          /\ VPS \in Nodes
      BY <1>2, RunAssumption DEF GatewayWrite, Serving, Sessions
    <2> QED
      BY <1>2, <2>1 DEF GatewayWrite, CanWrite, FileStep
  <1> QED
    BY <1>0, <1>1, <1>2, WritingSteps

-----------------------------------------------------------------------------
(* The coordinator's invariant is kept by every step of the run. *)
LEMMA RunCoordInv ==
    ASSUME TypeOK, CoordInv, AgentInv, BundlesComplete, [Next]_vars
    PROVE  CoordInv'
  BY RunStepIsCoordStep, CoordNextInv

(* Updating one entry of a per-worker function keeps its type. *)
LEMMA UpdateTyped ==
    ASSUME NEW S, NEW f \in [Workers -> S], NEW n \in Workers, NEW v \in S
    PROVE  [f EXCEPT ![n] = v] \in [Workers -> S]
  OBVIOUS

(* The domains of the run's own variables. *)
LEMMA RunTypes ==
    ASSUME TypeOK, CoordInv, AgentInv, BundlesComplete, [Next]_vars
    PROVE  TypeOK'
  <1>0. CoordTypeOK'
    BY RunCoordInv DEF CoordInv
  <1> USE DEF TypeOK, Labels, agentVars
  <1>c. /\ CandidateCount \in Nat \ {0} /\ MaxControlFailures \in Nat \ {0}
        /\ MaxFaults \in Nat /\ MaxCommands \in Nat /\ 1 \in Candidates /\ VPS \in Nodes
        /\ \A n \in Workers : n \in Nodes
    BY RunAssumption DEF Candidates
  <1>s. NoSession \in Sessions
    BY <1>c DEF NoSession, NoFile, Sessions
  <1>f. Fault => faults' \in 0..MaxFaults
    BY <1>c DEF Fault
  <1>k. ASSUME NEW n \in Workers, CountFailure(n)
        PROVE  /\ failures' \in [Workers -> 0..MaxControlFailures]
               /\ pc' \in [Workers -> Labels]
    <2>1. failures[n] \in 0..MaxControlFailures
      OBVIOUS
    <2>2. CASE failures[n] + 1 >= MaxControlFailures
      <3>1. 0 \in 0..MaxControlFailures
        BY <1>c
      <3>2. /\ failures' = [failures EXCEPT ![n] = 0]
            /\ pc' = [pc EXCEPT ![n] = "off"]
        BY <1>k, <2>2 DEF CountFailure, Goto
      <3> QED
        BY <3>1, <3>2
    <2>3. CASE ~(failures[n] + 1 >= MaxControlFailures)
      <3>1. failures[n] + 1 \in 0..MaxControlFailures
        BY <1>c, <2>1, <2>3
      <3>2. /\ failures' = [failures EXCEPT ![n] = failures[n] + 1]
            /\ pc' = [pc EXCEPT ![n] = "loop"]
        BY <1>k, <2>3 DEF CountFailure, Goto
      <3> QED
        BY <3>1, <3>2
    <2> QED
      BY <2>2, <2>3
  <1>a. ASSUME NEW n \in Workers, Advance(n)
        PROVE  pos' \in [Workers -> Candidates] /\ pc' \in [Workers -> Labels]
    <2>1. pos[n] \in Candidates
      OBVIOUS
    <2>2. pos[n] < CandidateCount => pos[n] + 1 \in Candidates
      BY <1>c, <2>1 DEF Candidates
    <2>3. CASE pos[n] < CandidateCount
      <3>1. /\ pos' = [pos EXCEPT ![n] = pos[n] + 1]
            /\ pc' = [pc EXCEPT ![n] = "shard"]
        BY <1>a, <2>3 DEF Advance, Goto
      <3> QED
        BY <2>2, <2>3, <3>1
    <2>4. CASE ~(pos[n] < CandidateCount)
      BY <1>a, <2>4 DEF Advance, Goto
    <2> QED
      BY <2>3, <2>4
  <1>1. ASSUME NEW n \in Workers, WorkerStep(n)
        PROVE  TypeOK'
    <2>1. CASE GlobalComplete(n) \/ WorkLeft(n)
      BY <1>0, <2>1 DEF GlobalComplete, WorkLeft, Goto
    <2>2. CASE Claim(n)
      BY <1>0, <1>c, <2>2 DEF Claim, Goto
    <2>3. CASE ClaimRefused(n)
      BY <1>0, <1>k, <2>3 DEF ClaimRefused
    <2>4. CASE StartChild(n)
      BY <1>0, <2>4 DEF StartChild, Goto
    <2>5. CASE ChildHeartbeat(n)
      BY <1>0, <2>5 DEF ChildHeartbeat, workerVars
    <2>6. CASE ChildWrites(n)
      <3>1. /\ files' \in [Nodes -> [Batches -> [Candidates -> Nodes \cup {NoNode}]]]
        BY <1>c, <2>6 DEF ChildWrites
      <3>2. pos' \in [Workers -> Candidates] /\ pc' \in [Workers -> Labels]
        BY <1>a, <2>6 DEF ChildWrites
      <3> QED
        BY <1>0, <2>6, <3>1, <3>2 DEF ChildWrites
    <2>7. CASE FinalHeartbeat(n)
      BY <1>0, <2>7 DEF FinalHeartbeat, Goto
    <2>8. CASE LeaseLost(n)
      BY <1>0, <2>8 DEF LeaseLost, Goto
    <2>9. CASE LocalComplete(n)
      BY <1>0, <2>9 DEF LocalComplete, Goto
    <2>10. CASE StartUpload(n)
      <3>1. [batch |-> cur[n], bundle |-> files[n][cur[n]], next |-> 1] \in Sessions
        BY <1>c DEF Sessions
      <3> QED
        <4>1. CASE Owned(n, cur[n])
          <5>1. session' = [session EXCEPT ![n] =
                   [batch |-> cur[n], bundle |-> files[n][cur[n]], next |-> 1]]
            BY <2>10, <4>1 DEF StartUpload
          <5>2. session' \in [Workers -> Sessions]
            BY <3>1, <5>1, UpdateTyped
          <5>3. /\ pc' = [pc EXCEPT ![n] = "waiting"]
                /\ UNCHANGED <<coordVars, files, cur, pos, failures, acked, agentVars, faults>>
            BY <2>10, <4>1 DEF StartUpload, Goto
          <5> QED
            BY <1>0, <5>2, <5>3
        <4>2. CASE ~Owned(n, cur[n])
          BY <1>0, <2>10, <4>2 DEF StartUpload, Goto
        <4> QED
          BY <4>1, <4>2
    <2>11. CASE Restart(n)
      BY <1>0, <2>11 DEF Restart, Goto
    <2>12. CASE ChildSkips(n)
      BY <1>0, <1>a, <2>12 DEF ChildSkips
    <2>13. CASE ChildPauses(n) \/ ChildComputes(n) \/ ChildCollision(n)
      BY <1>0, <2>13 DEF ChildPauses, ChildComputes, ChildCollision, Goto
    <2> QED
      BY <1>1, <2>1, <2>2, <2>3, <2>4, <2>5, <2>6, <2>7, <2>8, <2>9, <2>10,
         <2>11, <2>12, <2>13 DEF WorkerStep
  <1>2. ASSUME NEW n \in Workers, GatewayStep(n)
        PROVE  TypeOK'
    <2>1. CASE GatewayWrite(n)
      <3>1. /\ session[n].batch \in Batches /\ session[n].next \in Candidates
            /\ session[n].next + 1 \in 0..(CandidateCount + 1)
        <4>1. /\ session[n].batch \in Batches \cup {0}
              /\ session[n].next \in 0..(CandidateCount + 1)
          BY DEF Sessions
        <4>2. session[n].batch # 0 /\ session[n].next <= CandidateCount
          BY <2>1 DEF GatewayWrite, Serving
        <4>3. session[n].next # 0
          BY <4>2 DEF BundlesComplete, Serving
        <4> QED
          BY <1>c, <4>1, <4>2, <4>3 DEF Candidates
      <3>2. files' \in [Nodes -> [Batches -> [Candidates -> Nodes \cup {NoNode}]]]
        BY <1>c, <2>1, <3>1 DEF GatewayWrite, Sessions
      <3>3. session' \in [Workers -> Sessions]
        <4> DEFINE next == [session[n] EXCEPT !.next = @ + 1]
        <4>1. session[n] \in Sessions
          OBVIOUS
        <4>2. next \in Sessions
          BY <3>1, <4>1 DEF Sessions
        <4>3. session' = [session EXCEPT ![n] = next]
          BY <2>1 DEF GatewayWrite
        <4> QED
          BY <4>2, <4>3
      <3> QED
        BY <1>0, <2>1, <3>2, <3>3 DEF GatewayWrite, workerVars
    <2>2. CASE GatewayCollision(n)
      BY <1>0, <1>s, <2>2 DEF GatewayCollision, EndSession, ClientSees, Goto
    <2>3. CASE GatewayIngest(n)
      <3>1. session[n].batch \in Batches
        BY <2>3 DEF GatewayIngest, Ingest, Serving, Sessions
      <3> QED
        BY <1>0, <1>s, <2>3, <3>1
        DEF GatewayIngest, EndSession, ClientSees, Goto
    <2> QED
      BY <1>2, <2>1, <2>2, <2>3 DEF GatewayStep
  <1>3. ASSUME NEW n \in Workers, FaultStep(n)
        PROVE  TypeOK'
    <2>1. CASE ClaimUnanswered(n)
      BY <1>0, <1>f, <1>k, <2>1 DEF ClaimUnanswered
    <2>2. CASE Crash(n)
      BY <1>0, <1>c, <1>f, <2>2 DEF Crash, Goto
    <2>3. CASE IngestReplyLost(n)
      BY <1>0, <1>f, <1>s, <2>3 DEF IngestReplyLost, EndSession, ClientSees, Goto
    <2>4. CASE GatewayDies(n)
      BY <1>0, <1>f, <1>s, <2>4 DEF GatewayDies, EndSession, ClientSees, Goto
    <2> QED
      BY <1>3, <2>1, <2>2, <2>3, <2>4 DEF FaultStep
  <1>4. ASSUME NEW n \in Workers, AgentStep(n)
        PROVE  TypeOK'
    <2> DEFINE Cmds == [batch : Batches \cup {0}, todo : {"none", "request", "clear"}]
    <2>d. NoCommand \in Cmds
      BY DEF NoCommand
    <2>k. ASSUME NEW b \in Batches, NEW todo \in {"request", "clear"},
                 Command(n, b, todo)
          PROVE  /\ agent' \in [Workers -> Cmds] /\ commands' \in 0..MaxCommands
                 /\ UNCHANGED <<files, workerVars, session, faults>>
      <3>1. [batch |-> b, todo |-> todo] \in Cmds
        OBVIOUS
      <3>2. agent' = [agent EXCEPT ![n] = [batch |-> b, todo |-> todo]]
        BY <2>k DEF Command
      <3>3. agent' \in [Workers -> Cmds]
        BY <3>1, <3>2
      <3>4. commands' \in 0..MaxCommands
        BY <1>c, <2>k DEF Command
      <3> QED
        BY <2>k, <3>3, <3>4 DEF Command
    <2>e. CommandEnds(n) => /\ agent' \in [Workers -> Cmds]
                            /\ UNCHANGED <<files, workerVars, session, commands>>
      BY <2>d DEF CommandEnds
    <2>1. ASSUME NEW b \in Batches, AgentPause(n, b)
          PROVE  TypeOK'
      BY <1>0, <2>k, <2>1 DEF AgentPause, workerVars
    <2>2. CASE AgentRequests(n)
      BY <1>0, <2>e, <2>2 DEF AgentRequests, workerVars
    <2>3. ASSUME NEW b \in Batches, AgentAcks(n, b)
          PROVE  TypeOK'
      BY <1>0, <2>3 DEF AgentAcks, workerVars
    <2>4. ASSUME NEW b \in Batches, AgentResumes(n, b) \/ AgentReleases(n, b)
          PROVE  TypeOK'
      BY <1>0, <2>k, <2>4 DEF AgentResumes, AgentReleases, workerVars
    <2>5. CASE AgentClears(n)
      BY <1>0, <2>e, <2>5 DEF AgentClears, workerVars
    <2>6. CASE AgentDies(n)
      BY <1>0, <1>f, <2>e, <2>6 DEF AgentDies, workerVars
    <2> QED
      BY <1>4, <2>1, <2>2, <2>3, <2>4, <2>5, <2>6 DEF AgentStep
  <1>5. CASE Clock
    BY <1>0, <1>5 DEF Clock, workerVars
  <1>6. CASE UNCHANGED vars
    BY <1>0, <1>6 DEF vars, workerVars
  <1> QED
    BY <1>1, <1>2, <1>3, <1>4, <1>5, <1>6 DEF Next, NodeNext

-----------------------------------------------------------------------------
(* Batch b is paused, or being paused, by n. *)
Pausing(n, b) ==
    state[b] \in {"PAUSE_REQUESTED", "PAUSED"} /\ owner_node[b] = n

(* Only a pause request puts a batch on hold. *)
LEMMA NoNewPause ==
    ASSUME CoordTypeOK, NEW n \in Nodes, NEW b \in Batches,
           \/ UNCHANGED coordVars
           \/ Tick
           \/ \E age \in Ages : \/ ClaimNext(n, b, age) \/ Heartbeat(n, b, age)
                                \/ Resume(n, b, age)
           \/ \E m : MarkIngested(b, m)
           \/ MarkPaused(n, b)
           \/ Release(n, b)
    PROVE  \A k \in Nodes, x \in Batches : Pausing(k, x)' => Pausing(k, x)
  <1> USE DEF Pausing, CoordTypeOK
  <1>1. CASE UNCHANGED coordVars
    BY <1>1 DEF coordVars
  <1>2. CASE Tick
    BY <1>2 DEF Tick
  <1>3. ASSUME NEW age \in Ages, ClaimNext(n, b, age)
        PROVE  \A k \in Nodes, x \in Batches : Pausing(k, x)' => Pausing(k, x)
    BY <1>3 DEF ClaimNext, ClaimRows
  <1>4. ASSUME NEW age \in Ages, Heartbeat(n, b, age) \/ Resume(n, b, age)
        PROVE  \A k \in Nodes, x \in Batches : Pausing(k, x)' => Pausing(k, x)
    BY <1>4 DEF Heartbeat, Resume
  <1>5. ASSUME NEW m, MarkIngested(b, m)
        PROVE  \A k \in Nodes, x \in Batches : Pausing(k, x)' => Pausing(k, x)
    BY <1>5 DEF MarkIngested
  <1>6. CASE MarkPaused(n, b) \/ Release(n, b)
    BY <1>6 DEF MarkPaused, Release
  <1> QED
    BY <1>1, <1>2, <1>3, <1>4, <1>5, <1>6

(* The order of an operator command's two halves keeps every paused batch    *)
(* marked on its owner.                                                      *)
LEMMA AgentsInv ==
    ASSUME TypeOK, AgentInv, BundlesComplete, PausedIsMarked, [Next]_vars
    PROVE  AgentInv' /\ PausedIsMarked'
  <1> DEFINE Stay == \A k \in Nodes, x \in Batches : Pausing(k, x)' => Pausing(k, x)
  <1>t. /\ CoordTypeOK
        /\ marker \in [Workers -> SUBSET Batches]
        /\ agent \in [Workers -> [batch : Batches \cup {0},
                                  todo : {"none", "request", "clear"}]]
        /\ \A n \in Workers : n \in Nodes /\ cur[n] \in Batches
        /\ \A n \in Workers : Serving(n) => session[n].batch \in Batches
        /\ 1 \in Batches
    BY RunAssumption, ConstantsAssumption DEF TypeOK, Serving, Batches, Sessions
  <1>0. ASSUME Stay, UNCHANGED <<marker, agent>>
        PROVE  AgentInv' /\ PausedIsMarked'
    BY <1>0, <1>t DEF AgentInv, PausedIsMarked, Pausing
  <1>1. ASSUME NEW n \in Workers, WorkerStep(n)
        PROVE  Stay /\ UNCHANGED <<marker, agent>>
    <2>1. CASE \/ GlobalComplete(n) \/ WorkLeft(n) \/ ClaimRefused(n)
               \/ ChildPauses(n) \/ ChildSkips(n) \/ ChildComputes(n)
               \/ ChildWrites(n) \/ ChildCollision(n)
               \/ LeaseLost(n) \/ StartUpload(n) \/ Restart(n)
      <3>1. UNCHANGED coordVars /\ UNCHANGED <<marker, agent>>
        BY <2>1 DEF GlobalComplete, WorkLeft, ClaimRefused, ChildPauses,
           ChildSkips, ChildComputes, ChildWrites, ChildCollision, LeaseLost,
           StartUpload, Restart, agentVars
      <3> QED
        BY <1>t, <3>1, NoNewPause
    <2>2. CASE Claim(n)
      <3>1. PICK b \in Batches, age \in Ages : ClaimNext(n, b, age)
        BY <2>2 DEF Claim
      <3>2. Stay
        BY <1>t, <3>1, NoNewPause
      <3> QED
        BY <2>2, <3>2 DEF Claim, agentVars
    <2>3. CASE StartChild(n) \/ ChildHeartbeat(n) \/ FinalHeartbeat(n)
      <3>1. PICK age \in Ages : Heartbeat(n, cur[n], age)
        BY <2>3 DEF StartChild, ChildHeartbeat, FinalHeartbeat, Beat
      <3>2. Stay
        BY <1>t, <3>1, NoNewPause
      <3> QED
        BY <2>3, <3>2 DEF StartChild, ChildHeartbeat, FinalHeartbeat, agentVars
    <2>4. CASE LocalComplete(n)
      <3>1. Stay
        BY <1>t, <2>4, NoNewPause DEF LocalComplete
      <3> QED
        BY <2>4, <3>1 DEF LocalComplete, agentVars
    <2> QED
      BY <1>1, <2>1, <2>2, <2>3, <2>4 DEF WorkerStep
  <1>i. ASSUME NEW n \in Workers, Ingest(n)
        PROVE  Stay
    BY <1>i, <1>t, NoNewPause DEF Ingest
  <1>u. UNCHANGED coordVars => Stay
    BY DEF coordVars, Pausing
  <1>2. ASSUME NEW n \in Workers, GatewayStep(n)
        PROVE  Stay /\ UNCHANGED <<marker, agent>>
    BY <1>2, <1>i, <1>u DEF GatewayStep, GatewayWrite, GatewayCollision,
       GatewayIngest, agentVars
  <1>3. ASSUME NEW n \in Workers, FaultStep(n)
        PROVE  Stay /\ UNCHANGED <<marker, agent>>
    <2>1. CASE ClaimUnanswered(n)
      <3>1. Stay
        BY <1>t, <1>u, <2>1, NoNewPause DEF ClaimUnanswered
      <3> QED
        BY <2>1, <3>1 DEF ClaimUnanswered, agentVars
    <2>2. CASE Crash(n) \/ IngestReplyLost(n) \/ GatewayDies(n)
      BY <1>i, <1>u, <2>2 DEF Crash, IngestReplyLost, GatewayDies, agentVars
    <2> QED
      BY <1>3, <2>1, <2>2 DEF FaultStep
  <1>4. ASSUME NEW n \in Workers, NEW b \in Batches, AgentPause(n, b)
        PROVE  AgentInv' /\ PausedIsMarked'
    BY <1>4, <1>t DEF AgentPause, Command, coordVars, AgentInv, PausedIsMarked
  <1>5. ASSUME NEW n \in Workers, AgentRequests(n)
        PROVE  AgentInv' /\ PausedIsMarked'
    <2> DEFINE b == agent[n].batch
    <2>1. /\ b \in Batches /\ b \in marker[n]
          /\ agent' = [agent EXCEPT ![n] = NoCommand] /\ marker' = marker
      BY <1>5 DEF AgentRequests, CommandEnds, AgentInv
    <2>2. CASE UNCHANGED coordVars
      BY <1>t, <2>1, <2>2 DEF coordVars, AgentInv, PausedIsMarked, NoCommand
    <2>3. ASSUME NEW age \in Ages, PauseRequest(n, b, age)
          PROVE  AgentInv' /\ PausedIsMarked'
      <3>1. /\ owner_node' = owner_node /\ owner_node[b] = n
            /\ state' = [state EXCEPT ![b] = "PAUSE_REQUESTED"]
        BY <2>3 DEF PauseRequest, ActiveLease
      <3>2. PausedIsMarked'
        BY <1>t, <2>1, <3>1 DEF PausedIsMarked, CoordTypeOK
      <3>3. AgentInv'
        BY <1>t, <2>1, <3>1 DEF AgentInv, CoordTypeOK, NoCommand
      <3> QED
        BY <3>2, <3>3
    <2> QED
      BY <1>5, <2>2, <2>3 DEF AgentRequests
  <1>6. ASSUME NEW n \in Workers, NEW b \in Batches, AgentAcks(n, b)
        PROVE  Stay /\ UNCHANGED <<marker, agent>>
    <2>1. Stay
      BY <1>6, <1>t, NoNewPause DEF AgentAcks
    <2> QED
      BY <1>6, <2>1 DEF AgentAcks, agentVars
  <1>7. ASSUME NEW n \in Workers, NEW b \in Batches,
               AgentResumes(n, b) \/ AgentReleases(n, b)
        PROVE  AgentInv' /\ PausedIsMarked'
    <2>1. Stay
      BY <1>7, <1>t, NoNewPause DEF AgentResumes, AgentReleases
    <2>2. /\ ~Pausing(n, b)' /\ marker' = marker
          /\ agent' = [agent EXCEPT ![n] = [batch |-> b, todo |-> "clear"]]
      BY <1>7, <1>t DEF AgentResumes, AgentReleases, Command, Resume, Release,
         Pausing, CoordTypeOK
    <2> QED
      BY <1>t, <2>1, <2>2 DEF AgentInv, PausedIsMarked, Pausing
  <1>8. ASSUME NEW n \in Workers, AgentClears(n)
        PROVE  AgentInv' /\ PausedIsMarked'
    <2> DEFINE b == agent[n].batch
    <2>1. /\ marker' = [marker EXCEPT ![n] = @ \ {b}]
          /\ agent' = [agent EXCEPT ![n] = NoCommand]
          /\ UNCHANGED coordVars /\ ~Pausing(n, b)
      BY <1>8 DEF AgentClears, CommandEnds, AgentInv, Pausing
    <2> QED
      BY <1>t, <2>1 DEF AgentInv, PausedIsMarked, Pausing, coordVars, NoCommand
  <1>9. ASSUME NEW n \in Workers, AgentDies(n)
        PROVE  AgentInv' /\ PausedIsMarked'
    BY <1>9, <1>t DEF AgentDies, CommandEnds, AgentInv, PausedIsMarked, coordVars,
       NoCommand
  <1>10. CASE Clock
    <2>1. Stay
      BY <1>10 DEF Clock, Tick, Pausing
    <2> QED
      BY <1>0, <1>10, <2>1 DEF Clock, agentVars
  <1>11. CASE UNCHANGED vars
    BY <1>0, <1>11, <1>u DEF vars, agentVars, coordVars
  <1> QED
    BY <1>0, <1>1, <1>2, <1>3, <1>4, <1>5, <1>6, <1>7, <1>8, <1>9, <1>10, <1>11
    DEF Next, NodeNext, AgentStep

-----------------------------------------------------------------------------
(* What a step does to the session of a worker m: it ends, starts with an    *)
(* empty prefix of a complete bundle, or moves past an artifact that is now  *)
(* archived.                                                                 *)
SessionStep(m) ==
    \/ session'[m] = session[m]
    \/ session'[m] = NoSession
    \/ /\ m # VPS /\ session'[m].next = 1
       /\ NoNode \notin Producers(session'[m].bundle)
       /\ \E b \in Batches : session'[m].bundle = files[m][b]
    \/ /\ Serving(m)
       /\ session[m].next \in Candidates
       /\ session'[m].batch = session[m].batch
       /\ session'[m].bundle = session[m].bundle
       /\ session'[m].next = session[m].next + 1
       /\ files'[VPS][session[m].batch][session[m].next] =
             session[m].bundle[session[m].next]

LEMMA SessionSteps ==
    ASSUME TypeOK, AgentInv, BundlesComplete, [Next]_vars, NEW m \in Workers
    PROVE  SessionStep(m)
  <1>t. /\ session \in [Workers -> Sessions]
        /\ files \in [Nodes -> [Batches -> [Candidates -> Nodes \cup {NoNode}]]]
        /\ VPS \in Nodes /\ CandidateCount \in Nat
    BY RunAssumption DEF TypeOK
  <1>0. UNCHANGED session => SessionStep(m)
    BY DEF SessionStep
  <1>1. ASSUME NEW n \in Workers, EndSession(n)
        PROVE  SessionStep(m)
    BY <1>1, <1>t DEF EndSession, SessionStep
  <1>2. ASSUME NEW n \in Workers, StartUpload(n)
        PROVE  SessionStep(m)
    <2>1. CASE Owned(n, cur[n])
      <3>1. cur[n] \in Batches
        BY DEF TypeOK
      <3>2. /\ session' = [session EXCEPT ![n] =
                  [batch |-> cur[n], bundle |-> files[n][cur[n]], next |-> 1]]
            /\ n # VPS /\ NoNode \notin Producers(files[n][cur[n]])
        BY <1>2, <2>1 DEF StartUpload
      <3>3. CASE m = n
        BY <1>t, <3>1, <3>2, <3>3 DEF SessionStep
      <3>4. CASE m # n
        BY <1>t, <3>2, <3>4 DEF SessionStep
      <3> QED
        BY <3>3, <3>4
    <2>2. CASE ~Owned(n, cur[n])
      BY <1>0, <1>2, <2>2 DEF StartUpload
    <2> QED
      BY <2>1, <2>2
  <1>3. ASSUME NEW n \in Workers, GatewayWrite(n)
        PROVE  SessionStep(m)
    <2>1. session' = [session EXCEPT ![n].next = @ + 1]
      BY <1>3 DEF GatewayWrite
    <2>2. CASE m # n
      BY <2>1, <2>2, <1>t DEF SessionStep
    <2>3. CASE m = n
      <3>1. /\ Serving(n) /\ session[n].batch \in Batches
            /\ session[n].next \in 0..(CandidateCount + 1)
            /\ session[n].next <= CandidateCount
            /\ session[n].next # 0
        BY <1>3, <1>t DEF GatewayWrite, Serving, BundlesComplete, Sessions
      <3>2. session[n].next \in Candidates
        BY <3>1, <1>t DEF Candidates
      <3>3. files'[VPS][session[n].batch][session[n].next] =
               session[n].bundle[session[n].next]
        BY <1>3, <1>t, <3>1, <3>2 DEF GatewayWrite
      <3>4. /\ session'[n].batch = session[n].batch
            /\ session'[n].bundle = session[n].bundle
            /\ session'[n].next = session[n].next + 1
        BY <2>1, <1>t
      <3> QED
        BY <2>3, <3>1, <3>2, <3>3, <3>4 DEF SessionStep
    <2> QED
      BY <2>2, <2>3
  <1>4. ASSUME NEW n \in Workers, WorkerStep(n), ~StartUpload(n)
        PROVE  UNCHANGED session
    BY <1>4 DEF WorkerStep, GlobalComplete, WorkLeft, Claim, ClaimRefused,
       StartChild, ChildHeartbeat, ChildPauses, ChildSkips, ChildComputes,
       ChildWrites, ChildCollision, FinalHeartbeat, LeaseLost, LocalComplete, Restart
  <1>5. ASSUME NEW n \in Workers, GatewayStep(n), ~GatewayWrite(n)
        PROVE  EndSession(n)
    BY <1>5 DEF GatewayStep, GatewayCollision, GatewayIngest
  <1>6. ASSUME NEW n \in Workers, FaultStep(n)
        PROVE  EndSession(n) \/ UNCHANGED session
    BY <1>6 DEF FaultStep, ClaimUnanswered, Crash, IngestReplyLost, GatewayDies
  <1>7. Clock => UNCHANGED session
    BY DEF Clock
  <1>8. UNCHANGED vars => UNCHANGED session
    BY DEF vars
  <1>9. ASSUME NEW n \in Workers, AgentStep(n)
        PROVE  UNCHANGED session
    BY <1>9 DEF AgentStep, AgentPause, AgentRequests, AgentAcks, AgentResumes,
       AgentReleases, AgentClears, AgentDies, Command, CommandEnds
  <1> QED
    BY <1>0, <1>1, <1>2, <1>3, <1>4, <1>5, <1>6, <1>7, <1>8, <1>9 DEF Next, NodeNext

(* Sessions keep serving complete bundles, and what they have passed over    *)
(* stays archived: a file already there is never replaced.                   *)
LEMMA SessionsInv ==
    ASSUME TypeOK, AgentInv, BundlesComplete, SessionPrefixArchived, [Next]_vars
    PROVE  BundlesComplete' /\ SessionPrefixArchived'
  <1> SUFFICES ASSUME NEW m \in Workers, Serving(m)'
               PROVE  /\ NoNode \notin Producers(session'[m].bundle)
                      /\ session'[m].next # 0
                      /\ \A c \in Candidates : c < session'[m].next =>
                            files'[VPS][session'[m].batch][c] = session'[m].bundle[c]
    BY DEF BundlesComplete, SessionPrefixArchived, Producers, Serving
  <1>t. /\ session[m] \in Sessions
        /\ VPS \in Nodes /\ CandidateCount \in Nat
    BY RunAssumption DEF TypeOK
  <1>n. Candidates \subseteq Nat \ {0}
    BY <1>t DEF Candidates
  <1>0. FileStep /\ SessionStep(m)
    BY FilesStay, SessionSteps
  <1>k. ASSUME Serving(m), NEW c \in Candidates, c < session[m].next
        PROVE  files'[VPS][session[m].batch][c] = session[m].bundle[c]
    <2>1. session[m].batch \in Batches
      BY <1>k, <1>t DEF Serving, Sessions
    <2>2. files[VPS][session[m].batch][c] = session[m].bundle[c]
      BY <1>k DEF SessionPrefixArchived
    <2>3. session[m].bundle[c] # NoNode
      BY <1>k DEF BundlesComplete, Producers
    <2> QED
      BY <1>0, <1>t, <2>1, <2>2, <2>3 DEF FileStep
  <1>1. CASE session'[m] = session[m]
    BY <1>1, <1>k DEF Serving, BundlesComplete
  <1>2. CASE session'[m] = NoSession
    BY <1>2 DEF Serving, NoSession
  <1>3. CASE session'[m].next = 1 /\ NoNode \notin Producers(session'[m].bundle)
    BY <1>3, <1>n
  <1>4. CASE /\ Serving(m)
             /\ session[m].next \in Candidates
             /\ session'[m].batch = session[m].batch
             /\ session'[m].bundle = session[m].bundle
             /\ session'[m].next = session[m].next + 1
             /\ files'[VPS][session[m].batch][session[m].next] =
                   session[m].bundle[session[m].next]
    <2>1. NoNode \notin Producers(session'[m].bundle) /\ session'[m].next # 0
      <3>1. NoNode \notin Producers(session[m].bundle)
        BY <1>4 DEF BundlesComplete
      <3>2. session'[m].next # 0
        <4>1. session[m].next \in Nat
          BY <1>4, <1>n
        <4>2. session'[m].next = session[m].next + 1
          BY <1>4
        <4> QED
          BY <4>1, <4>2
      <3> QED
        BY <1>4, <3>1, <3>2 DEF Producers
    <2>2. ASSUME NEW c \in Candidates, c < session'[m].next
          PROVE  files'[VPS][session'[m].batch][c] = session'[m].bundle[c]
      <3>1. c < session[m].next \/ c = session[m].next
        BY <1>4, <1>n, <2>2
      <3> QED
        BY <1>4, <1>k, <3>1
    <2> QED
      BY <2>1, <2>2
  <1> QED
    BY <1>0, <1>1, <1>2, <1>3, <1>4 DEF SessionStep

-----------------------------------------------------------------------------
(* The verdicts.  A step that accepts b finds b complete in the archive and  *)
(* records exactly its producers; every other step leaves the verdicts alone *)
(* and, by write-once, the archived files of every accepted batch.           *)
LEMMA ArchiveInv ==
    ASSUME TypeOK, AgentInv, BundlesComplete, ArchiveMatchesManifest, [Next]_vars
    PROVE  /\ ArchiveMatchesManifest'
           /\ \A b \in Batches : state[b] = "INGESTED" => state'[b] = "INGESTED"
  <1>t. CoordTypeOK /\ VPS \in Nodes
    BY RunAssumption DEF TypeOK
  <1>1. ASSUME NEW b \in Batches, NoNode \notin Producers(files[VPS][b])
        PROVE  Producers(files'[VPS][b]) = Producers(files[VPS][b])
    <2>1. \A c \in Candidates : files[VPS][b][c] # NoNode
      BY <1>1 DEF Producers
    <2>2. \A c \in Candidates : files'[VPS][b][c] = files[VPS][b][c]
      BY <1>t, <2>1, FilesStay DEF FileStep
    <2> QED
      BY <2>2 DEF Producers
  <1>2. CASE CoordPart
    <2>1. Quiet
      BY <1>2, <1>t, QuietCoord DEF CoordPart
    <2>2. ASSUME NEW b \in Batches, state'[b] = "INGESTED"
          PROVE  /\ NoNode \notin Producers(files'[VPS][b])
                 /\ ingested_manifest'[b] = Producers(files'[VPS][b])
      BY <1>1, <2>1, <2>2 DEF Quiet, ArchiveMatchesManifest
    <2>3. ArchiveMatchesManifest'
      BY <2>2 DEF ArchiveMatchesManifest, Producers
    <2> QED
      BY <2>1, <2>3 DEF Quiet
  <1>3. ASSUME NEW b \in Batches, Accepting(b)
        PROVE  /\ ArchiveMatchesManifest'
               /\ \A x \in Batches : state[x] = "INGESTED" => state'[x] = "INGESTED"
    <2>1. /\ state'[b] = "INGESTED"
          /\ ingested_manifest'[b] = Producers(files[VPS][b])
          /\ \A x \in Batches : x # b =>
                state'[x] = state[x] /\ ingested_manifest'[x] = ingested_manifest[x]
      BY <1>3, <1>t, MarkIngestedEffect DEF Accepting
    <2>2. ASSUME NEW x \in Batches, state'[x] = "INGESTED"
          PROVE  /\ NoNode \notin Producers(files'[VPS][x])
                 /\ ingested_manifest'[x] = Producers(files'[VPS][x])
      BY <1>3, <2>1, <2>2 DEF Accepting, ArchiveMatchesManifest
    <2>3. ArchiveMatchesManifest'
      BY <2>2 DEF ArchiveMatchesManifest, Producers
    <2> QED
      BY <2>1, <2>3
  <1> QED
    BY <1>2, <1>3, RunStepKinds

(* A worker counts a batch as delivered only in the step that ingests it.    *)
LEMMA AckedInv ==
    ASSUME TypeOK, AgentInv, BundlesComplete, ArchiveMatchesManifest, AckedIsIngested,
           [Next]_vars
    PROVE  AckedIsIngested'
  <1>t. /\ acked \in [Workers -> SUBSET Batches] /\ CoordTypeOK
        /\ \A n \in Workers : cur[n] \in Batches
        /\ \A n \in Workers : Serving(n) => session[n].batch \in Batches
    BY DEF TypeOK, Serving, Sessions
  <1>0. \A b \in Batches : state[b] = "INGESTED" => state'[b] = "INGESTED"
    BY ArchiveInv
  <1>u. UNCHANGED acked => AckedIsIngested'
    BY <1>0, <1>t DEF AckedIsIngested
  <1>a. ASSUME NEW n \in Workers, NEW b \in Batches, NEW m, MarkIngested(b, m),
               acked' = [acked EXCEPT ![n] = @ \cup {b}]
        PROVE  AckedIsIngested'
    <2>1. state'[b] = "INGESTED"
      BY <1>a, <1>t, MarkIngestedEffect
    <2> QED
      BY <1>0, <1>a, <1>t, <2>1 DEF AckedIsIngested
  <1>1. ASSUME NEW n \in Workers, LocalComplete(n)
        PROVE  AckedIsIngested'
    BY <1>1, <1>a, <1>t DEF LocalComplete
  <1>2. ASSUME NEW n \in Workers, GatewayIngest(n)
        PROVE  AckedIsIngested'
    <2>1. session[n].batch \in Batches
      BY <1>2, <1>t DEF GatewayIngest, Ingest
    <2>2. CASE pc[n] = "waiting"
      BY <1>2, <1>a, <2>1, <2>2 DEF GatewayIngest, Ingest
    <2>3. CASE pc[n] # "waiting"
      BY <1>2, <1>u, <2>3 DEF GatewayIngest
    <2> QED
      BY <2>2, <2>3
  <1>3. ASSUME NEW n \in Workers, WorkerStep(n), ~LocalComplete(n)
        PROVE  UNCHANGED acked
    BY <1>3 DEF WorkerStep, GlobalComplete, WorkLeft, Claim, ClaimRefused,
       StartChild, ChildHeartbeat, ChildPauses, ChildSkips, ChildComputes,
       ChildWrites, ChildCollision, FinalHeartbeat, LeaseLost, StartUpload,
       Restart, workerVars
  <1>4. ASSUME NEW n \in Workers, GatewayStep(n), ~GatewayIngest(n)
        PROVE  UNCHANGED acked
    BY <1>4 DEF GatewayStep, GatewayWrite, GatewayCollision, workerVars
  <1>5. ASSUME NEW n \in Workers, FaultStep(n)
        PROVE  UNCHANGED acked
    BY <1>5 DEF FaultStep, ClaimUnanswered, Crash, IngestReplyLost, GatewayDies
  <1>6. Clock => UNCHANGED acked
    BY DEF Clock, workerVars
  <1>7. UNCHANGED vars => UNCHANGED acked
    BY DEF vars, workerVars
  <1>8. ASSUME NEW n \in Workers, AgentStep(n)
        PROVE  UNCHANGED acked
    BY <1>8 DEF AgentStep, AgentPause, AgentRequests, AgentAcks, AgentResumes,
       AgentReleases, AgentClears, AgentDies, Command, CommandEnds, workerVars
  <1> QED
    BY <1>1, <1>2, <1>3, <1>4, <1>5, <1>6, <1>7, <1>8, <1>u DEF Next, NodeNext

LEMMA RunInit ==
    Init => RunInv
  <1> SUFFICES ASSUME Init PROVE RunInv
    OBVIOUS
  <1>1. CoordInv
    BY CoordInitInv DEF Init
  <1>2. TypeOK
    BY <1>1, RunAssumption, ConstantsAssumption
    DEF Init, TypeOK, CoordInv, NoFile, NoSession, NoCommand, Labels, Candidates,
        Batches, Sessions
  <1>3. BundlesComplete /\ SessionPrefixArchived
    BY DEF Init, BundlesComplete, SessionPrefixArchived, Serving, NoSession
  <1>4. ArchiveMatchesManifest /\ AckedIsIngested
    BY DEF Init, CoordInit, ArchiveMatchesManifest, AckedIsIngested
  <1>5. AgentInv /\ PausedIsMarked
    BY DEF Init, CoordInit, AgentInv, PausedIsMarked, NoCommand
  <1> QED
    BY <1>1, <1>2, <1>3, <1>4, <1>5 DEF RunInv

LEMMA RunNext ==
    RunInv /\ [Next]_vars => RunInv'
  BY RunCoordInv, RunTypes, AgentsInv, SessionsInv, ArchiveInv, AckedInv DEF RunInv

LEMMA RunInvariant ==
    Spec => []RunInv
  BY RunInit, RunNext, PTL DEF Spec

-----------------------------------------------------------------------------
(* Whatever uploads, completions, crashes and lease losses interleave, an    *)
(* INGESTED batch is complete in the archive of the VPS and its recorded     *)
(* manifest names exactly the producers of the archived files (what          *)
(* verify_batch_manifest and mark_ingested establish stays true).            *)
THEOREM ArchiveTheorem ==
    Spec => []ArchiveMatchesManifest
  BY RunInvariant, PTL DEF RunInv

(* A batch that a worker counts as completed is ingested, and while a        *)
(* gateway process serves a bundle, what it has passed over is archived as   *)
(* sent.                                                                     *)
THEOREM DeliveryTheorem ==
    Spec => []DeliveredIsArchived
  <1>1. RunInv => DeliveredIsArchived
    BY DEF RunInv, DeliveredIsArchived
  <1> QED
    BY RunInvariant, <1>1, PTL

(* A batch the coordinator holds as paused has its pause marker on the       *)
(* owner, whatever commands are refused or die half-way (worker agent's      *)
(* pause, resume and release).                                               *)
THEOREM PauseMarkerTheorem ==
    Spec => []PausedIsMarked
  BY RunInvariant, PTL DEF RunInv

(* The domains, for any number of nodes, batches, candidates and faults.     *)
THEOREM RunTypesTheorem ==
    Spec => []TypeOK
  BY RunInvariant, PTL DEF RunInv

(* write_once: no step of the run changes or removes a result file.          *)
THEOREM ImmutableTheorem ==
    Spec => FilesImmutable
  <1>1. RunInv /\ [Next]_vars => [FileStep]_vars
    BY FilesStay DEF RunInv
  <1> QED
    BY <1>1, RunInvariant, PTL DEF Spec, FilesImmutable

-----------------------------------------------------------------------------
(* The archive's files in a step: untouched, or one new file. *)
LEMMA ArchiveFiles ==
    ASSUME TypeOK, AgentInv, BundlesComplete, [Next]_vars
    PROVE  \/ files'[VPS] = files[VPS]
           \/ \E b \in Batches, c \in Candidates, p \in Nodes :
                 /\ files[VPS][b][c] = NoNode
                 /\ files'[VPS] = [files[VPS] EXCEPT ![b][c] = p]
  <1> DEFINE Goal == \/ files'[VPS] = files[VPS]
                     \/ \E b \in Batches, c \in Candidates, p \in Nodes :
                           /\ files[VPS][b][c] = NoNode
                           /\ files'[VPS] = [files[VPS] EXCEPT ![b][c] = p]
  <1>t. /\ files \in [Nodes -> [Batches -> [Candidates -> Nodes \cup {NoNode}]]]
        /\ VPS \in Nodes /\ Workers \subseteq Nodes /\ CandidateCount \in Nat
    BY RunAssumption DEF TypeOK
  <1>1. ASSUME NEW n \in Workers, ChildWrites(n)
        PROVE  Goal
    <2>1. n \in Nodes /\ cur[n] \in Batches /\ pos[n] \in Candidates
      BY <1>t DEF TypeOK
    <2>2. CASE files[n][cur[n]][pos[n]] = NoNode
      <3>1. files' = [files EXCEPT ![n][cur[n]][pos[n]] = n]
        BY <1>1, <2>2 DEF ChildWrites
      <3>2. CASE n = VPS
        BY <1>t, <2>1, <2>2, <3>1, <3>2
      <3>3. CASE n # VPS
        BY <1>t, <2>1, <3>1, <3>3
      <3> QED
        BY <3>2, <3>3
    <2>3. CASE files[n][cur[n]][pos[n]] # NoNode
      BY <1>1, <2>3 DEF ChildWrites
    <2> QED
      BY <2>2, <2>3
  <1>2. ASSUME NEW n \in Workers, GatewayWrite(n)
        PROVE  Goal
    <2> DEFINE b == session[n].batch
               c == session[n].next
               p == session[n].bundle[c]
    <2>1. /\ Serving(n) /\ b \in Batches \cup {0} /\ c \in 0..(CandidateCount + 1)
          /\ c <= CandidateCount
          /\ session[n].bundle \in [Candidates -> Nodes \cup {NoNode}]
          /\ NoNode \notin Producers(session[n].bundle) /\ c # 0
      BY <1>2 DEF GatewayWrite, TypeOK, BundlesComplete, Sessions
    <2>2. b \in Batches /\ c \in Candidates
      BY <1>t, <2>1 DEF Serving, Candidates
    <2>3. p \in Nodes
      BY <2>1, <2>2 DEF Producers
    <2>4. /\ files' = [files EXCEPT ![VPS][b][c] = p]
          /\ files[VPS][b][c] \in {NoNode, p}
      BY <1>2 DEF GatewayWrite, CanWrite
    <2>5. files'[VPS] = [files[VPS] EXCEPT ![b][c] = p]
      BY <1>t, <2>4
    <2>6. CASE files[VPS][b][c] = NoNode
      BY <2>2, <2>3, <2>5, <2>6
    <2>7. CASE files[VPS][b][c] = p
      <3>1. [files[VPS] EXCEPT ![b][c] = p] = files[VPS]
        BY <1>t, <2>2, <2>7
      <3> QED
        BY <2>5, <3>1
    <2> QED
      BY <2>4, <2>6, <2>7
  <1> QED
    BY <1>1, <1>2, WritingSteps

(* Every step of the run is a Publish, an Accept or a stutter of the archive. *)
LEMMA ArchiveStep ==
    ASSUME RunInv, [Next]_vars
    PROVE  [Archive!ArchiveNext]_<<files[VPS], ingested_manifest>>
  <1> USE DEF RunInv
  <1>t. /\ CoordTypeOK /\ RowShape
    BY DEF TypeOK, CoordInv
  <1>1. CASE CoordPart
    <2>1. ingested_manifest' = ingested_manifest
      BY <1>1, <1>t, QuietCoord DEF CoordPart, Quiet
    <2>2. \/ files'[VPS] = files[VPS]
          \/ \E b \in Batches, c \in Candidates, p \in Nodes :
                 Archive!Publish(b, c, p)
      BY <2>1, ArchiveFiles DEF Archive!Publish
    <2> QED
      BY <2>1, <2>2 DEF Archive!ArchiveNext
  <1>2. ASSUME NEW b \in Batches, Accepting(b)
        PROVE  [Archive!ArchiveNext]_<<files[VPS], ingested_manifest>>
    <2> DEFINE m == Producers(files[VPS][b])
    <2>1. /\ files' = files /\ NoNode \notin m
          /\ ingested_manifest' = [ingested_manifest EXCEPT ![b] = m]
      BY <1>2 DEF Accepting, MarkIngested
    <2>2. CASE state[b] = "INGESTED"
      <3>1. ingested_manifest[b] = m
        BY <2>2 DEF ArchiveMatchesManifest
      <3>2. ingested_manifest' = ingested_manifest
        BY <1>t, <2>1, <3>1 DEF CoordTypeOK
      <3> QED
        BY <2>1, <3>2
    <2>3. CASE state[b] # "INGESTED"
      <3>1. ingested_manifest[b] = NoManifest
        BY <1>t, <2>3 DEF RowShape
      <3>2. m = Archive!ProducersOf(files[VPS][b])
        BY DEF Producers, Archive!ProducersOf
      <3>3. Archive!Accept(b)
        BY <2>1, <3>1, <3>2 DEF Archive!Accept
      <3> QED
        BY <3>3 DEF Archive!ArchiveNext
    <2> QED
      BY <2>2, <2>3
  <1> QED
    BY <1>1, <1>2, RunStepKinds

(* The distributed run implements the archive it promises: each candidate    *)
(* gets at most one result, a result never changes, and a batch is accepted  *)
(* once, complete, under the manifest of exactly its producers.              *)
THEOREM RefinementTheorem ==
    Spec => ImplementsArchive
  <1>1. Init => Archive!ArchiveInit
    BY RunAssumption DEF Init, CoordInit, NoFile, Archive!ArchiveInit
  <1>2. RunInv /\ [Next]_vars =>
           [Archive!ArchiveNext]_<<files[VPS], ingested_manifest>>
    BY ArchiveStep
  <1> QED
    BY <1>1, <1>2, RunInvariant, PTL DEF Spec, ImplementsArchive, Archive!ArchiveSpec

-----------------------------------------------------------------------------
(* Who can have produced what lies where: under a worker's own root its own  *)
(* results, in its bundle the same, and in the archive of a VPS that runs no *)
(* worker, for each batch the results of one worker, the first one included. *)
OwnResults ==
    \A n \in Workers, b \in Batches, c \in Candidates :
        n # VPS => files[n][b][c] \in {NoNode, n}

OwnBundles ==
    \A n \in Workers, c \in Candidates : Serving(n) => session[n].bundle[c] = n

OneProducer ==
    VPS \notin Workers =>
        \A b \in Batches, c \in Candidates : files[VPS][b][c] # NoNode =>
            files[VPS][b][1] = files[VPS][b][c] /\ files[VPS][b][1] \in Workers

ProducerInv == OwnResults /\ OwnBundles /\ OneProducer

LEMMA OwnResultsInv ==
    ASSUME RunInv, OwnResults, [Next]_vars
    PROVE  OwnResults'
  <1>t. /\ files \in [Nodes -> [Batches -> [Candidates -> Nodes \cup {NoNode}]]]
        /\ cur \in [Workers -> Batches] /\ pos \in [Workers -> Candidates]
        /\ \A n \in Workers : n \in Nodes
        /\ VPS \in Nodes
    BY RunAssumption DEF RunInv, TypeOK
  <1>1. CASE UNCHANGED files
    BY <1>1 DEF OwnResults
  <1>2. ASSUME NEW n \in Workers, ChildWrites(n)
        PROVE  OwnResults'
    <2>1. CASE files[n][cur[n]][pos[n]] = NoNode
      <3>1. files' = [files EXCEPT ![n][cur[n]][pos[n]] = n]
        BY <1>2, <2>1 DEF ChildWrites
      <3> QED
        BY <1>t, <3>1 DEF OwnResults
    <2>2. CASE files[n][cur[n]][pos[n]] # NoNode
      BY <1>1, <1>2, <2>2 DEF ChildWrites
    <2> QED
      BY <2>1, <2>2
  <1>3. ASSUME NEW n \in Workers, GatewayWrite(n)
        PROVE  OwnResults'
    <2>1. \A m \in Workers : m # VPS => files'[m] = files[m]
      BY <1>3, <1>t DEF GatewayWrite
    <2> QED
      BY <2>1 DEF OwnResults
  <1> QED
    BY <1>1, <1>2, <1>3, WritingSteps

LEMMA OwnBundlesInv ==
    ASSUME RunInv, OwnResults, OwnBundles, [Next]_vars, NEW m \in Workers, Serving(m)',
           NEW c \in Candidates
    PROVE  session'[m].bundle[c] = m
  <1>0. SessionStep(m)
    BY SessionSteps DEF RunInv
  <1>1. CASE session'[m] = session[m]
    BY <1>1 DEF OwnBundles, Serving
  <1>2. CASE session'[m] = NoSession
    BY <1>2 DEF Serving, NoSession
  <1>3. ASSUME NEW b \in Batches, m # VPS, session'[m].bundle = files[m][b],
               NoNode \notin Producers(session'[m].bundle)
        PROVE  session'[m].bundle[c] = m
    BY <1>3 DEF OwnResults, Producers
  <1>4. CASE Serving(m) /\ session'[m].bundle = session[m].bundle
    BY <1>4 DEF OwnBundles
  <1> QED
    BY <1>0, <1>1, <1>2, <1>3, <1>4 DEF SessionStep

(* A gateway process that gets past the first artifact has seen its own node *)
(* there; so whatever it adds, the batch stays the work of one worker.       *)
LEMMA OneProducerInv ==
    ASSUME RunInv, OwnBundles, OneProducer, [Next]_vars
    PROVE  OneProducer'
  <1> SUFFICES ASSUME VPS \notin Workers
               PROVE  OneProducer'
    BY DEF OneProducer
  <1>t. /\ files \in [Nodes -> [Batches -> [Candidates -> Nodes \cup {NoNode}]]]
        /\ \A n \in Workers : n \in Nodes
        /\ VPS \in Nodes /\ CandidateCount \in Nat \ {0} /\ 1 \in Candidates
    BY RunAssumption DEF RunInv, TypeOK, Candidates
  <1>1. CASE files'[VPS] = files[VPS]
    BY <1>1 DEF OneProducer
  <1>2. ASSUME NEW n \in Workers, ChildWrites(n)
        PROVE  files'[VPS] = files[VPS]
    BY <1>2, <1>t DEF ChildWrites
  <1>3. ASSUME NEW n \in Workers, GatewayWrite(n)
        PROVE  OneProducer'
    <2> DEFINE s == session[n]
    <2>1. /\ Serving(n) /\ s.batch \in Batches /\ s.next \in Candidates
      BY <1>3, <1>t DEF GatewayWrite, RunInv, TypeOK, BundlesComplete, Sessions, Serving,
         Candidates
    <2>2. s.bundle[1] = n /\ s.bundle[s.next] = n
      BY <1>t, <2>1 DEF OwnBundles
    <2>3. s.next # 1 => files[VPS][s.batch][1] = n
      <3>1. s.next # 1 => 1 < s.next
        BY <1>t, <2>1 DEF Candidates
      <3> QED
        BY <1>t, <2>1, <2>2, <3>1 DEF RunInv, SessionPrefixArchived
    <2>4. s.next = 1 => files[VPS][s.batch][1] \in {NoNode, n}
      BY <1>3, <2>2 DEF GatewayWrite, CanWrite
    <2>5. files' = [files EXCEPT ![VPS][s.batch][s.next] = n]
      BY <1>3, <2>2 DEF GatewayWrite
    <2>6. files'[VPS][s.batch][1] = n
      BY <1>t, <2>1, <2>3, <2>5
    <2>7. ASSUME NEW b \in Batches, NEW c \in Candidates, files'[VPS][b][c] # NoNode
          PROVE  files'[VPS][b][1] = files'[VPS][b][c] /\ files'[VPS][b][1] \in Workers
      <3>1. CASE b # s.batch
        <4>1. files'[VPS][b] = files[VPS][b]
          BY <1>t, <2>5, <3>1
        <4> QED
          BY <2>7, <4>1 DEF OneProducer
      <3>2. CASE b = s.batch /\ c = s.next
        BY <1>t, <2>1, <2>5, <2>6, <3>2
      <3>3. CASE b = s.batch /\ c # s.next
        <4>1. files'[VPS][b][c] = files[VPS][b][c]
          BY <1>t, <2>1, <2>5, <3>3
        <4>2. files[VPS][b][1] = files[VPS][b][c]
          BY <2>7, <4>1 DEF OneProducer
        <4>3. files[VPS][b][1] = n
          BY <2>3, <2>4, <2>7, <3>3, <4>1, <4>2
        <4> QED
          BY <2>6, <3>3, <4>1, <4>2, <4>3
      <3> QED
        BY <3>1, <3>2, <3>3
    <2> QED
      BY <2>7 DEF OneProducer
  <1>4. CASE UNCHANGED files
    BY <1>1, <1>4
  <1> QED
    BY <1>1, <1>2, <1>3, <1>4, WritingSteps

LEMMA ProducerInvariant ==
    Spec => []ProducerInv
  <1>1. Init => ProducerInv
    BY RunAssumption
    DEF Init, ProducerInv, OwnResults, OwnBundles, OneProducer, NoFile, NoSession, Serving
  <1>2. RunInv /\ ProducerInv /\ [Next]_vars => ProducerInv'
    <2> SUFFICES ASSUME RunInv, ProducerInv, [Next]_vars
                 PROVE  ProducerInv'
      OBVIOUS
    <2>1. OwnResults'
      BY OwnResultsInv DEF ProducerInv
    <2>2. OwnBundles'
      BY OwnBundlesInv DEF ProducerInv, OwnBundles
    <2>3. OneProducer'
      BY OneProducerInv DEF ProducerInv
    <2> QED
      BY <2>1, <2>2, <2>3 DEF ProducerInv
  <1> QED
    BY <1>1, <1>2, RunInvariant, PTL DEF Spec

(* "Expired leases become eligible for recovery": however uploads of rival   *)
(* owners interleave and die, some worker can still deliver each batch that  *)
(* is not ingested: the VPS worker, or else the one remote worker whose      *)
(* artifacts the archive holds, for all the others are refused at the first. *)
THEOREM DeliverableTheorem ==
    ASSUME Workers # {}
    PROVE  Spec => []BatchDeliverable
  <1>1. ProducerInv => BatchDeliverable
    <2> SUFFICES ASSUME ProducerInv, NEW b \in Batches
                 PROVE  \E n \in Workers :
                           \/ n = VPS
                           \/ \A c \in Candidates : files[VPS][b][c] \in {NoNode, n}
      BY DEF BatchDeliverable
    <2>1. CASE VPS \in Workers
      BY <2>1
    <2>2. CASE VPS \notin Workers /\ \E c \in Candidates : files[VPS][b][c] # NoNode
      <3>1. files[VPS][b][1] \in Workers
        BY <2>2 DEF ProducerInv, OneProducer
      <3>2. \A c \in Candidates : files[VPS][b][c] \in {NoNode, files[VPS][b][1]}
        BY <2>2 DEF ProducerInv, OneProducer
      <3> QED
        BY <3>1, <3>2
    <2>3. CASE \A c \in Candidates : files[VPS][b][c] = NoNode
      BY <2>3
    <2> QED
      BY <2>1, <2>2, <2>3
  <1> QED
    BY <1>1, ProducerInvariant, PTL
=============================================================================
