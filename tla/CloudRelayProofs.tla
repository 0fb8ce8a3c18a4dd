--------------------------- MODULE CloudRelayProofs ---------------------------
(***************************************************************************)
(* The Cloudflare relay is safe for any number of nodes, batches and        *)
(* candidates, any lease and any interleaving of handlers at their awaits.  *)
(* Three invariants are needed beside the property: a handler that has      *)
(* passed the check of a ready report has its manifest in the bucket for    *)
(* good; the clock sample of a request is never ahead of the clock; and     *)
(* what a node was told lies within a lease of the sample of its next call, *)
(* so that no request of its own can move its lease end back.               *)
(***************************************************************************)
EXTENDS CloudRelay, WellFoundedInduction, TLAPS

States == {"AVAILABLE", "CLAIMED", "PAUSE_REQUESTED", "PAUSED", "AWAITING_INGEST", "INGESTED"}

Rows == [state : States, owner : RelayNodes \cup {None}, lease : Nat \cup {None},
         manifest : RelayNodes \cup {None}]

Calls == [node : RelayNodes, kind : Kinds, batch : RelayBatches, cand : RelayCandidates, now : Nat,
          at : {"select", "update", "check", "put", "reply"}, left : Int]

Files == [RelayBatches -> [RelayCandidates -> RelayNodes \cup {None}]]

(* Every variable the properties depend on stays in its domain. *)
TypeOK ==
    /\ row \in [RelayBatches -> Rows]
    /\ objects \in Files /\ archive \in Files
    /\ manifests \in [RelayBatches -> SUBSET RelayNodes]
    /\ clock \in Nat \ {0}
    /\ call \in [RelayNodes -> Calls \cup {None}] /\ late \subseteq Calls
    /\ lates \in Nat
    /\ toldEnd \in [RelayNodes -> [RelayBatches -> Nat]]
    /\ \/ pull = NoPull
       \/ pull \in [batch : RelayBatches, manifest : RelayNodes \cup {None}, next : Nat \ {0}]

(* A client waits for its own requests; a sample is of the past; a checked   *)
(* ready report has its manifest.                                            *)
RequestsInv ==
    /\ \A n \in RelayNodes : call[n] # None => call[n].node = n
    /\ \A r \in Requests :
        /\ r.now <= clock
        /\ r.kind = "ready" /\ r.at = "update" => r.node \in manifests[r.batch]

(* What a node was told: within a lease of the clock and of the sample of    *)
(* its running call, and no more than the lease of the row it still owns.    *)
PromiseInv ==
    /\ late = {}
    /\ \A n \in RelayNodes, b \in RelayBatches :
        /\ toldEnd[n][b] <= clock + Lease
        /\ call[n] # None => toldEnd[n][b] <= call[n].now + Lease
        /\ clock <= toldEnd[n][b] =>
              row[b].state = "CLAIMED" /\ row[b].owner = n /\ row[b].lease >= toldEnd[n][b]

RelayInv ==
    /\ TypeOK /\ RequestsInv
    /\ RelayRowShape /\ IngestedIsArchived
    /\ lates = 0 => PromiseInv

LEMMA ConstantFacts ==
    /\ Lease \in Nat \ {0} /\ RelayBatchCount \in Nat \ {0} /\ RelayCandidateCount \in Nat \ {0}
    /\ MaxAttempts \in Nat \ {0} /\ 1 \in RelayBatches /\ 1 \in RelayCandidates
    /\ RelayBatches \subseteq Nat \ {0} /\ RelayCandidates \subseteq Nat \ {0}
    /\ Used \subseteq Kinds /\ None \notin RelayNodes /\ None \notin Nat
  BY RelayAssumption DEF RelayBatches, RelayCandidates

(* A nonempty set of natural numbers has a least one. *)
LEMMA LeastNumber ==
    ASSUME NEW S \in SUBSET Nat, S # {}
    PROVE  \E x \in S : \A y \in S : x <= y
  <1>1. PICK x \in S : \A y \in S : ~(<<y, x>> \in OpToRel(<, Nat))
    BY WFMin, NatLessThanWellFounded
  <1>2. \A y \in S : ~(y < x)
    BY <1>1 DEF OpToRel
  <1> QED
    BY <1>2

LEMMA RelayInitial == RelayInit => RelayInv
  <1> SUFFICES ASSUME RelayInit PROVE RelayInv
    OBVIOUS
  <1>1. TypeOK
    BY ConstantFacts DEF RelayInit, TypeOK, Rows, States, Files
  <1>2. Requests = {}
    BY DEF RelayInit, Requests
  <1>3. RequestsInv
    BY <1>2 DEF RelayInit, RequestsInv
  <1>4. RelayRowShape /\ IngestedIsArchived
    BY DEF RelayInit, RelayRowShape, IngestedIsArchived
  <1>5. PromiseInv
    BY ConstantFacts DEF RelayInit, PromiseInv
  <1> QED
    BY <1>1, <1>3, <1>4, <1>5 DEF RelayInv

-----------------------------------------------------------------------------
(* A request under way is a call of its node or a late one. *)
LEMMA RequestFacts ==
    ASSUME TypeOK, RequestsInv, NEW r \in Requests
    PROVE  /\ r \in Calls
           /\ r \notin late => call[r.node] = r
  BY DEF Requests, TypeOK, RequestsInv

(* What a handler's step does to the requests: one of them moves on or is    *)
(* answered, the others stay.                                                *)
Handled(r, to) ==
    /\ call' \in [RelayNodes -> Calls \cup {None}] /\ late' \subseteq Calls
    /\ \A n \in RelayNodes : call'[n] # None =>
          call[n] # None /\ call'[n].node = n /\ call'[n].now = call[n].now
    /\ late = {} => late' = {}
    /\ \A q \in Requests' : q \in Requests \/ q = to

LEMMA AdvanceHandled ==
    ASSUME TypeOK, RequestsInv, NEW r \in Requests, NEW to \in Calls,
           to.node = r.node, to.now = r.now, RelayAdvance(r, to)
    PROVE  Handled(r, to)
  <1>0. /\ r \in Calls /\ r.node \in RelayNodes /\ (r \notin late => call[r.node] = r)
        /\ call \in [RelayNodes -> Calls \cup {None}] /\ late \subseteq Calls
    BY RequestFacts DEF TypeOK, Calls
  <1>1. CASE r \in late
    BY <1>0, <1>1 DEF RelayAdvance, Handled, Requests, RequestsInv
  <1>2. CASE r \notin late
    <2>1. /\ call' = [call EXCEPT ![r.node] = to] /\ late' = late
          /\ call[r.node] = r
      BY <1>0, <1>2 DEF RelayAdvance
    <2>2. call[r.node] # None
      BY <1>0, <1>2, <2>1 DEF Requests
    <2> QED
      BY <1>0, <2>1, <2>2 DEF Handled, Requests, RequestsInv
  <1> QED
    BY <1>1, <1>2

LEMMA AnswerHandled ==
    ASSUME TypeOK, RequestsInv, NEW r \in Requests, Answer(r)
    PROVE  Handled(r, r)
  <1>0. /\ r \in Calls /\ r.node \in RelayNodes /\ (r \notin late => call[r.node] = r)
        /\ call \in [RelayNodes -> Calls \cup {None}] /\ late \subseteq Calls
    BY RequestFacts DEF TypeOK, Calls
  <1>1. CASE r \in late
    BY <1>0, <1>1 DEF Answer, Handled, Requests, RequestsInv
  <1>2. CASE r \notin late
    BY <1>0, <1>2 DEF Answer, Handled, Requests, RequestsInv
  <1> QED
    BY <1>1, <1>2

-----------------------------------------------------------------------------
(* The ways a row changes: what the UPDATE statements of the handlers, with  *)
(* their WHERE clauses, and the acknowledged pull leave of it.               *)
RowMove(b) ==
    \/ row'[b] = row[b]
    \/ /\ row[b].state \in {"AVAILABLE", "CLAIMED", "PAUSED"}
       /\ row'[b].state = "CLAIMED" /\ row'[b].owner \in RelayNodes /\ row'[b].lease \in Nat
       /\ row'[b].manifest = row[b].manifest
    \/ /\ row[b].state = "CLAIMED" /\ row'[b].state = "PAUSE_REQUESTED"
       /\ row'[b].owner = row[b].owner /\ row'[b].lease = row[b].lease
       /\ row'[b].manifest = row[b].manifest
    \/ /\ row[b].state = "PAUSE_REQUESTED" /\ row'[b].state = "PAUSED"
       /\ row'[b].owner = row[b].owner /\ row'[b].lease = None
       /\ row'[b].manifest = row[b].manifest
    \/ /\ row[b].state \in {"CLAIMED", "PAUSE_REQUESTED", "PAUSED"}
       /\ row'[b].state = "AVAILABLE"
       /\ row'[b].owner = None /\ row'[b].lease = None
       /\ row'[b].manifest = row[b].manifest
    \/ /\ row[b].state = "CLAIMED" /\ row'[b].state = "AWAITING_INGEST"
       /\ row'[b].owner = row[b].owner /\ row'[b].lease = None
       /\ row'[b].manifest = row[b].owner /\ row'[b].manifest \in manifests[b]
    \/ /\ row[b].state = "AWAITING_INGEST" /\ row'[b].state = "INGESTED"
       /\ row'[b].owner = None /\ row'[b].lease = row[b].lease
       /\ row'[b].manifest = row[b].manifest
       /\ Verified(b, row[b].manifest)

(* What a step of the coordinator may do to the table and the bucket. *)
TableStep ==
    /\ row' \in [RelayBatches -> Rows] /\ objects' \in Files
    /\ manifests' \in [RelayBatches -> SUBSET RelayNodes]
    /\ \A b \in RelayBatches : RowMove(b) /\ manifests[b] \subseteq manifests'[b]

LEMMA SameTable ==
    ASSUME TypeOK, UNCHANGED tableVars
    PROVE  TableStep
  BY DEF TypeOK, tableVars, TableStep, RowMove

(* An update of one row. *)
LEMMA OneRow ==
    ASSUME TypeOK, NEW b \in RelayBatches, NEW new \in Rows, row' = [row EXCEPT ![b] = new],
           row'[b] = new => RowMove(b), UNCHANGED <<objects, manifests>>
    PROVE  TableStep
  BY DEF TypeOK, TableStep, RowMove

(* The requests of the handlers, and the files and rows they change. *)
HandlerStep(r) ==
    /\ TableStep
    /\ toldEnd' \in [RelayNodes -> [RelayBatches -> Nat]]
    /\ \E to \in Calls :
        /\ Handled(r, to) /\ to.now = r.now
        /\ to.kind = "ready" /\ to.at = "update" => to.node \in manifests[to.batch]

LEMMA RefuseHandled ==
    ASSUME TypeOK, RequestsInv, NEW r \in Requests, Refuse(r)
    PROVE  HandlerStep(r)
  <1>1. TableStep
    BY SameTable DEF Refuse
  <1>2. Handled(r, r) /\ r \in Calls
    BY AnswerHandled, RequestFacts DEF Refuse
  <1> QED
    BY <1>1, <1>2 DEF HandlerStep, Refuse, TypeOK, RequestsInv

LEMMA LetGoHandled ==
    ASSUME TypeOK, RequestsInv, NEW r \in Requests, NEW guard \in BOOLEAN, NEW new,
           LetGo(r, guard, new),
           guard => new \in Rows /\ (row'[r.batch] = new => RowMove(r.batch))
    PROVE  HandlerStep(r)
  <1>0. r \in Calls /\ r.node \in RelayNodes /\ r.batch \in RelayBatches
    BY RequestFacts DEF Calls
  <1>1. CASE ~guard
    BY <1>1, RefuseHandled DEF LetGo
  <1>2. CASE guard
    <2>1. /\ row' = [row EXCEPT ![r.batch] = new] /\ toldEnd' = Withdraw(toldEnd, r)
          /\ Answer(r) /\ UNCHANGED <<objects, manifests>>
      BY <1>2 DEF LetGo
    <2>2. TableStep
      BY <1>0, <1>2, <2>1, OneRow
    <2>3. Handled(r, r)
      BY <2>1, AnswerHandled
    <2>4. toldEnd' \in [RelayNodes -> [RelayBatches -> Nat]]
      BY <1>0, <2>1 DEF Withdraw, TypeOK
    <2> QED
      BY <1>0, <2>2, <2>3, <2>4 DEF HandlerStep, RequestsInv
  <1> QED
    BY <1>1, <1>2

(* A request at its next await. *)
LEMMA NextAwait ==
    ASSUME NEW r \in Calls, NEW at \in {"select", "update", "check", "put", "reply"}
    PROVE  LET to == [r EXCEPT !.at = at]
           IN  /\ to \in Calls /\ to.node = r.node /\ to.now = r.now /\ to.at = at
               /\ to.kind = r.kind /\ to.batch = r.batch
  BY DEF Calls

LEMMA SelectedBatch ==
    ASSUME NEW r \in Calls, NEW b \in RelayBatches
    PROVE  LET to == [r EXCEPT !.batch = b, !.at = "update", !.left = @ - 1]
           IN  to \in Calls /\ to.node = r.node /\ to.now = r.now /\ to.kind = r.kind
  <1>1. r.left \in Int
    BY DEF Calls
  <1>2. r.left - 1 \in Int
    BY <1>1
  <1> DEFINE k == r.left - 1
  <1> HIDE DEF k
  <1>3. LET to == [r EXCEPT !.batch = b, !.at = "update", !.left = k]
        IN  to \in Calls /\ to.node = r.node /\ to.now = r.now /\ to.kind = r.kind
    BY <1>2 DEF Calls, k
  <1> QED
    BY <1>3 DEF k

LEMMA AdvancedHandled ==
    ASSUME TypeOK, RequestsInv, NEW r \in Requests,
           NEW at \in {"select", "update", "check", "put", "reply"},
           RelayAdvance(r, [r EXCEPT !.at = at]), TableStep, UNCHANGED toldEnd,
           r.kind = "ready" /\ at = "update" => r.node \in manifests[r.batch]
    PROVE  HandlerStep(r)
  <1>0. r \in Calls
    BY RequestFacts
  <1> DEFINE to == [r EXCEPT !.at = at]
  <1>1. /\ to \in Calls /\ to.node = r.node /\ to.now = r.now /\ to.at = at
        /\ to.kind = r.kind /\ to.batch = r.batch
    BY <1>0, NextAwait
  <1>2. RelayAdvance(r, to)
    OBVIOUS
  <1> HIDE DEF to
  <1>3. Handled(r, to)
    BY <1>1, <1>2, AdvanceHandled
  <1> QED
    BY <1>1, <1>3 DEF HandlerStep, TypeOK

-----------------------------------------------------------------------------
(* The handlers of claims. *)
LEMMA ClaimHandled ==
    ASSUME RelayInv, NEW r \in Requests,
           AutoSelect(r) \/ ClaimUpdate(r) \/ ClaimReply(r)
    PROVE  HandlerStep(r)
  <1>0. /\ TypeOK /\ RequestsInv /\ r \in Calls
        /\ r.node \in RelayNodes /\ r.batch \in RelayBatches /\ r.now \in Nat
    BY RequestFacts DEF RelayInv, Calls
  <1>r. row[r.batch] \in Rows
    BY <1>0 DEF TypeOK
  <1>1. CASE AutoSelect(r)
    <2> DEFINE free == {b \in RelayBatches : Claimable(b, None, r.now)}
               to == [r EXCEPT !.batch = Min(free), !.at = "update", !.left = @ - 1]
    <2>1. CASE free = {} \/ r.left = 0
      BY <1>0, <1>1, <2>1, RefuseHandled DEF AutoSelect
    <2>2. CASE ~(free = {} \/ r.left = 0)
      <3>1. RelayAdvance(r, to) /\ UNCHANGED <<tableVars, toldEnd>> /\ r.kind = "auto"
        BY <1>1, <2>2 DEF AutoSelect
      <3>2. Min(free) \in RelayBatches
        <4>1. \E x \in free : \A y \in free : x <= y
          BY <2>2, ConstantFacts, LeastNumber
        <4> QED
          BY <4>1 DEF Min
      <3>3. /\ to \in Calls /\ to.node = r.node /\ to.now = r.now /\ to.kind = "auto"
        BY <1>0, <3>1, <3>2, SelectedBatch
      <3> HIDE DEF to
      <3>4. Handled(r, to)
        BY <1>0, <3>1, <3>3, AdvanceHandled
      <3> QED
        BY <1>0, <3>1, <3>3, <3>4, SameTable DEF HandlerStep, TypeOK
    <2> QED
      BY <2>1, <2>2
  <1>2. CASE ClaimUpdate(r)
    <2>1. CASE Claimable(r.batch, r.node, r.now)
      <3> DEFINE new == [state |-> "CLAIMED", owner |-> r.node, lease |-> r.now + Lease,
                         manifest |-> row[r.batch].manifest]
      <3>1. /\ row' = [row EXCEPT ![r.batch] = new]
            /\ RelayAdvance(r, [r EXCEPT !.at = "reply"])
            /\ UNCHANGED <<objects, manifests, toldEnd>>
        BY <1>2, <2>1 DEF ClaimUpdate
      <3>2. new \in Rows /\ new.state = "CLAIMED" /\ new.owner = r.node /\ new.lease \in Nat
            /\ new.manifest = row[r.batch].manifest
        <4>1. row[r.batch].manifest \in RelayNodes \cup {None} /\ r.now + Lease \in Nat
          BY <1>0, <1>r, ConstantFacts DEF Rows
        <4> QED
          BY <1>0, <4>1 DEF Rows, States
      <3> HIDE DEF new
      <3>3. row'[r.batch] = new => RowMove(r.batch)
        BY <1>0, <2>1, <3>2 DEF Claimable, RowMove
      <3>4. TableStep
        BY <1>0, <3>1, <3>2, <3>3, OneRow
      <3> QED
        BY <1>0, <3>1, <3>4, AdvancedHandled
    <2>2. CASE ~Claimable(r.batch, r.node, r.now) /\ r.kind = "auto"
      <3>1. RelayAdvance(r, [r EXCEPT !.at = "select"]) /\ UNCHANGED <<tableVars, toldEnd>>
        BY <1>2, <2>2 DEF ClaimUpdate
      <3> QED
        BY <1>0, <3>1, SameTable, AdvancedHandled
    <2>3. CASE ~Claimable(r.batch, r.node, r.now) /\ r.kind # "auto"
      BY <1>0, <1>2, <2>3, RefuseHandled DEF ClaimUpdate
    <2> QED
      BY <2>1, <2>2, <2>3
  <1>3. CASE ClaimReply(r)
    <2>1. Answer(r) /\ UNCHANGED <<tableVars, toldEnd>>
      BY <1>3 DEF ClaimReply
    <2>2. Handled(r, r)
      BY <1>0, <2>1, AnswerHandled
    <2> QED
      BY <1>0, <2>1, <2>2, SameTable DEF HandlerStep, TypeOK, RequestsInv
  <1> QED
    BY <1>1, <1>2, <1>3

(* heartbeat and resume: the row gets a new lease end, the node is told it. *)
LEMMA RenewHandled ==
    ASSUME RelayInv, NEW r \in Requests, HeartbeatUpdate(r) \/ ResumeUpdate(r)
    PROVE  HandlerStep(r)
  <1>0. /\ TypeOK /\ RequestsInv /\ r \in Calls
        /\ r.node \in RelayNodes /\ r.batch \in RelayBatches /\ r.now \in Nat
    BY RequestFacts DEF RelayInv, Calls
  <1>r. row[r.batch] \in Rows
    BY <1>0 DEF TypeOK
  <1>s. r.now + Lease \in Nat
    BY <1>0, ConstantFacts
  <1>1. CASE Refuse(r)
    BY <1>0, <1>1, RefuseHandled
  <1>2. ASSUME NEW new, row' = [row EXCEPT ![r.batch] = new],
               toldEnd' = Promise(toldEnd, r, r.now + Lease), Answer(r),
               UNCHANGED <<objects, manifests>>,
               new \in Rows, row'[r.batch] = new => RowMove(r.batch)
        PROVE  HandlerStep(r)
    <2>1. TableStep
      BY <1>0, <1>2, OneRow
    <2>2. Handled(r, r)
      BY <1>0, <1>2, AnswerHandled
    <2>3. toldEnd' \in [RelayNodes -> [RelayBatches -> Nat]]
      BY <1>0, <1>s, <1>2 DEF Promise, TypeOK
    <2> QED
      BY <1>0, <2>1, <2>2, <2>3 DEF HandlerStep, RequestsInv
  <1>3. CASE HeartbeatUpdate(r) /\ ~Refuse(r)
    <2> DEFINE new == [row[r.batch] EXCEPT !.lease = r.now + Lease]
    <2>1. /\ Held(r.batch, r.node, r.now)
          /\ row' = [row EXCEPT ![r.batch] = new]
          /\ toldEnd' = Promise(toldEnd, r, r.now + Lease)
          /\ Answer(r) /\ UNCHANGED <<objects, manifests>>
      BY <1>0, <1>3 DEF HeartbeatUpdate, TypeOK
    <2>2. /\ new \in Rows /\ new.state = row[r.batch].state /\ new.owner = row[r.batch].owner
          /\ new.lease = r.now + Lease /\ new.manifest = row[r.batch].manifest
      BY <1>r, <1>s DEF Rows
    <2> HIDE DEF new
    <2>3. row'[r.batch] = new => RowMove(r.batch)
      BY <1>0, <1>s, <2>1, <2>2 DEF Held, RowMove
    <2> QED
      BY <1>2, <2>1, <2>2, <2>3
  <1>4. CASE ResumeUpdate(r) /\ ~Refuse(r)
    <2> DEFINE new == [row[r.batch] EXCEPT !.state = "CLAIMED", !.lease = r.now + Lease]
    <2>1. /\ RelayOwned(r.batch, r.node, {"PAUSED"})
          /\ row' = [row EXCEPT ![r.batch] = new]
          /\ toldEnd' = Promise(toldEnd, r, r.now + Lease)
          /\ Answer(r) /\ UNCHANGED <<objects, manifests>>
      BY <1>0, <1>4 DEF ResumeUpdate, TypeOK
    <2>2. /\ new \in Rows /\ new.state = "CLAIMED" /\ new.owner = row[r.batch].owner
          /\ new.lease = r.now + Lease /\ new.manifest = row[r.batch].manifest
      BY <1>r, <1>s DEF Rows, States
    <2> HIDE DEF new
    <2>3. row'[r.batch] = new => RowMove(r.batch)
      BY <1>0, <1>s, <2>1, <2>2 DEF RelayOwned, RowMove
    <2> QED
      BY <1>2, <2>1, <2>2, <2>3
  <1> QED
    BY <1>1, <1>3, <1>4

(* pause, paused, release and ready: the node lets go of its lease. *)
LEMMA GoHandled ==
    ASSUME RelayInv, NEW r \in Requests,
           PauseUpdate(r) \/ PausedUpdate(r) \/ ReleaseUpdate(r) \/ ReadyUpdate(r)
    PROVE  HandlerStep(r)
  <1>0. /\ TypeOK /\ RequestsInv /\ r \in Calls
        /\ r.node \in RelayNodes /\ r.batch \in RelayBatches /\ r.now \in Nat
    BY RequestFacts DEF RelayInv, Calls
  <1>r. row[r.batch] \in Rows
    BY <1>0 DEF TypeOK
  <1>g. ASSUME NEW x \in SUBSET States
        PROVE  RelayOwned(r.batch, r.node, x) \in BOOLEAN /\ Held(r.batch, r.node, r.now) \in BOOLEAN
    BY DEF RelayOwned, Held
  <1>1. CASE PauseUpdate(r)
    <2> DEFINE new == [row[r.batch] EXCEPT !.state = "PAUSE_REQUESTED"]
    <2>1. LetGo(r, Held(r.batch, r.node, r.now), new)
      BY <1>1 DEF PauseUpdate
    <2>2. /\ new \in Rows /\ new.state = "PAUSE_REQUESTED" /\ new.owner = row[r.batch].owner
          /\ new.lease = row[r.batch].lease /\ new.manifest = row[r.batch].manifest
      BY <1>r DEF Rows, States
    <2> HIDE DEF new
    <2>3. Held(r.batch, r.node, r.now) => (row'[r.batch] = new => RowMove(r.batch))
      BY <2>2 DEF Held, RowMove
    <2> QED
      BY <1>0, <1>g, <2>1, <2>2, <2>3, LetGoHandled
  <1>2. CASE PausedUpdate(r)
    <2> DEFINE new == [row[r.batch] EXCEPT !.state = "PAUSED", !.lease = None]
               guard == RelayOwned(r.batch, r.node, {"PAUSE_REQUESTED"})
    <2>1. LetGo(r, guard, new)
      BY <1>2 DEF PausedUpdate
    <2>2. /\ new \in Rows /\ new.state = "PAUSED" /\ new.owner = row[r.batch].owner
          /\ new.lease = None /\ new.manifest = row[r.batch].manifest
      BY <1>r DEF Rows, States
    <2>3. guard \in BOOLEAN
      BY <1>g DEF States
    <2> HIDE DEF new
    <2>4. guard => (row'[r.batch] = new => RowMove(r.batch))
      BY <2>2 DEF RelayOwned, RowMove
    <2> HIDE DEF guard
    <2> QED
      BY <1>0, <2>1, <2>2, <2>3, <2>4, LetGoHandled
  <1>3. CASE ReleaseUpdate(r)
    <2> DEFINE new == [row[r.batch] EXCEPT !.state = "AVAILABLE", !.owner = None,
                                           !.lease = None]
               guard == RelayOwned(r.batch, r.node, {"CLAIMED", "PAUSE_REQUESTED", "PAUSED"})
    <2>1. LetGo(r, guard, new)
      BY <1>3 DEF ReleaseUpdate
    <2>2. /\ new \in Rows /\ new.state = "AVAILABLE" /\ new.owner = None
          /\ new.lease = None /\ new.manifest = row[r.batch].manifest
      BY <1>r DEF Rows, States
    <2>3. guard \in BOOLEAN
      BY <1>g DEF States
    <2> HIDE DEF new
    <2>4. guard => (row'[r.batch] = new => RowMove(r.batch))
      BY <2>2 DEF RelayOwned, RowMove
    <2> HIDE DEF guard
    <2> QED
      BY <1>0, <2>1, <2>2, <2>3, <2>4, LetGoHandled
  <1>4. CASE ReadyUpdate(r)
    <2> DEFINE new == [row[r.batch] EXCEPT !.state = "AWAITING_INGEST", !.lease = None,
                                           !.manifest = r.node]
               guard == RelayOwned(r.batch, r.node, {"CLAIMED"})
    <2>1. LetGo(r, guard, new) /\ r.node \in manifests[r.batch]
      BY <1>0, <1>4 DEF ReadyUpdate, RequestsInv
    <2>2. /\ new \in Rows /\ new.state = "AWAITING_INGEST" /\ new.owner = row[r.batch].owner
          /\ new.lease = None /\ new.manifest = r.node
      BY <1>0, <1>r DEF Rows, States
    <2>3. guard \in BOOLEAN
      BY <1>g DEF States
    <2> HIDE DEF new
    <2>4. guard => (row'[r.batch] = new => RowMove(r.batch))
      BY <2>1, <2>2 DEF RelayOwned, RowMove
    <2> HIDE DEF guard
    <2> QED
      BY <1>0, <2>1, <2>2, <2>3, <2>4, LetGoHandled
  <1> QED
    BY <1>1, <1>2, <1>3, <1>4

(* The uploads: a check, then an object that is stored whoever owns the batch. *)
LEMMA PutHandled ==
    ASSUME RelayInv, NEW r \in Requests,
           PutCheck(r) \/ PutArtifact(r) \/ PutManifest(r) \/ ReadyCheck(r)
    PROVE  HandlerStep(r)
  <1>0. /\ TypeOK /\ RequestsInv /\ r \in Calls
        /\ r.node \in RelayNodes /\ r.batch \in RelayBatches /\ r.cand \in RelayCandidates
    BY RequestFacts DEF RelayInv, Calls
  <1>1. CASE Refuse(r)
    BY <1>0, <1>1, RefuseHandled
  <1>2. CASE PutCheck(r) /\ ~Refuse(r)
    <2>1. /\ RelayAdvance(r, [r EXCEPT !.at = "put"]) /\ UNCHANGED <<tableVars, toldEnd>>
      BY <1>2 DEF PutCheck
    <2> QED
      BY <1>0, <2>1, SameTable, AdvancedHandled
  <1>3. CASE ReadyCheck(r) /\ ~Refuse(r)
    <2>1. /\ RelayAdvance(r, [r EXCEPT !.at = "update"]) /\ UNCHANGED <<tableVars, toldEnd>>
          /\ r.node \in manifests[r.batch]
      BY <1>3 DEF ReadyCheck
    <2> QED
      BY <1>0, <2>1, SameTable, AdvancedHandled
  <1>4. CASE PutArtifact(r)
    <2>1. /\ objects' = [objects EXCEPT ![r.batch][r.cand] = r.node]
          /\ Answer(r) /\ UNCHANGED <<row, manifests, toldEnd>>
      BY <1>4 DEF PutArtifact
    <2>2. objects' \in Files
      BY <1>0, <2>1 DEF TypeOK, Files
    <2>3. TableStep
      BY <1>0, <2>1, <2>2 DEF TableStep, RowMove, TypeOK
    <2>4. Handled(r, r)
      BY <1>0, <2>1, AnswerHandled
    <2> QED
      BY <1>0, <2>1, <2>3, <2>4 DEF HandlerStep, RequestsInv, TypeOK
  <1>5. CASE PutManifest(r)
    <2>1. /\ manifests' = [manifests EXCEPT ![r.batch] = @ \cup {r.node}]
          /\ Answer(r) /\ UNCHANGED <<row, objects, toldEnd>>
      BY <1>5 DEF PutManifest
    <2>2. /\ manifests' \in [RelayBatches -> SUBSET RelayNodes]
          /\ \A b \in RelayBatches : manifests[b] \subseteq manifests'[b]
      BY <1>0, <2>1 DEF TypeOK
    <2>3. TableStep
      BY <1>0, <2>1, <2>2 DEF TableStep, RowMove, TypeOK
    <2>4. Handled(r, r)
      BY <1>0, <2>1, AnswerHandled
    <2> QED
      BY <1>0, <2>1, <2>3, <2>4 DEF HandlerStep, RequestsInv, TypeOK
  <1> QED
    BY <1>1, <1>2, <1>3, <1>4, <1>5

LEMMA AnyHandled ==
    ASSUME RelayInv, NEW r \in Requests, Handle(r)
    PROVE  HandlerStep(r)
  BY ClaimHandled, RenewHandled, GoHandled, PutHandled DEF Handle

-----------------------------------------------------------------------------
(* A table step keeps the rows consistent and the ingested batches archived, *)
(* as long as no saved file is replaced.                                     *)
LEMMA TableStepShape ==
    ASSUME RelayInv, TableStep
    PROVE  RelayRowShape'
  <1> SUFFICES ASSUME NEW b \in RelayBatches
               PROVE  /\ (row'[b].owner = None) <=> (row'[b].state \in {"AVAILABLE", "INGESTED"})
                      /\ (row'[b].lease # None)
                           <=> (row'[b].state \in {"CLAIMED", "PAUSE_REQUESTED"})
                      /\ row'[b].state \in {"AWAITING_INGEST", "INGESTED"} =>
                             row'[b].manifest \in manifests'[b]
                      /\ row'[b].state = "AWAITING_INGEST" => row'[b].manifest = row'[b].owner
    BY DEF RelayRowShape
  <1>1. RowMove(b) /\ manifests[b] \subseteq manifests'[b]
    BY DEF TableStep
  <1>2. /\ (row[b].owner = None) <=> (row[b].state \in {"AVAILABLE", "INGESTED"})
        /\ (row[b].lease # None) <=> (row[b].state \in {"CLAIMED", "PAUSE_REQUESTED"})
        /\ row[b].state \in {"AWAITING_INGEST", "INGESTED"} =>
               row[b].manifest \in manifests[b]
        /\ row[b].state = "AWAITING_INGEST" => row[b].manifest = row[b].owner
    BY DEF RelayInv, RelayRowShape
  <1> QED
    BY <1>1, <1>2, ConstantFacts DEF RowMove

LEMMA TableStepIngested ==
    ASSUME RelayInv, TableStep, UNCHANGED archive
    PROVE  IngestedIsArchived'
  <1> SUFFICES ASSUME NEW b \in RelayBatches, row'[b].state = "INGESTED"
               PROVE  {archive[b][c] : c \in RelayCandidates} = {row'[b].manifest}
    BY DEF IngestedIsArchived
  <1>1. RowMove(b)
    BY DEF TableStep
  <1> QED
    BY <1>1 DEF RelayInv, IngestedIsArchived, RowMove, Verified

(* The requests after a step of a handler are as good as before. *)
LEMMA HandlerStepRequests ==
    ASSUME RelayInv, NEW r \in Requests, HandlerStep(r), UNCHANGED clock
    PROVE  RequestsInv'
  <1>1. PICK to \in Calls :
            /\ Handled(r, to) /\ to.now = r.now
            /\ to.kind = "ready" /\ to.at = "update" => to.node \in manifests[to.batch]
    BY DEF HandlerStep
  <1>2. \A n \in RelayNodes : call'[n] # None => call'[n].node = n
    BY <1>1 DEF Handled
  <1>3. ASSUME NEW q \in Requests'
        PROVE  q.now <= clock /\ (q.kind = "ready" /\ q.at = "update" =>
                                      q.node \in manifests'[q.batch])
    <2>1. q \in Requests \/ q = to
      BY <1>1 DEF Handled
    <2>2. q \in Calls /\ q.batch \in RelayBatches
      BY <1>1, <2>1, RequestFacts DEF RelayInv, Calls
    <2>3. manifests[q.batch] \subseteq manifests'[q.batch]
      BY <2>2 DEF TableStep, HandlerStep
    <2> QED
      BY <1>1, <2>1, <2>3 DEF RelayInv, RequestsInv
  <1> QED
    BY <1>2, <1>3 DEF RequestsInv

-----------------------------------------------------------------------------
(* What a node was told survives the handlers, as long as no client has      *)
(* given up a running call.                                                  *)
Kept(p) ==
    \A n \in RelayNodes, b \in RelayBatches :
        clock <= p[n][b] =>
            row'[b].state = "CLAIMED" /\ row'[b].owner = n /\ row'[b].lease >= p[n][b]

LEMMA SamePromises ==
    ASSUME RelayInv, PromiseInv, UNCHANGED row
    PROVE  Kept(toldEnd)
  BY DEF Kept, PromiseInv

LEMMA RenewedClaim ==
    ASSUME RelayInv, PromiseInv, NEW r \in Requests, ClaimUpdate(r), ~UNCHANGED row
    PROVE  Kept(toldEnd)
  <1>0. /\ r \in Calls /\ r.batch \in RelayBatches /\ r.node \in RelayNodes /\ r.now \in Nat
        /\ r.now <= clock /\ call[r.node] = r /\ r # None
        /\ clock \in Nat /\ row \in [RelayBatches -> Rows] /\ toldEnd \in [RelayNodes -> [RelayBatches -> Nat]]
    BY RequestFacts DEF RelayInv, PromiseInv, RequestsInv, TypeOK, Calls, Requests
  <1>1. /\ Claimable(r.batch, r.node, r.now)
        /\ row' = [row EXCEPT ![r.batch] =
                      [state |-> "CLAIMED", owner |-> r.node,
                       lease |-> r.now + Lease, manifest |-> @.manifest]]
    BY DEF ClaimUpdate, Refuse, tableVars
  <1> SUFFICES ASSUME NEW n \in RelayNodes, NEW b \in RelayBatches, clock <= toldEnd[n][b]
               PROVE  /\ row'[b].state = "CLAIMED" /\ row'[b].owner = n
                      /\ row'[b].lease >= toldEnd[n][b]
    BY DEF Kept
  <1>2. row[b].state = "CLAIMED" /\ row[b].owner = n /\ row[b].lease >= toldEnd[n][b]
    BY DEF PromiseInv
  <1>3. CASE b # r.batch
    BY <1>0, <1>1, <1>2, <1>3
  <1>4. CASE b = r.batch
    <2>1. toldEnd[n][b] \in Nat /\ row[b] \in Rows
      BY <1>0
    <2>2. row[b].lease \in Nat
      BY <1>2, <2>1 DEF Rows, RelayInv, RelayRowShape
    <2>3. ~(row[b].lease < r.now)
      BY <1>0, <1>2, <2>1, <2>2
    <2>4. n = r.node
      BY <1>1, <1>2, <1>4, <2>3 DEF Claimable
    <2>5. toldEnd[n][b] <= r.now + Lease
      BY <1>0, <2>4 DEF PromiseInv
    <2>6. row'[b].state = "CLAIMED" /\ row'[b].owner = n /\ row'[b].lease = r.now + Lease
      BY <1>0, <1>1, <1>4, <2>4
    <2> QED
      BY <1>0, <2>1, <2>5, <2>6, ConstantFacts
  <1> QED
    BY <1>3, <1>4

(* A request of the owner that renews or gives up its own lease leaves the   *)
(* promises to the others alone.                                             *)
LEMMA OwnerStep ==
    ASSUME RelayInv, PromiseInv, NEW r \in Requests, NEW new, NEW until \in Nat,
           row[r.batch].state # "CLAIMED" \/ row[r.batch].owner = r.node,
           row' = [row EXCEPT ![r.batch] = new],
           toldEnd' = [toldEnd EXCEPT ![r.node][r.batch] = until],
           clock <= until => new.state = "CLAIMED" /\ new.owner = r.node /\ new.lease = until
    PROVE  Kept(toldEnd')
  <1>0. /\ r \in Calls /\ r.batch \in RelayBatches /\ r.node \in RelayNodes
        /\ row \in [RelayBatches -> Rows] /\ toldEnd \in [RelayNodes -> [RelayBatches -> Nat]]
    BY RequestFacts DEF RelayInv, PromiseInv, TypeOK, Calls
  <1> SUFFICES ASSUME NEW n \in RelayNodes, NEW b \in RelayBatches, clock <= toldEnd'[n][b]
               PROVE  /\ row'[b].state = "CLAIMED" /\ row'[b].owner = n
                      /\ row'[b].lease >= toldEnd'[n][b]
    BY DEF Kept
  <1>1. CASE n = r.node /\ b = r.batch
    BY <1>0, <1>1
  <1>2. CASE ~(n = r.node /\ b = r.batch)
    <2>1. toldEnd'[n][b] = toldEnd[n][b]
      BY <1>0, <1>2
    <2>2. row[b].state = "CLAIMED" /\ row[b].owner = n /\ row[b].lease >= toldEnd[n][b]
      BY <2>1 DEF PromiseInv
    <2>3. b # r.batch
      BY <1>2, <2>2
    <2> QED
      BY <1>0, <2>1, <2>2, <2>3
  <1> QED
    BY <1>1, <1>2

LEMMA LetGoKept ==
    ASSUME RelayInv, PromiseInv, NEW r \in Requests, NEW guard, NEW new, LetGo(r, guard, new),
           guard => row[r.batch].owner = r.node
    PROVE  Kept(toldEnd') /\ (toldEnd' = toldEnd \/ toldEnd' = [toldEnd EXCEPT ![r.node][r.batch] = 0])
  <1>1. CASE guard
    <2>1. /\ row' = [row EXCEPT ![r.batch] = new] /\ row[r.batch].owner = r.node
          /\ toldEnd' = [toldEnd EXCEPT ![r.node][r.batch] = 0]
      BY <1>1 DEF LetGo, Withdraw
    <2>2. ~(clock <= 0)
      BY DEF RelayInv, TypeOK
    <2> QED
      BY <2>1, <2>2, OwnerStep
  <1>2. CASE ~guard
    <2>1. UNCHANGED <<row, toldEnd>>
      BY <1>2 DEF LetGo, Refuse, tableVars
    <2> QED
      BY <2>1, SamePromises
  <1> QED
    BY <1>1, <1>2

LEMMA RenewKept ==
    ASSUME RelayInv, PromiseInv, NEW r \in Requests,
           HeartbeatUpdate(r) \/ ResumeUpdate(r), ~UNCHANGED <<row, toldEnd>>
    PROVE  Kept(toldEnd') /\ toldEnd' = [toldEnd EXCEPT ![r.node][r.batch] = r.now + Lease] /\ Answer(r)
  <1>0. /\ r \in Calls /\ r.batch \in RelayBatches /\ r.now \in Nat /\ r \notin late
        /\ row \in [RelayBatches -> Rows]
    BY RequestFacts DEF RelayInv, PromiseInv, TypeOK, Calls
  <1>r. row[r.batch] \in Rows
    BY <1>0
  <1>s. r.now + Lease \in Nat
    BY <1>0, ConstantFacts
  <1>1. CASE HeartbeatUpdate(r)
    <2> DEFINE new == [row[r.batch] EXCEPT !.lease = r.now + Lease]
    <2>1. /\ Held(r.batch, r.node, r.now) /\ Answer(r)
          /\ row' = [row EXCEPT ![r.batch] = new]
          /\ toldEnd' = [toldEnd EXCEPT ![r.node][r.batch] = r.now + Lease]
      BY <1>0, <1>1 DEF HeartbeatUpdate, Refuse, tableVars, Promise
    <2>2. new.state = "CLAIMED" /\ new.owner = r.node /\ new.lease = r.now + Lease
      BY <1>r, <1>s, <2>1 DEF Rows, Held
    <2> HIDE DEF new
    <2> QED
      BY <1>s, <2>1, <2>2, OwnerStep DEF Held
  <1>2. CASE ResumeUpdate(r)
    <2> DEFINE new == [row[r.batch] EXCEPT !.state = "CLAIMED", !.lease = r.now + Lease]
    <2>1. /\ RelayOwned(r.batch, r.node, {"PAUSED"}) /\ Answer(r)
          /\ row' = [row EXCEPT ![r.batch] = new]
          /\ toldEnd' = [toldEnd EXCEPT ![r.node][r.batch] = r.now + Lease]
      BY <1>0, <1>2 DEF ResumeUpdate, Refuse, tableVars, Promise
    <2>2. new.state = "CLAIMED" /\ new.owner = r.node /\ new.lease = r.now + Lease
      BY <1>r, <1>s, <2>1 DEF Rows, RelayOwned
    <2> HIDE DEF new
    <2> QED
      BY <1>s, <2>1, <2>2, OwnerStep DEF RelayOwned
  <1> QED
    BY <1>1, <1>2

(* The three ways a handler treats the promises. *)
LEMMA HandleKept ==
    ASSUME RelayInv, PromiseInv, NEW r \in Requests, Handle(r)
    PROVE  /\ Kept(toldEnd')
           /\ \/ toldEnd' = toldEnd
              \/ toldEnd' = [toldEnd EXCEPT ![r.node][r.batch] = 0]
              \/ toldEnd' = [toldEnd EXCEPT ![r.node][r.batch] = r.now + Lease] /\ Answer(r)
  <1>1. CASE UNCHANGED <<row, toldEnd>>
    BY <1>1, SamePromises
  <1>2. CASE ~UNCHANGED <<row, toldEnd>> /\ ClaimUpdate(r)
    <2>1. UNCHANGED toldEnd
      BY <1>2 DEF ClaimUpdate, Refuse
    <2> QED
      BY <1>2, <2>1, RenewedClaim
  <1>3. CASE ~UNCHANGED <<row, toldEnd>> /\ (HeartbeatUpdate(r) \/ ResumeUpdate(r))
    BY <1>3, RenewKept
  <1>4. CASE PauseUpdate(r)
    BY <1>4, LetGoKept DEF PauseUpdate, Held
  <1>5. CASE PausedUpdate(r)
    BY <1>5, LetGoKept DEF PausedUpdate, RelayOwned
  <1>6. CASE ReleaseUpdate(r)
    BY <1>6, LetGoKept DEF ReleaseUpdate, RelayOwned
  <1>7. CASE ReadyUpdate(r)
    BY <1>7, LetGoKept DEF ReadyUpdate, RelayOwned
  <1>8. CASE ~UNCHANGED <<row, toldEnd>>
             /\ \/ AutoSelect(r) \/ ClaimReply(r) \/ PutCheck(r) \/ PutArtifact(r)
                \/ PutManifest(r) \/ ReadyCheck(r)
    BY <1>8 DEF AutoSelect, ClaimReply, PutCheck, PutArtifact, PutManifest, ReadyCheck,
                Refuse, tableVars
  <1> QED
    BY <1>1, <1>2, <1>3, <1>4, <1>5, <1>6, <1>7, <1>8 DEF Handle

LEMMA HandlePromise ==
    ASSUME RelayInv, PromiseInv, NEW r \in Requests, Handle(r)
    PROVE  PromiseInv'
  <1>0. /\ r \in Calls /\ r.batch \in RelayBatches /\ r.node \in RelayNodes /\ r.now \in Nat
        /\ r \notin late /\ call[r.node] = r /\ r.now <= clock /\ UNCHANGED clock
        /\ clock \in Nat /\ toldEnd \in [RelayNodes -> [RelayBatches -> Nat]]
        /\ call \in [RelayNodes -> Calls \cup {None}]
    BY RequestFacts DEF RelayInv, PromiseInv, TypeOK, RequestsInv, Calls, Handle
  <1>1. HandlerStep(r)
    BY AnyHandled
  <1>2. PICK to \in Calls : Handled(r, to)
    BY <1>1 DEF HandlerStep
  <1>3. late' = {}
    BY <1>2 DEF Handled, PromiseInv
  <1>4. Kept(toldEnd') /\ \/ toldEnd' = toldEnd
                          \/ toldEnd' = [toldEnd EXCEPT ![r.node][r.batch] = 0]
                          \/ toldEnd' = [toldEnd EXCEPT ![r.node][r.batch] = r.now + Lease] /\ Answer(r)
    BY HandleKept
  <1>5. ASSUME NEW n \in RelayNodes, NEW b \in RelayBatches
        PROVE  /\ toldEnd'[n][b] <= clock + Lease
               /\ call'[n] # None => toldEnd'[n][b] <= call'[n].now + Lease
    <2>1. /\ toldEnd[n][b] <= clock + Lease /\ toldEnd[n][b] \in Nat
          /\ call[n] # None => toldEnd[n][b] <= call[n].now + Lease
      BY <1>0 DEF PromiseInv
    <2>2. call'[n] # None => call[n] # None /\ call'[n].now = call[n].now
      BY <1>2 DEF Handled
    <2>3. CASE toldEnd'[n][b] = toldEnd[n][b]
      BY <2>1, <2>2, <2>3
    <2>4. CASE toldEnd' = [toldEnd EXCEPT ![r.node][r.batch] = 0] /\ n = r.node /\ b = r.batch
      <3>1. toldEnd'[n][b] = 0
        BY <1>0, <2>4
      <3>2. call[n] # None => call[n].now \in Nat
        BY <1>0 DEF Calls
      <3> QED
        BY <1>0, <2>2, <3>1, <3>2, ConstantFacts
    <2>5. CASE /\ toldEnd' = [toldEnd EXCEPT ![r.node][r.batch] = r.now + Lease] /\ Answer(r)
               /\ n = r.node /\ b = r.batch
      <3>1. toldEnd'[n][b] = r.now + Lease
        BY <1>0, <2>5
      <3>2. call'[n] = None
        BY <1>0, <2>5 DEF Answer
      <3> QED
        BY <1>0, <3>1, <3>2, ConstantFacts
    <2>6. CASE n # r.node \/ b # r.batch
      BY <1>0, <1>4, <2>3, <2>6
    <2> QED
      BY <1>4, <2>3, <2>4, <2>5, <2>6
  <1> QED
    BY <1>0, <1>3, <1>4, <1>5 DEF PromiseInv, Kept

-----------------------------------------------------------------------------
(* A new request samples the clock and has passed no check yet. *)
LEMMA SendStep ==
    ASSUME RelayInv, NEW n \in RelayNodes, NEW kind \in Used, NEW b \in RelayBatches,
           NEW c \in RelayCandidates, Send(n, kind, b, c)
    PROVE  RelayInv'
  <1> DEFINE r == Request(n, kind, b, c)
  <1>0. /\ TypeOK /\ RequestsInv /\ RelayRowShape /\ IngestedIsArchived
        /\ call' = [call EXCEPT ![n] = r] /\ call[n] = None
        /\ UNCHANGED <<row, objects, manifests, clock, late, lates, toldEnd, archive, pull>>
        /\ call \in [RelayNodes -> Calls \cup {None}] /\ clock \in Nat \ {0}
    BY DEF RelayInv, Send, tableVars, vpsVars, TypeOK
  <1>1. /\ r \in Calls /\ r.node = n /\ r.now = clock
        /\ ~(r.kind = "ready" /\ r.at = "update")
    BY <1>0, ConstantFacts DEF Request, Calls
  <1> HIDE DEF r
  <1>2. call' \in [RelayNodes -> Calls \cup {None}] /\ Requests' \subseteq Requests \cup {r}
    BY <1>0, <1>1 DEF Requests
  <1>3. TypeOK'
    BY <1>0, <1>2 DEF TypeOK
  <1>4. RequestsInv'
    BY <1>0, <1>1, <1>2 DEF RequestsInv
  <1>5. RelayRowShape' /\ IngestedIsArchived'
    BY <1>0 DEF RelayRowShape, IngestedIsArchived
  <1>6. lates' = 0 => PromiseInv'
    BY <1>0, <1>1 DEF RelayInv, PromiseInv
  <1> QED
    BY <1>3, <1>4, <1>5, <1>6 DEF RelayInv

LEMMA GiveUpStep ==
    ASSUME RelayInv, NEW n \in RelayNodes, GiveUp(n)
    PROVE  RelayInv'
  <1>0. /\ TypeOK /\ RequestsInv /\ RelayRowShape /\ IngestedIsArchived
        /\ call' = [call EXCEPT ![n] = None] /\ late' = late \cup {call[n]}
        /\ call[n] # None /\ lates' = lates + 1 /\ lates \in Nat
        /\ UNCHANGED <<row, objects, manifests, clock, toldEnd, archive, pull>>
        /\ call \in [RelayNodes -> Calls \cup {None}] /\ late \subseteq Calls
    BY DEF RelayInv, GiveUp, tableVars, vpsVars, TypeOK
  <1>1. /\ call' \in [RelayNodes -> Calls \cup {None}] /\ late' \subseteq Calls
        /\ Requests' \subseteq Requests
    BY <1>0 DEF Requests
  <1>2. TypeOK' /\ lates' # 0
    BY <1>0, <1>1 DEF TypeOK
  <1>3. RequestsInv'
    BY <1>0, <1>1 DEF RequestsInv
  <1>4. RelayRowShape' /\ IngestedIsArchived'
    BY <1>0 DEF RelayRowShape, IngestedIsArchived
  <1> QED
    BY <1>2, <1>3, <1>4 DEF RelayInv

LEMMA HandleStep ==
    ASSUME RelayInv, NEW r \in Requests, Handle(r)
    PROVE  RelayInv'
  <1>1. HandlerStep(r) /\ UNCHANGED <<clock, lates, archive, pull>>
    BY AnyHandled DEF Handle, vpsVars
  <1>2. TypeOK'
    <2>1. call' \in [RelayNodes -> Calls \cup {None}] /\ late' \subseteq Calls
      BY <1>1 DEF HandlerStep, Handled
    <2> QED
      BY <1>1, <2>1 DEF RelayInv, TypeOK, HandlerStep, TableStep
  <1>3. RequestsInv'
    BY <1>1, HandlerStepRequests
  <1>4. RelayRowShape' /\ IngestedIsArchived'
    BY <1>1, TableStepShape, TableStepIngested DEF HandlerStep
  <1>5. lates' = 0 => PromiseInv'
    BY <1>1, HandlePromise DEF RelayInv
  <1> QED
    BY <1>2, <1>3, <1>4, <1>5 DEF RelayInv

LEMMA FileSaved ==
    ASSUME NEW f \in Files, NEW b \in RelayBatches, NEW c \in RelayCandidates, NEW n \in RelayNodes \cup {None}
    PROVE  [f EXCEPT ![b][c] = n] \in Files
  BY DEF Files

(* The pull saves a file only where there is none, or the same one. *)
LEMMA PullObjectStep ==
    ASSUME RelayInv, PullObject
    PROVE  RelayInv'
  <1> DEFINE b == pull.batch
             c == pull.next
  <1>0. /\ TypeOK /\ RequestsInv /\ RelayRowShape /\ IngestedIsArchived
        /\ UNCHANGED <<row, objects, manifests, clock, call, late, lates, toldEnd>>
        /\ pull \in [batch : RelayBatches, manifest : RelayNodes \cup {None}, next : Nat \ {0}]
        /\ c <= RelayCandidateCount
        /\ objects \in Files /\ archive \in Files
    BY DEF RelayInv, PullObject, tableVars, clientVars, TypeOK
  <1>1. b \in RelayBatches /\ c \in RelayCandidates /\ c + 1 \in Nat \ {0}
    BY <1>0, ConstantFacts DEF RelayCandidates
  <1>2. \/ /\ archive[b][c] \in {None, objects[b][c]}
           /\ archive' = [archive EXCEPT ![b][c] = objects[b][c]]
           /\ pull' = [pull EXCEPT !.next = c + 1]
        \/ pull' = NoPull /\ archive' = archive
    BY DEF PullObject
  <1>3. archive' \in Files
    <2>1. objects[b][c] \in RelayNodes \cup {None}
      BY <1>0, <1>1 DEF Files
    <2> HIDE DEF b, c
    <2> QED
      BY <1>0, <1>1, <1>2, <2>1, FileSaved
  <1>4. \/ pull' = NoPull
        \/ pull' \in [batch : RelayBatches, manifest : RelayNodes \cup {None}, next : Nat \ {0}]
    BY <1>0, <1>1, <1>2
  <1>5. TypeOK'
    BY <1>0, <1>3, <1>4 DEF TypeOK
  <1>6. RequestsInv'
    BY <1>0 DEF RequestsInv, Requests
  <1>7. RelayRowShape'
    BY <1>0 DEF RelayRowShape
  <1>8. IngestedIsArchived'
    <2> SUFFICES ASSUME NEW d \in RelayBatches, row[d].state = "INGESTED"
                 PROVE  {archive'[d][x] : x \in RelayCandidates} = {row[d].manifest}
      BY <1>0 DEF IngestedIsArchived
    <2>1. {archive[d][x] : x \in RelayCandidates} = {row[d].manifest}
      BY <1>0 DEF IngestedIsArchived
    <2>2. row[d].manifest # None
      BY <1>0, ConstantFacts DEF RelayRowShape, TypeOK
    <2>3. \A x \in RelayCandidates : archive[d][x] # None
      BY <2>1, <2>2
    <2>4. \A x \in RelayCandidates : archive'[d][x] = archive[d][x]
      BY <1>0, <1>1, <1>2, <2>3 DEF Files
    <2> QED
      BY <2>1, <2>4
  <1>9. lates' = 0 => PromiseInv'
    BY <1>0 DEF RelayInv, PromiseInv
  <1> QED
    BY <1>5, <1>6, <1>7, <1>8, <1>9 DEF RelayInv

LEMMA PullAcknowledgeStep ==
    ASSUME RelayInv, PullAcknowledge
    PROVE  RelayInv'
  <1> DEFINE b == pull.batch
             new == [row[b] EXCEPT !.state = "INGESTED", !.owner = None]
  <1>0. /\ TypeOK /\ RequestsInv
        /\ pull' = NoPull
        /\ UNCHANGED <<objects, manifests, clock, call, late, lates, toldEnd, archive>>
        /\ b \in RelayBatches /\ row \in [RelayBatches -> Rows]
    BY DEF RelayInv, PullAcknowledge, clientVars, TypeOK
  <1>r. row[b] \in Rows
    BY <1>0
  <1>1. \/ row' = row
        \/ /\ row' = [row EXCEPT ![b] = new]
           /\ row[b].state = "AWAITING_INGEST" /\ Verified(b, row[b].manifest)
    BY DEF PullAcknowledge
  <1>2. /\ new \in Rows /\ new.state = "INGESTED" /\ new.owner = None
        /\ new.lease = row[b].lease /\ new.manifest = row[b].manifest
    BY <1>r DEF Rows, States
  <1> HIDE DEF new
  <1>3. TableStep
    <2>1. CASE row' = row
      BY <1>0, <2>1, SameTable DEF tableVars
    <2>2. CASE row' # row
      <3>1. row'[b] = new => RowMove(b)
        BY <1>1, <1>2, <2>2 DEF RowMove
      <3> HIDE DEF b
      <3> QED
        BY <1>0, <1>1, <1>2, <2>2, <3>1, OneRow
    <2> QED
      BY <2>1, <2>2
  <1>4. TypeOK'
    BY <1>0, <1>3 DEF TypeOK, TableStep
  <1>5. RequestsInv'
    BY <1>0 DEF RequestsInv, Requests
  <1>6. RelayRowShape' /\ IngestedIsArchived'
    BY <1>0, <1>3, TableStepShape, TableStepIngested
  <1>7. lates' = 0 => PromiseInv'
    BY <1>0, <1>1 DEF RelayInv, PromiseInv
  <1> QED
    BY <1>4, <1>5, <1>6, <1>7 DEF RelayInv

(* The steps that leave the table, the bucket and the requests alone. *)
LEMMA QuietStep ==
    ASSUME RelayInv, (\E b \in RelayBatches : PullStart(b)) \/ PullCrash \/ RelayTick \/ UNCHANGED relayVars
    PROVE  RelayInv'
  <1>0. /\ TypeOK /\ RequestsInv /\ RelayRowShape /\ IngestedIsArchived
        /\ UNCHANGED <<row, objects, manifests, call, late, lates, toldEnd, archive>>
        /\ clock' \in {clock, clock + 1} /\ clock \in Nat \ {0}
    BY DEF RelayInv, TypeOK, PullStart, PullCrash, RelayTick, relayVars, tableVars, clientVars, vpsVars
  <1>1. \/ pull' = NoPull
        \/ pull' \in [batch : RelayBatches, manifest : RelayNodes \cup {None}, next : Nat \ {0}]
    <2>1. CASE \E b \in RelayBatches : PullStart(b)
      <3>1. PICK b \in RelayBatches : PullStart(b)
        BY <2>1
      <3>2. row[b] \in Rows
        BY <1>0 DEF TypeOK
      <3> QED
        BY <3>1, <3>2 DEF PullStart, Rows
    <2> QED
      BY <1>0, <2>1 DEF PullCrash, RelayTick, relayVars, vpsVars, TypeOK
  <1>2. TypeOK'
    BY <1>0, <1>1 DEF TypeOK
  <1>3. RequestsInv'
    <2>1. \A r \in Requests : r.now \in Nat
      BY <1>0, RequestFacts DEF Calls
    <2>2. Requests' = Requests
      BY <1>0 DEF Requests
    <2> QED
      BY <1>0, <2>1, <2>2 DEF RequestsInv
  <1>4. RelayRowShape' /\ IngestedIsArchived'
    BY <1>0 DEF RelayRowShape, IngestedIsArchived
  <1>5. ASSUME PromiseInv PROVE PromiseInv'
    <2>1. \A n \in RelayNodes, b \in RelayBatches : toldEnd[n][b] \in Nat
      BY <1>0 DEF TypeOK
    <2> QED
      BY <1>0, <1>5, <2>1, ConstantFacts DEF PromiseInv
  <1> QED
    BY <1>0, <1>2, <1>3, <1>4, <1>5 DEF RelayInv

LEMMA RelaySteps == RelayInv /\ [RelayNext]_relayVars => RelayInv'
  <1> SUFFICES ASSUME RelayInv, [RelayNext]_relayVars PROVE RelayInv'
    OBVIOUS
  <1>1. ASSUME NEW n \in RelayNodes, NEW kind \in Used, NEW b \in RelayBatches, NEW c \in RelayCandidates,
               Send(n, kind, b, c)
        PROVE  RelayInv'
    BY <1>1, SendStep
  <1>2. ASSUME NEW n \in RelayNodes, GiveUp(n) PROVE RelayInv'
    BY <1>2, GiveUpStep
  <1>3. ASSUME NEW r \in Requests, Handle(r) PROVE RelayInv'
    BY <1>3, HandleStep
  <1>4. CASE PullObject
    BY <1>4, PullObjectStep
  <1>5. CASE PullAcknowledge
    BY <1>5, PullAcknowledgeStep
  <1>6. CASE (\E b \in RelayBatches : PullStart(b)) \/ PullCrash \/ RelayTick \/ UNCHANGED relayVars
    BY <1>6, QuietStep
  <1> QED
    BY <1>1, <1>2, <1>3, <1>4, <1>5, <1>6 DEF RelayNext

LEMMA InvIsSafe == RelayInv => RelayIsSafe
  <1> SUFFICES ASSUME RelayInv PROVE RelayIsSafe
    OBVIOUS
  <1>1. PromiseInv => RelayHeldUntilTold
    BY DEF PromiseInv, RelayHeldUntilTold
  <1> QED
    BY <1>1 DEF RelayInv, RelayIsSafe

(* The relay is safe (RelayIsSafe): whatever handlers of the Worker interleave *)
(* at their awaits, rows stay consistent, a batch the table calls INGESTED is  *)
(* on the VPS as its manifest describes it, and as long as no client has given *)
(* up a running call a node owns its batch until the lease end it was told.    *)
THEOREM RelayTheorem == RelaySpec => []RelayIsSafe
  <1>1. RelaySpec => []RelayInv
    BY RelayInitial, RelaySteps, PTL DEF RelaySpec
  <1> QED
    BY <1>1, InvIsSafe, PTL
=============================================================================
