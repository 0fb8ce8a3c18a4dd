------------------------ MODULE PaperExecutionProofs ------------------------
(***************************************************************************)
(* Proofs about the Paper stores and the executors that share them, for    *)
(* any number of executors, authorizations and crashes.  Only the position *)
(* depends on what a replay of the ledger computes.                        *)
(***************************************************************************)
EXTENDS PaperExecution, WellFoundedInduction, TLAPS

StoreTypes ==
    /\ intents \in [Auths -> Readiness \cup {None}]
    /\ events \in [Auths -> Chains]
    /\ states \in [Auths -> OrderStates \cup {None}]
    /\ fills \in Seq(Rows)

(* The inductive invariant of the stores: an effect is unique because the    *)
(* order it was computed for is frozen, and the order is frozen because its  *)
(* state is the replay of its events.                                        *)
StoreInv ==
    /\ StoreTypes
    /\ OrderReplays
    /\ FilledOrderFrozen
    /\ AtMostOneEffect

(* The rows of a step are typed, and each is filled at the decision time.    *)
LEMMA StepRowFacts ==
    ASSUME NEW s \in Steps
    PROVE  /\ StepRows(s) \in Seq(Rows)
           /\ \A i \in DOMAIN StepRows(s) :
                  /\ StepRows(s)[i].auth = s.auth
                  /\ StepRows(s)[i].intent = s.intent
                  /\ StepRows(s)[i].order = s.order
                  /\ StepRows(s)[i].index = i - 1
                  /\ StepRows(s)[i].fill.time = TimeOf[s.auth]
  <1> DEFINE a == s.auth
             F == FillsOf(a)
  <1>a. a \in Auths /\ s.intent \in Readiness /\ s.order \in Chains
    BY DEF Steps
  <1>1. Len(F) \in {1, 2} /\ DOMAIN F = 1..Len(F) /\ \A i \in DOMAIN F : F[i].time = TimeOf[a]
    <2>1. CASE ActionOf[a] = "EXIT"
      BY <2>1 DEF FillsOf, Fill
    <2>2. CASE ActionOf[a] # "EXIT" /\ StopPrice[a] = None
      BY <2>2 DEF FillsOf, Fill
    <2>3. CASE ActionOf[a] # "EXIT" /\ StopPrice[a] # None
      <3>1. F = <<Fill("ENTER", "OPEN", a, Price[a]), Fill("EXIT", "STOP", a, StopPrice[a])>>
        BY <2>3 DEF FillsOf
      <3> QED
        BY <3>1 DEF Fill
    <2> QED
      BY <2>1, <2>2, <2>3
  <1>2. \A i \in DOMAIN F :
            F[i] \in UNION {{FillsOf(x)[k] : k \in DOMAIN FillsOf(x)} : x \in Auths}
    BY <1>a
  <1> HIDE DEF F
  <1>3. StepRows(s) = [i \in 1..Len(F) |->
            [auth |-> s.auth, intent |-> s.intent, order |-> s.order,
             index |-> i - 1, fill |-> F[i]]]
    BY DEF StepRows, F
  <1>4. \A i \in 1..Len(F) : StepRows(s)[i] \in Rows
    <2> TAKE i \in 1..Len(F)
    <2>1. i - 1 \in Nat
      BY <1>1
    <2> QED
      BY <1>a, <1>1, <1>2, <1>3, <2>1 DEF Rows
  <1>5. StepRows(s) \in [1..Len(F) -> Rows]
    BY <1>3, <1>4
  <1>6. StepRows(s) \in Seq(Rows)
    BY <1>1, <1>5
  <1> QED
    BY <1>1, <1>3, <1>6

(* ExecutionIntentJournal.record keeps the invariant: no fill can exist for  *)
(* an authorization whose intent is not recorded yet.                        *)
LEMMA RecordInv ==
    ASSUME StoreInv, NEW a \in Auths, NEW r \in Readiness, RecordRows(a, r)
    PROVE  StoreInv'
  <1> USE StoresAssumption DEF StoreInv, RecordRows
  <1>1. StoreTypes'
    BY DEF StoreTypes
  <1>2. OrderReplays'
    BY DEF OrderReplays
  <1>3. FilledOrderFrozen'
    <2> SUFFICES ASSUME NEW i \in DOMAIN fills
                 PROVE  intents'[fills[i].auth] = fills[i].intent
      BY DEF FilledOrderFrozen
    <2>1. fills[i] \in Rows
      BY DEF StoreTypes
    <2>2. fills[i].intent # None /\ fills[i].auth \in Auths
      BY <2>1 DEF Rows
    <2>3. fills[i].auth # a
      BY <2>2 DEF FilledOrderFrozen
    <2> QED
      BY <2>2, <2>3 DEF FilledOrderFrozen, StoreTypes
  <1>4. AtMostOneEffect'
    BY DEF AtMostOneEffect
  <1> QED
    BY <1>1, <1>2, <1>3, <1>4

(* LocalPaperOrderStore.apply keeps the invariant: the event was built from  *)
(* the durable state, and the order has no fill.                             *)
LEMMA EventInv ==
    ASSUME StoreInv, NEW a \in Auths, NEW type \in EventTypes, NEW time \in Times,
           NEW n \in 0..Len(events[a]),
           ApplyEventRows([auth |-> a, sequence |-> n, time |-> time, type |-> type,
                           previous |-> SubSeq(events[a], 1, n)])
    PROVE  StoreInv'
  <1> DEFINE ev == [type |-> type, time |-> time]
  <1> USE StoresAssumption
  <1>0. StoreTypes /\ OrderReplays /\ FilledOrderFrozen /\ AtMostOneEffect
    BY DEF StoreInv
  <1>1. /\ events[a] \in Chains
        /\ Len(events[a]) \in Nat
        /\ ev \in [type : EventTypes, time : Times]
    <2>1. events[a] \in Chains
      BY <1>0 DEF StoreTypes
    <2>2. Len(events[a]) \in Nat
      BY <2>1 DEF Chains
    <2> QED
      BY <2>1, <2>2
  <1>2. /\ n \in Nat
        /\ IF states[a] = None
           THEN n = 0 /\ type = "CREATE"
           ELSE /\ n = states[a].sequence + 1
                /\ time > states[a].updated
                /\ SubSeq(events[a], 1, n) = states[a].chain
                /\ <<states[a].status, type>> \in Allowed
        /\ states[a] # None => Unreferenced(a)
        /\ events' = [events EXCEPT ![a] = Append(@, ev)]
        /\ states' = [states EXCEPT ![a] =
                        [sequence |-> n, updated |-> time, status |-> StatusAfter[type],
                         chain |-> Append(SubSeq(events[a], 1, n), ev)]]
        /\ UNCHANGED <<intents, fills, portfolio>>
    BY <1>1 DEF ApplyEventRows, NextStateAccepts
  <1>3. SubSeq(events[a], 1, n) = events[a] /\ n = Len(events[a])
    <2>1. CASE states[a] = None
      <3>1. events[a] = <<>> /\ n = 0
        BY <1>0, <1>2, <2>1 DEF OrderReplays, ReplayOf
      <3> QED
        BY <3>1
    <2>2. CASE states[a] # None
      BY <1>0, <1>2, <2>2 DEF OrderReplays, ReplayOf
    <2> QED
      BY <2>1, <2>2
  <1> DEFINE chain == Append(events[a], ev)
  <1>4. chain \in Chains /\ Len(chain) = n + 1 /\ chain[n + 1] = ev
        /\ \A i \in 1..n : chain[i] = events[a][i]
    BY <1>1, <1>3 DEF Chains
  <1>5. /\ events'[a] = chain
        /\ states'[a] = [sequence |-> n, updated |-> time, status |-> StatusAfter[type],
                         chain |-> chain]
        /\ \A x \in Auths \ {a} : events'[x] = events[x] /\ states'[x] = states[x]
    BY <1>0, <1>2, <1>3 DEF StoreTypes
  <1>6. states'[a] \in OrderStates
    <2>1. StatusAfter[type] \in {StatusAfter[t] : t \in EventTypes}
      OBVIOUS
    <2>2. n \in Nat /\ chain \in Chains
      BY <1>2, <1>4
    <2> HIDE DEF chain
    <2> QED
      BY <1>5, <2>1, <2>2 DEF OrderStates
  <1>7. StoreTypes'
    <2>1. events' \in [Auths -> Chains]
      BY <1>0, <1>2, <1>4, <1>5 DEF StoreTypes
    <2>2. states' \in [Auths -> OrderStates \cup {None}]
      BY <1>0, <1>2, <1>5, <1>6 DEF StoreTypes
    <2> QED
      BY <1>0, <1>2, <2>1, <2>2 DEF StoreTypes
  <1>8. OrderReplays'
    <2>1. ASSUME NEW x \in Auths \ {a} PROVE ReplayOf(events'[x], states'[x])
      BY <1>0, <1>5 DEF OrderReplays
    <2>2. ReplayOf(events'[a], states'[a])
      <3>1. states'[a] # None
        BY <1>6
      <3>0. ASSUME n \in 0..2, Lifecycle(chain) PROVE ReplayOf(events'[a], states'[a])
        <4> DEFINE order == states'[a]
        <4>1. events'[a] = chain
          BY <1>5
        <4>2. /\ order.chain = chain /\ order.sequence = n /\ order.updated = time
              /\ order.status = StatusAfter[type]
          BY <1>5
        <4>3. Len(chain) = n + 1 /\ chain[n + 1].type = type /\ chain[n + 1].time = time
          BY <1>4
        <4> HIDE DEF chain, order
        <4>4. ReplayOf(chain, order)
          BY <3>0, <4>2, <4>3, <3>1 DEF ReplayOf, order
        <4> QED
          BY <4>1, <4>4 DEF order
      <3>2. CASE states[a] = None
        <4>1. n = 0 /\ type = "CREATE" /\ events[a] = <<>>
          BY <1>0, <1>2, <3>2 DEF OrderReplays, ReplayOf
        <4>2. Lifecycle(chain)
          BY <1>4, <4>1 DEF Lifecycle
        <4> QED
          BY <3>0, <4>1, <4>2
      <3>3. CASE states[a] # None
        <4>1. /\ n \in 1..3 /\ states[a].updated = events[a][n].time
              /\ states[a].status = StatusAfter[events[a][n].type]
              /\ Lifecycle(events[a])
              /\ DOMAIN events[a] = 1..n
          BY <1>0, <1>1, <1>3, <3>3 DEF OrderReplays, ReplayOf, Chains
        <4>2. n \in 1..2 /\ type = <<"CREATE", "ACTIVATE", "CANCEL">>[n + 1]
          <5>0. <<states[a].status, type>> \in Allowed
            BY <1>2, <3>3
          <5>1. CASE n = 1
            <6>1. events[a][1].type = "CREATE"
              BY <4>1, <5>1 DEF Lifecycle
            <6> QED
              BY <4>1, <5>0, <5>1, <6>1 DEF Allowed, StatusAfter
          <5>2. CASE n = 2
            <6>1. events[a][2].type = "ACTIVATE"
              BY <4>1, <5>2 DEF Lifecycle
            <6> QED
              BY <4>1, <5>0, <5>2, <6>1 DEF Allowed, StatusAfter
          <5>3. CASE n = 3
            <6>1. events[a][3].type = "CANCEL"
              BY <4>1, <5>3 DEF Lifecycle
            <6> QED
              BY <4>1, <5>0, <5>3, <6>1 DEF Allowed, StatusAfter
          <5> QED
            BY <4>1, <5>1, <5>2, <5>3
        <4>3. events[a][n].time < time
          BY <1>1, <1>2, <3>3, <4>1 DEF Chains
        <4>4. Lifecycle(chain)
          <5>0. /\ DOMAIN chain = 1..(n + 1) /\ chain[n + 1] = ev
                /\ \A i \in 1..n : chain[i] = events[a][i]
            BY <1>4 DEF Chains
          <5> HIDE StoresAssumption DEF chain
          <5> SUFFICES ASSUME NEW i \in 1..(n + 1)
                       PROVE  /\ chain[i].type = <<"CREATE", "ACTIVATE", "CANCEL">>[i]
                              /\ i > 1 => chain[i-1].time < chain[i].time
            BY <5>0 DEF Lifecycle
          <5>1. CASE i = n + 1
            <6>1. chain[i].type = type /\ chain[i].time = time /\ chain[i-1] = events[a][n]
              BY <4>2, <5>0, <5>1
            <6> QED
              BY <4>2, <4>3, <5>1, <6>1
          <5>2. CASE i \in 1..n
            <6>1. chain[i] = events[a][i] /\ (i > 1 => chain[i-1] = events[a][i-1])
              BY <4>2, <5>0, <5>2
            <6> QED
              BY <4>1, <5>2, <6>1 DEF Lifecycle
          <5> QED
            BY <4>2, <5>1, <5>2
        <4> QED
          BY <3>0, <4>2, <4>4
      <3> QED
        BY <3>2, <3>3
    <2> QED
      BY <2>1, <2>2 DEF OrderReplays
  <1>9. FilledOrderFrozen'
    <2> SUFFICES ASSUME NEW i \in DOMAIN fills
                 PROVE  /\ fills[i].auth \in Auths
                        /\ fills[i].auth # a
      BY <1>0, <1>2, <1>5 DEF FilledOrderFrozen
    <2>1. fills[i] \in Rows
      BY <1>0 DEF StoreTypes
    <2>2. fills[i].auth \in Auths
      BY <2>1 DEF Rows
    <2> QED
      BY <1>0, <1>2, <2>2 DEF FilledOrderFrozen, Unreferenced
  <1>10. AtMostOneEffect'
    <2>1. fills' = fills
      BY <1>2
    <2> QED
      BY <1>0, <2>1 DEF AtMostOneEffect
  <1> QED
    BY <1>7, <1>8, <1>9, <1>10 DEF StoreInv

(* LocalPaperPortfolioStore.apply keeps the invariant: a fill of the same    *)
(* authorization would carry the intent and the order of this very step, and *)
(* the step would have been found already applied.                           *)
LEMMA StepInv ==
    ASSUME StoreInv, NEW s \in Steps, ApplyStepRows(s)
    PROVE  StoreInv'
  <1> USE StoresAssumption
  <1> DEFINE rows == StepRows(s)
             old == Len(fills)
  <1>0. StoreTypes /\ OrderReplays /\ FilledOrderFrozen /\ AtMostOneEffect
    BY DEF StoreInv
  <1>1. /\ OrderMatches(s)
        /\ ~AlreadyApplied(s)
        /\ fills' = fills \o rows
        /\ UNCHANGED <<intents, events, states>>
    BY DEF ApplyStepRows, StepAccepted
  <1>2. /\ rows \in Seq(Rows)
        /\ \A i \in DOMAIN rows :
               /\ rows[i].auth = s.auth
               /\ rows[i].intent = s.intent
               /\ rows[i].order = s.order
               /\ rows[i].index = i - 1
               /\ rows[i].fill.time = TimeOf[s.auth]
    BY StepRowFacts
  <1> HIDE DEF rows
  <1>3. /\ fills' \in Seq(Rows) /\ old \in Nat /\ Len(rows) \in Nat
        /\ DOMAIN fills = 1..old
        /\ DOMAIN fills' = 1..(old + Len(rows))
        /\ \A i \in 1..old : fills'[i] = fills[i]
        /\ \A i \in (old + 1)..(old + Len(rows)) :
               i - old \in DOMAIN rows /\ fills'[i] = rows[i - old]
    BY <1>0, <1>1, <1>2 DEF StoreTypes
  <1> HIDE DEF old
  <1>4. \A i \in 1..old : fills[i].auth # s.auth
    <2> HIDE StoresAssumption
    <2> SUFFICES ASSUME NEW i \in 1..old, fills[i].auth = s.auth PROVE FALSE
      OBVIOUS
    <2>1. /\ intents[s.auth] = fills[i].intent
          /\ states[s.auth].chain = fills[i].order
      BY <1>0, <1>3 DEF FilledOrderFrozen
    <2>2. fills[i].intent = s.intent /\ fills[i].order = s.order
      BY <1>1, <2>1 DEF OrderMatches
    <2> QED
      BY <1>1, <1>3, <2>2 DEF AlreadyApplied
  <1>5. StoreTypes' /\ OrderReplays'
    BY <1>0, <1>1, <1>3 DEF StoreTypes, OrderReplays
  <1>6. FilledOrderFrozen'
    <2> SUFFICES ASSUME NEW i \in DOMAIN fills'
                 PROVE  /\ intents[fills'[i].auth] = fills'[i].intent
                        /\ states[fills'[i].auth] # None
                        /\ states[fills'[i].auth].chain = fills'[i].order
                        /\ states[fills'[i].auth].status = "ACTIVE_LOCAL"
                        /\ fills'[i].fill.time > states[fills'[i].auth].updated
      BY <1>1 DEF FilledOrderFrozen
    <2>1. CASE i \in 1..old
      BY <1>0, <1>3, <2>1 DEF FilledOrderFrozen
    <2>2. CASE i \in (old + 1)..(old + Len(rows))
      BY <1>1, <1>2, <1>3, <2>2 DEF OrderMatches
    <2> QED
      BY <1>3, <2>1, <2>2
  <1>7. AtMostOneEffect'
    <2> SUFFICES ASSUME NEW i \in DOMAIN fills', NEW j \in DOMAIN fills',
                        fills'[i].auth = fills'[j].auth
                 PROVE  /\ fills'[i].intent = fills'[j].intent
                        /\ fills'[i].order = fills'[j].order
                        /\ fills'[i].index = fills'[j].index => i = j
      BY DEF AtMostOneEffect
    <2>1. CASE i \in 1..old /\ j \in 1..old
      BY <1>0, <1>3, <2>1 DEF AtMostOneEffect
    <2>3. CASE i \in 1..old /\ j \in (old + 1)..(old + Len(rows))
      BY <1>2, <1>3, <1>4, <2>3
    <2>4. CASE j \in 1..old /\ i \in (old + 1)..(old + Len(rows))
      BY <1>2, <1>3, <1>4, <2>4
    <2>2. CASE i \in (old + 1)..(old + Len(rows)) /\ j \in (old + 1)..(old + Len(rows))
      <3>1. fills'[i].index = i - old - 1 /\ fills'[j].index = j - old - 1
        BY <1>2, <1>3, <2>2
      <3> QED
        BY <1>2, <1>3, <2>2, <3>1
    <2> QED
      BY <1>3, <2>1, <2>2, <2>3, <2>4
  <1> QED
    BY <1>5, <1>6, <1>7 DEF StoreInv

ExecTypes ==
    /\ phase \in [Procs -> Phases]
    /\ view \in [Procs -> Views]
    /\ ready \in [Procs -> Readiness \cup {None}]
    /\ adapter \in [Procs -> [holding : Nat, last : Times]]
    /\ step \in [Procs -> Steps \cup {None}]
    /\ crashes \in 0..MaxCrashes

PaperInv == StoreInv /\ ExecTypes

(* A step of an executor changes the stores by one of their three write      *)
(* methods, called with typed arguments, or not at all.                      *)
LEMMA StoresInv ==
    ASSUME PaperInv, [Next]_vars
    PROVE  StoreInv'
  <1> USE DEF PaperInv
  <1>0. ASSUME UNCHANGED storeVars PROVE StoreInv'
    BY <1>0 DEF storeVars, StoreInv, StoreTypes, OrderReplays, FilledOrderFrozen,
                AtMostOneEffect
  <1>1. ASSUME NEW p \in Procs, NEW a \in Auths, Record(p, a) PROVE StoreInv'
    <2>1. ready[p] \in Readiness /\ RecordRows(a, ready[p])
      BY <1>1 DEF Record, ExecTypes
    <2> QED
      BY <2>1, RecordInv
  <1>2. ASSUME NEW p \in Procs, NEW a \in Auths, NEW type \in EventTypes,
               NEW time \in Times, NEW n \in 0..Len(events[a]),
               OrderEvent(p, a, type, time, n)
        PROVE  StoreInv'
    BY <1>2, EventInv DEF OrderEvent
  <1>3. ASSUME NEW p \in Procs, CommitStep(p) PROVE StoreInv'
    <2>1. step[p] \in Steps /\ ApplyStepRows(step[p])
      BY <1>3 DEF CommitStep, ExecTypes
    <2> QED
      BY <2>1, StepInv
  <1>4. ASSUME NEW p \in Procs,
               \/ Startup(p) \/ LoadIntents(p) \/ LoadStates(p) \/ LoadEvents(p)
               \/ LoadFills(p) \/ LoadPortfolio(p)
               \/ \E a \in Auths : AdapterProcess(p, a)
               \/ CommitRefused(p) \/ Crash(p)
        PROVE  StoreInv'
    <2>1. UNCHANGED storeVars
      BY <1>4 DEF Startup, LoadIntents, LoadStates, LoadEvents, LoadFills, Read,
                  LoadPortfolio, AdapterProcess, CommitRefused, Crash, storeVars
    <2> QED
      BY <2>1, <1>0
  <1>5. CASE UNCHANGED vars
    BY <1>0, <1>5 DEF vars
  <1>6. CASE Next
    BY <1>1, <1>2, <1>3, <1>4, <1>6 DEF Next
  <1> QED
    BY <1>5, <1>6

(* The volatile state of the executors keeps its types. *)
LEMMA ExecutorsInv ==
    ASSUME PaperInv, [Next]_vars
    PROVE  ExecTypes'
  <1> USE StoresAssumption, ExecutionAssumption DEF PaperInv, ExecTypes
  <1>f. FreshAdapter \in [holding : Nat, last : Times] /\ EmptyView \in Views
    BY DEF FreshAdapter, EmptyView, Views, Times, Chains
  <1>0. CASE UNCHANGED vars
    BY <1>0 DEF vars, execVars
  <1>1. ASSUME NEW p \in Procs, Startup(p) PROVE ExecTypes'
    BY <1>1, <1>f DEF Startup, Phases
  <1>2. ASSUME NEW p \in Procs, NEW table, NEW next \in Phases, NEW read \in Views,
               Read(p, table, read, next)
        PROVE  ExecTypes'
    BY <1>2 DEF Read
  <1>3. ASSUME NEW p \in Procs, LoadIntents(p) \/ LoadStates(p) \/ LoadEvents(p) \/ LoadFills(p)
        PROVE  ExecTypes'
    <2> DEFINE v == view[p]
    <2>1. /\ [v EXCEPT !.intents = Recorded] \in Views
          /\ [v EXCEPT !.states = states] \in Views
          /\ [v EXCEPT !.events = events] \in Views
          /\ [v EXCEPT !.fills = fills] \in Views
      <3>1. v \in Views
        OBVIOUS
      <3> HIDE DEF v
      <3> QED
        BY <3>1 DEF Views, StoreInv, StoreTypes, Recorded
    <2> QED
      BY <1>2, <1>3, <2>1 DEF LoadIntents, LoadStates, LoadEvents, LoadFills, Phases
  <1>4. ASSUME NEW p \in Procs, LoadPortfolio(p) PROVE ExecTypes'
    <2>1. Evidence(view[p]) \in Readiness
      <3>1. view[p] \in Views
        OBVIOUS
      <3> QED
        BY <3>1 DEF Evidence, Views, Readiness
    <2> QED
      BY <1>4, <1>f, <2>1 DEF LoadPortfolio, Phases
  <1>5. ASSUME NEW p \in Procs, NEW a \in Auths, AdapterProcess(p, a) PROVE ExecTypes'
    <2>1. [last |-> TimeOf[a],
           holding |-> IF ActionOf[a] = "ENTER" /\ StopPrice[a] = None
                       THEN QtyOf[a] ELSE 0] \in [holding : Nat, last : Times]
      OBVIOUS
    <2>2. [auth |-> a, intent |-> intents[a], order |-> SubSeq(events[a], 1, 2)] \in Steps
      <3>1. intents[a] \in Readiness
        BY <1>5 DEF AdapterProcess
      <3>2. SubSeq(events[a], 1, 2) \in Chains
        <4>1. events[a] \in Chains /\ Len(events[a]) >= 2
          BY <1>5 DEF AdapterProcess, StoreInv, StoreTypes
        <4> DEFINE E == [type : EventTypes, time : Times]
                   log == events[a]
        <4>2. log \in Seq(E) /\ Len(log) >= 2
          BY <4>1 DEF Chains
        <4> HIDE DEF E, log
        <4>3. SubSeq(log, 1, 2) \in Seq(E)
          BY <4>2
        <4> QED
          BY <4>3 DEF Chains, E, log
      <3> QED
        BY <3>1, <3>2 DEF Steps
    <2> QED
      BY <1>5, <2>1, <2>2 DEF AdapterProcess
  <1>6. ASSUME NEW p \in Procs, Crash(p) PROVE ExecTypes'
    <2>1. crashes' \in 0..MaxCrashes
      BY <1>6 DEF Crash
    <2> QED
      BY <1>6, <1>f, <2>1 DEF Crash, Phases
  <1>7. ASSUME NEW p \in Procs, CommitStep(p) \/ CommitRefused(p) PROVE ExecTypes'
    BY <1>7 DEF CommitStep, CommitRefused
  <1>8. ASSUME NEW p \in Procs, NEW a \in Auths, Record(p, a) PROVE ExecTypes'
    BY <1>8 DEF Record
  <1>9. ASSUME NEW p \in Procs, NEW a \in Auths, NEW type \in EventTypes,
               NEW time \in Times, NEW n \in 0..Len(events[a]),
               OrderEvent(p, a, type, time, n)
        PROVE  ExecTypes'
    BY <1>9 DEF OrderEvent
  <1> HIDE DEF ExecTypes, PaperInv
  <1>10. CASE Next
    BY <1>1, <1>3, <1>4, <1>5, <1>6, <1>7, <1>8, <1>9, <1>10 DEF Next
  <1> QED
    BY <1>0, <1>10

(* An empty database and executors that have not started. *)
LEMMA PaperInitInv == Init => PaperInv
  <1> SUFFICES ASSUME Init PROVE PaperInv
    OBVIOUS
  <1> USE StoresAssumption, ExecutionAssumption DEF Init, StoresInit
  <1>1. StoreTypes
    BY DEF StoreTypes, Chains
  <1>2. OrderReplays
    BY DEF OrderReplays, ReplayOf
  <1>3. FilledOrderFrozen /\ AtMostOneEffect
    BY DEF FilledOrderFrozen, AtMostOneEffect
  <1>4. ExecTypes
    <2>1. FreshAdapter \in [holding : Nat, last : Times] /\ EmptyView \in Views
      BY DEF FreshAdapter, EmptyView, Views, Times, Chains
    <2> QED
      BY <2>1 DEF ExecTypes, Phases
  <1> QED
    BY <1>1, <1>2, <1>3, <1>4 DEF PaperInv, StoreInv

(* The invariant holds throughout every behaviour of the executors. *)
THEOREM PaperInvariant == Spec => []PaperInv
  <1>1. PaperInv /\ [Next]_vars => PaperInv'
    BY StoresInv, ExecutorsInv DEF PaperInv
  <1> QED
    BY PaperInitInv, <1>1, PTL DEF Spec

(* yatl/execution: rows and executor memory keep their types. *)
THEOREM PaperTypesTheorem == Spec => []TypeOK
  <1>1. PaperInv => TypeOK
    BY DEF PaperInv, StoreInv, StoreTypes, ExecTypes, TypeOK
  <1> QED
    BY PaperInvariant, <1>1, PTL

(* portfolio.py: an authorization has at most one effect, for any number of  *)
(* executors that compute its fill step and any number of crashes.           *)
THEOREM OneEffectTheorem == Spec => []AtMostOneEffect
  <1>1. PaperInv => AtMostOneEffect
    BY DEF PaperInv, StoreInv
  <1> QED
    BY PaperInvariant, <1>1, PTL

(* state.py and portfolio.py: a filled order stays in the active state its   *)
(* fills were computed for; no late cancellation reaches it.                 *)
THEOREM FrozenTheorem == Spec => []FilledOrderFrozen
  <1>1. PaperInv => FilledOrderFrozen
    BY DEF PaperInv, StoreInv
  <1> QED
    BY PaperInvariant, <1>1, PTL

(* state.py: the log of every order is a legal lifecycle and the stored      *)
(* state is its replay, whatever stale events executors submit.              *)
THEOREM ReplayTheorem == Spec => []OrderReplays
  <1>1. PaperInv => OrderReplays
    BY DEF PaperInv, StoreInv
  <1> QED
    BY PaperInvariant, <1>1, PTL
-----------------------------------------------------------------------------
(* The ledger, by induction over the fills *)

(* Every set of numbers that has one has a least one: induction over the      *)
(* length of a history is drawn from it.                                      *)
LEMMA LeastNumber ==
    ASSUME NEW S \in SUBSET Nat, S # {}
    PROVE  \E x \in S : \A y \in S : x <= y
  <1>1. PICK x \in S : \A y \in S : ~(<<y, x>> \in OpToRel(<, Nat))
    BY WFMin, NatLessThanWellFounded
  <1>2. \A y \in S : ~(y < x)
    BY <1>1 DEF OpToRel
  <1> QED
    BY <1>2

(* The equation by which Replay defines the ledgers of the first n rows. *)
Ledgers(rows, n, ledger) ==
    ledger = [i \in 0..n |->
                IF i = 0 THEN EmptyLedger ELSE LedgerApply(ledger[i-1], rows[i].fill)]

(* One more row, one more ledger.                                             *)
LEMMA LedgersGrow ==
    ASSUME NEW rows, NEW n \in Nat, NEW ledger, Ledgers(rows, n, ledger)
    PROVE  \E longer : Ledgers(rows, n + 1, longer)
  <1> DEFINE longer == [i \in 0..n+1 |->
                 IF i = n + 1 THEN LedgerApply(ledger[n], rows[n+1].fill) ELSE ledger[i]]
  <1>1. \A i \in 0..n :
           ledger[i] = IF i = 0 THEN EmptyLedger ELSE LedgerApply(ledger[i-1], rows[i].fill)
    BY DEF Ledgers
  <1>2. \A i \in 0..n+1 :
           longer[i] = IF i = 0 THEN EmptyLedger ELSE LedgerApply(longer[i-1], rows[i].fill)
    <2> TAKE i \in 0..n+1
    <2>1. CASE i = n + 1
      <3>1. longer[i] = LedgerApply(ledger[n], rows[n+1].fill)
        BY <2>1
      <3>2. longer[i-1] = ledger[n]
        BY <2>1
      <3> HIDE DEF longer
      <3> QED
        BY <2>1, <3>1, <3>2
    <2>2. CASE i \in 0..n
      <3>1. longer[i] = ledger[i]
        BY <2>2
      <3>2. i # 0 => longer[i-1] = ledger[i-1]
        BY <2>2
      <3> HIDE DEF longer
      <3> QED
        BY <1>1, <2>2, <3>1, <3>2
    <2> QED
      BY <2>1, <2>2
  <1>3. longer = [i \in 0..n+1 |-> longer[i]]
    OBVIOUS
  <1> HIDE DEF longer
  <1>4. Ledgers(rows, n + 1, longer)
    BY <1>2, <1>3 DEF Ledgers
  <1> QED
    BY <1>4

(* The ledgers of a history exist, however long it is.                        *)
LEMMA LedgersExist ==
    ASSUME NEW rows, NEW n \in Nat
    PROVE  \E ledger : Ledgers(rows, n, ledger)
  <1> DEFINE Without == {k \in Nat : ~ \E ledger : Ledgers(rows, k, ledger)}
  <1> SUFFICES ASSUME Without # {} PROVE FALSE
    OBVIOUS
  <1>1. PICK k \in Without : \A j \in Without : k <= j
    BY LeastNumber
  <1>2. CASE k = 0
    <2>1. Ledgers(rows, 0, [i \in 0..0 |-> EmptyLedger])
      BY DEF Ledgers
    <2> QED
      BY <1>2, <2>1
  <1>3. CASE k # 0
    <2>1. k - 1 \in Nat /\ k - 1 \notin Without
      BY <1>1, <1>3
    <2>2. PICK ledger : Ledgers(rows, k - 1, ledger)
      BY <2>1
    <2>3. \E longer : Ledgers(rows, (k - 1) + 1, longer)
      BY <2>1, <2>2, LedgersGrow
    <2>4. (k - 1) + 1 = k
      BY <1>1
    <2> QED
      BY <2>3, <2>4
  <1> QED
    BY <1>2, <1>3

(* Replay is the last of them.                                                *)
LEMMA ReplayLedgers ==
    ASSUME NEW rows, Len(rows) \in Nat
    PROVE  \E ledger : Ledgers(rows, Len(rows), ledger) /\ Replay(rows) = ledger[Len(rows)]
  <1> DEFINE L == CHOOSE ledger : Ledgers(rows, Len(rows), ledger)
  <1>1. Ledgers(rows, Len(rows), L)
    BY LedgersExist
  <1>2. Replay(rows) = L[Len(rows)]
    BY DEF Replay, Ledgers
  <1> QED
    BY <1>1, <1>2

(* What the replay of a history ends with when no fill is rejected: the last  *)
(* fill was accepted, on a ledger no earlier fill was rejected by.            *)
IsLedger(l) ==
    l \in [ok : {l.ok}, cash : {l.cash}, asset : {l.asset}, last : {l.last},
           applied : {l.applied}]

LEMMA LedgerShape ==
    ASSUME NEW l, NEW f, IsLedger(l)
    PROVE  /\ IsLedger(LedgerApply(l, f))
           /\ LedgerApply(l, f).ok =>
                 /\ LedgerAccepts(l, f)
                 /\ LedgerApply(l, f).cash = l.cash + CashDelta(f)
                 /\ LedgerApply(l, f).asset = IF f.action = "ENTER" THEN l.asset + f.qty
                                              ELSE l.asset - f.qty
  <1>1. CASE l.ok /\ LedgerAccepts(l, f)
    BY <1>1 DEF LedgerApply, IsLedger
  <1>2. CASE ~(l.ok /\ LedgerAccepts(l, f))
    <2>1. LedgerApply(l, f) = [l EXCEPT !.ok = FALSE]
      BY <1>2 DEF LedgerApply
    <2>2. /\ [l EXCEPT !.ok = FALSE] \in [ok : {FALSE}, cash : {l.cash}, asset : {l.asset},
                                          last : {l.last}, applied : {l.applied}]
          /\ [l EXCEPT !.ok = FALSE].ok = FALSE
      BY DEF IsLedger
    <2> QED
      BY <2>1, <2>2 DEF IsLedger
  <1> QED
    BY <1>1, <1>2

LEMMA LedgersShape ==
    ASSUME NEW rows, NEW n \in Nat, NEW ledger, Ledgers(rows, n, ledger)
    PROVE  \A i \in 0..n : IsLedger(ledger[i])
  <1> DEFINE Others == {i \in 0..n : ~IsLedger(ledger[i])}
  <1> SUFFICES ASSUME Others # {} PROVE FALSE
    OBVIOUS
  <1>1. PICK i \in Others : \A j \in Others : i <= j
    <2>1. Others \in SUBSET Nat
      OBVIOUS
    <2> HIDE DEF Others
    <2> QED
      BY <2>1, LeastNumber
  <1>2. ledger[i] = IF i = 0 THEN EmptyLedger ELSE LedgerApply(ledger[i-1], rows[i].fill)
    BY <1>1 DEF Ledgers
  <1>3. i # 0
    BY <1>1, <1>2 DEF IsLedger, EmptyLedger
  <1>4. IsLedger(ledger[i-1])
    BY <1>1, <1>3
  <1> QED
    BY <1>1, <1>2, <1>3, <1>4, LedgerShape

LEMMA ReplayEnds ==
    ASSUME NEW rows, Len(rows) \in Nat \ {0}, Replay(rows).ok,
           NEW f, f = rows[Len(rows)].fill, f.qty \in Nat
    PROVE  /\ Replay(rows).cash >= 0
           /\ Replay(rows).asset = IF f.action = "ENTER" THEN f.qty ELSE 0
  <1>1. PICK ledger : Ledgers(rows, Len(rows), ledger) /\ Replay(rows) = ledger[Len(rows)]
    BY ReplayLedgers
  <1> DEFINE n == Len(rows)
             l == ledger[n - 1]
  <1>n. n \in Nat /\ n # 0 /\ n \in 0..n /\ n - 1 \in 0..n
    OBVIOUS
  <1>2. Replay(rows) = LedgerApply(l, f)
    <2>1. f = rows[n].fill /\ Ledgers(rows, n, ledger) /\ Replay(rows) = ledger[n]
      BY <1>1
    <2> HIDE DEF n
    <2>2. ledger[n] = IF n = 0 THEN EmptyLedger ELSE LedgerApply(ledger[n-1], rows[n].fill)
      BY <2>1, <1>n DEF Ledgers
    <2> QED
      BY <1>n, <2>1, <2>2
  <1>3. IsLedger(l)
    BY <1>1, <1>n, LedgersShape
  <1>4. /\ LedgerAccepts(l, f)
        /\ Replay(rows).cash = l.cash + CashDelta(f)
        /\ Replay(rows).asset = IF f.action = "ENTER" THEN l.asset + f.qty
                                ELSE l.asset - f.qty
    BY <1>2, <1>3, LedgerShape
  <1> HIDE DEF l
  <1> QED
    BY <1>4 DEF LedgerAccepts

(* A step has a row, and its rows are of the quantity P4 approved.            *)
LEMMA StepRowQuantity ==
    ASSUME NEW s \in Steps
    PROVE  /\ Len(StepRows(s)) \in {1, 2} /\ DOMAIN StepRows(s) = 1..Len(StepRows(s))
           /\ \A i \in DOMAIN StepRows(s) : StepRows(s)[i].fill.qty = QtyOf[s.auth]
  <1> DEFINE F == FillsOf(s.auth)
  <1>1. Len(F) \in {1, 2} /\ DOMAIN F = 1..Len(F) /\ \A i \in DOMAIN F : F[i].qty = QtyOf[s.auth]
    <2>1. CASE ActionOf[s.auth] = "EXIT"
      BY <2>1 DEF FillsOf, Fill
    <2>2. CASE ActionOf[s.auth] # "EXIT" /\ StopPrice[s.auth] = None
      BY <2>2 DEF FillsOf, Fill
    <2>3. CASE ActionOf[s.auth] # "EXIT" /\ StopPrice[s.auth] # None
      <3>1. F = <<Fill("ENTER", "OPEN", s.auth, Price[s.auth]),
                  Fill("EXIT", "STOP", s.auth, StopPrice[s.auth])>>
        BY <2>3 DEF FillsOf
      <3> QED
        BY <3>1 DEF Fill
    <2> QED
      BY <2>1, <2>2, <2>3
  <1> HIDE DEF F
  <1>2. StepRows(s) = [i \in 1..Len(F) |->
            [auth |-> s.auth, intent |-> s.intent, order |-> s.order,
             index |-> i - 1, fill |-> F[i]]]
    BY DEF StepRows, F
  <1> QED
    BY <1>1, <1>2

(* A committed step leaves a position that its last fill explains.            *)
LEMMA PositionStep ==
    ASSUME StoreTypes, NEW s \in Steps, ApplyStepRows(s)
    PROVE  PositionBacked'
  <1> DEFINE rows == StepRows(s)
             all == fills \o rows
             last == all[Len(all)]
  <1>1. /\ \A i \in 1..Len(rows) : rows[i].auth = s.auth /\ rows[i].fill.qty = QtyOf[s.auth]
    BY StepRowFacts, StepRowQuantity
  <1>s. rows \in Seq(Rows) /\ fills \in Seq(Rows)
    BY StepRowFacts DEF StoreTypes
  <1>n. Len(rows) \in Nat /\ Len(rows) \in 1..Len(rows)
    BY StepRowQuantity
  <1>2. /\ Replay(all).ok /\ fills' = all /\ portfolio' = Projection(all)
    BY DEF ApplyStepRows, StepAccepted
  <1> HIDE DEF rows
  <1>3. /\ all \in Seq(Rows) /\ Len(all) \in Nat \ {0}
        /\ last = rows[Len(rows)]
    <2> HIDE DEF Rows
    <2> SUFFICES ASSUME NEW S, rows \in Seq(S), fills \in Seq(S)
                 PROVE  /\ all \in Seq(S) /\ Len(all) \in Nat \ {0}
                        /\ last = rows[Len(rows)]
      BY <1>s
    <2>1. all \in Seq(S) /\ Len(all) = Len(fills) + Len(rows) /\ Len(fills) \in Nat
      OBVIOUS
    <2>2. (fills \o rows)[Len(fills) + Len(rows)] = rows[Len(rows)]
      BY <1>n, <2>1
    <2> QED
      BY <1>n, <2>1, <2>2
  <1>4. last.auth = s.auth /\ last.fill.qty = QtyOf[s.auth] /\ QtyOf[s.auth] \in Nat
    <2>2. s.auth \in Auths /\ QtyOf[s.auth] \in Nat
      BY StoresAssumption DEF Steps
    <2> QED
      BY <1>1, <1>n, <1>3, <2>2
  <1> HIDE DEF all
  <1>5. /\ Replay(all).cash >= 0
        /\ Replay(all).asset = IF last.fill.action = "ENTER" THEN last.fill.qty ELSE 0
    BY <1>2, <1>3, <1>4, ReplayEnds
  <1>6. portfolio' = [count |-> Len(all), cash |-> Replay(all).cash,
                      asset |-> Replay(all).asset]
    BY <1>2, <1>3 DEF Projection
  <1> QED
    BY <1>2, <1>4, <1>5, <1>6 DEF PositionBacked

(* portfolio.py and P2's ledger: the projected position is the quantity of    *)
(* the entry that opened it, or nothing after an exit, and cash never goes    *)
(* below zero, for any authorizations, prices and number of executors.        *)
THEOREM PositionTheorem == Spec => []PositionBacked
  <1>1. Init => PositionBacked
    BY DEF Init, StoresInit, PositionBacked
  <1>2. PaperInv /\ PositionBacked /\ [Next]_vars => PositionBacked'
    <2> SUFFICES ASSUME PaperInv, PositionBacked, [Next]_vars
                 PROVE  PositionBacked'
      OBVIOUS
    <2>1. CASE UNCHANGED <<fills, portfolio>>
      BY <2>1 DEF PositionBacked
    <2>2. CASE \E p \in Procs : CommitStep(p)
      <3>1. PICK p \in Procs : CommitStep(p)
        BY <2>2
      <3>2. step[p] \in Steps /\ ApplyStepRows(step[p])
        BY <3>1 DEF CommitStep, PaperInv, ExecTypes
      <3> QED
        BY <3>2, PositionStep DEF PaperInv, StoreInv
    <2>3. UNCHANGED <<fills, portfolio>> \/ \E p \in Procs : CommitStep(p)
      <3>1. ASSUME NEW p \in Procs, NEW a \in Auths, Record(p, a)
            PROVE  UNCHANGED <<fills, portfolio>>
        BY <3>1 DEF Record, RecordRows
      <3>2. ASSUME NEW p \in Procs, NEW a \in Auths, NEW type, NEW time, NEW n,
                   OrderEvent(p, a, type, time, n)
            PROVE  UNCHANGED <<fills, portfolio>>
        BY <3>2 DEF OrderEvent, ApplyEventRows
      <3>3. ASSUME NEW p \in Procs,
                   \/ Startup(p) \/ LoadIntents(p) \/ LoadStates(p) \/ LoadEvents(p)
                   \/ LoadFills(p) \/ LoadPortfolio(p)
                   \/ \E a \in Auths : AdapterProcess(p, a)
                   \/ CommitRefused(p) \/ Crash(p)
            PROVE  UNCHANGED <<fills, portfolio>>
        BY <3>3 DEF Startup, LoadIntents, LoadStates, LoadEvents, LoadFills, Read,
                    LoadPortfolio, AdapterProcess, CommitRefused, Crash, storeVars
      <3>4. CASE UNCHANGED vars
        BY <3>4 DEF vars, storeVars
      <3> QED
        BY <3>1, <3>2, <3>3, <3>4 DEF Next
    <2> QED
      BY <2>1, <2>2, <2>3
  <1> QED
    BY <1>1, <1>2, PaperInvariant, PTL DEF Spec
=============================================================================
