---------------------------- MODULE PaperExecution ----------------------------
(***************************************************************************)
(* Executor processes over the shared Paper stores: startup reconciliation *)
(* (yatl/execution/reconcile.py), the readiness-gated decision             *)
(* (contracts.py), the in-memory P2 fill adapter (fills.py) and the calls  *)
(* into the stores.  A process may crash at any point; its readiness, its  *)
(* adapter and a fill step not yet committed are memory only.              *)
(*                                                                         *)
(* reconcile_startup opens a plain connection and issues one SELECT per    *)
(* table, each its own read transaction: other processes commit between    *)
(* two of them, so each is a step here.                                    *)
(***************************************************************************)
EXTENDS PaperStores

CONSTANTS
    Procs,      \* executor processes sharing the database
    MaxCrashes  \* bound on crashes

ASSUME ExecutionAssumption == MaxCrashes \in Nat

VARIABLES
    phase,    \* "down", the table a reconciling process reads next, or "up"
    view,     \* what a reconciling process has read so far
    ready,    \* RecoveryReadiness: None unless READY, else the evidence
    adapter,  \* LocalPaperFillCostAdapter: quantity held, time of last event
    step,     \* the LocalPaperFillStep a process is about to commit
    exact,    \* history: the stores reconciled at some moment since p's startup
    crashes

execVars == <<phase, view, ready, adapter, step, exact, crashes>>

vars == <<storeVars, execVars>>

Phases == {"down", "intents", "states", "events", "fills", "portfolio", "up"}

EmptyView == [intents |-> {}, states |-> [a \in Auths |-> None],
              events |-> [a \in Auths |-> <<>>], fills |-> <<>>]

FreshAdapter == [holding |-> 0, last |-> 0]

-----------------------------------------------------------------------------
(* The comparisons of reconcile_startup on what was read, in the order in    *)
(* which they fail: every intent has an order and events, each order state   *)
(* is the replay of its events, every fill belongs to its active order, and  *)
(* the projection is the replay of the fills.  (An intent row never changes, *)
(* so the row read is the row stored.)                                       *)
Recorded == {a \in Auths : intents[a] # None}

Covered(v) ==
    /\ {a \in Auths : v.states[a] # None} = v.intents
    /\ {a \in Auths : v.events[a] # <<>>} = v.intents

OrdersReplay(v) ==
    \A a \in v.intents : /\ v.states[a].chain = v.events[a]
                         /\ v.states[a].sequence + 1 = Len(v.events[a])

FillsMatchOrders(v) ==
    \A i \in DOMAIN v.fills : LET f == v.fills[i] IN
        /\ f.auth \in v.intents /\ f.intent = intents[f.auth]
        /\ f.order = v.states[f.auth].chain
        /\ v.states[f.auth].status = "ACTIVE_LOCAL"
        /\ f.fill.time > v.states[f.auth].updated

Matches(v, projection) ==
    /\ Covered(v)
    /\ OrdersReplay(v)
    /\ FillsMatchOrders(v)
    /\ Loadable(v.fills)
    /\ projection = Projection(v.fills)

(* What one SELECT of everything at once would have shown. *)
StoredNow == [intents |-> Recorded, states |-> states, events |-> events,
              fills |-> fills]

Reconcilable == Matches(StoredNow, portfolio)

(* The reconciliation digest.  Rows are immutable once written and tables    *)
(* only grow, so this is as good an identity as the digest of their content. *)
Evidence(v) == [intents |-> v.intents, events |-> v.events, fills |-> Len(v.fills)]

Noted == exact' = [p \in Procs |-> exact[p] \/ Reconcilable']

-----------------------------------------------------------------------------
Startup(p) ==
    /\ phase[p] = "down"
    /\ phase' = [phase EXCEPT ![p] = "intents"]
    /\ adapter' = [adapter EXCEPT ![p] = FreshAdapter]
    /\ exact' = [exact EXCEPT ![p] = Reconcilable]
    /\ UNCHANGED <<storeVars, view, ready, step, crashes>>

Read(p, table, read, next) ==
    /\ phase[p] = table
    /\ phase' = [phase EXCEPT ![p] = next]
    /\ view' = [view EXCEPT ![p] = read]
    /\ UNCHANGED <<storeVars, ready, adapter, step, exact, crashes>>

LoadIntents(p) ==
    Read(p, "intents", [view[p] EXCEPT !.intents = Recorded], "states")

LoadStates(p) == Read(p, "states", [view[p] EXCEPT !.states = states], "events")

LoadEvents(p) == Read(p, "events", [view[p] EXCEPT !.events = events], "fills")

LoadFills(p) == Read(p, "fills", [view[p] EXCEPT !.fills = fills], "portfolio")

(* The projection is read last; the report is READY only if everything       *)
(* matched, and a process that is not READY accepts no decision.             *)
LoadPortfolio(p) ==
    /\ phase[p] = "portfolio"
    /\ phase' = [phase EXCEPT ![p] = "up"]
    /\ ready' = [ready EXCEPT ![p] =
                    IF Matches(view[p], portfolio) THEN Evidence(view[p]) ELSE None]
    /\ view' = [view EXCEPT ![p] = EmptyView]
    /\ UNCHANGED <<storeVars, adapter, step, exact, crashes>>

-----------------------------------------------------------------------------
(* assess_local_paper_authorization accepts only with READY evidence; the    *)
(* accepted decision is recorded in the journal.                             *)
Record(p, a) ==
    /\ phase[p] = "up" /\ ready[p] # None
    /\ RecordRows(a, ready[p])
    /\ Noted
    /\ UNCHANGED <<phase, view, ready, adapter, step, crashes>>

(* An order event of any process, built from an order state it read when the *)
(* order had n events.                                                       *)
OrderEvent(p, a, type, time, n) ==
    /\ phase[p] = "up"
    /\ ApplyEventRows([auth |-> a, sequence |-> n, time |-> time, type |-> type,
                       previous |-> SubSeq(events[a], 1, n)])
    /\ Noted
    /\ UNCHANGED <<phase, view, ready, adapter, step, crashes>>

(* LocalPaperFillCostAdapter.process, on the ACTIVE state of the order as it *)
(* was read when the order had two events.  The decision must be the         *)
(* recorded one, so it carries p's own readiness evidence.                   *)
AdapterProcess(p, a) ==
    /\ phase[p] = "up" /\ ready[p] # None /\ step[p] = None
    /\ intents[a] = ready[p]
    /\ Len(events[a]) >= 2
    /\ TimeOf[a] > adapter[p].last
    /\ adapter[p].holding = IF ActionOf[a] = "ENTER" THEN 0 ELSE QtyOf[a]
    /\ adapter' = [adapter EXCEPT ![p] =
                     [last |-> TimeOf[a],
                      holding |-> IF ActionOf[a] = "ENTER" /\ StopPrice[a] = None
                                  THEN QtyOf[a] ELSE 0]]
    /\ step' = [step EXCEPT ![p] = [auth |-> a, intent |-> intents[a],
                                    order |-> SubSeq(events[a], 1, 2)]]
    /\ UNCHANGED <<storeVars, phase, view, ready, exact, crashes>>

CommitStep(p) ==
    /\ step[p] # None
    /\ ApplyStepRows(step[p])
    /\ step' = [step EXCEPT ![p] = None]
    /\ Noted
    /\ UNCHANGED <<phase, view, ready, adapter, crashes>>

(* The portfolio store raises; the adapter has already moved on. *)
CommitRefused(p) ==
    /\ step[p] # None /\ ~StepAccepted(step[p])
    /\ step' = [step EXCEPT ![p] = None]
    /\ UNCHANGED <<storeVars, phase, view, ready, adapter, exact, crashes>>

Crash(p) ==
    /\ phase[p] # "down" /\ crashes < MaxCrashes
    /\ crashes' = crashes + 1
    /\ phase' = [phase EXCEPT ![p] = "down"]
    /\ view' = [view EXCEPT ![p] = EmptyView]
    /\ ready' = [ready EXCEPT ![p] = None]
    /\ adapter' = [adapter EXCEPT ![p] = FreshAdapter]
    /\ step' = [step EXCEPT ![p] = None]
    /\ UNCHANGED <<storeVars, exact>>

-----------------------------------------------------------------------------
Init ==
    /\ StoresInit
    /\ phase = [p \in Procs |-> "down"]
    /\ view = [p \in Procs |-> EmptyView]
    /\ ready = [p \in Procs |-> None]
    /\ adapter = [p \in Procs |-> FreshAdapter]
    /\ step = [p \in Procs |-> None]
    /\ exact = [p \in Procs |-> FALSE]
    /\ crashes = 0

Next ==
    \E p \in Procs :
        \/ Startup(p) \/ LoadIntents(p) \/ LoadStates(p) \/ LoadEvents(p)
        \/ LoadFills(p) \/ LoadPortfolio(p)
        \/ \E a \in Auths : Record(p, a) \/ AdapterProcess(p, a)
        \/ \E a \in Auths, type \in EventTypes, time \in Times :
               \E n \in 0..Len(events[a]) : OrderEvent(p, a, type, time, n)
        \/ CommitStep(p) \/ CommitRefused(p)
        \/ Crash(p)

Spec == Init /\ [][Next]_vars

-----------------------------------------------------------------------------
Rows ==
    [auth : Auths, intent : Readiness, order : Chains, index : Nat,
     fill : UNION {{FillsOf(a)[i] : i \in DOMAIN FillsOf(a)} : a \in Auths}]

Steps == [auth : Auths, intent : Readiness, order : Chains]

Views == [intents : SUBSET Auths, states : [Auths -> OrderStates \cup {None}],
          events : [Auths -> Chains], fills : Seq(Rows)]

\* The fields of every row and of the volatile state of a process.
TypeOK ==
    /\ intents \in [Auths -> Readiness \cup {None}]
    /\ events \in [Auths -> Chains]
    /\ states \in [Auths -> OrderStates \cup {None}]
    /\ fills \in Seq(Rows)
    /\ phase \in [Procs -> Phases]
    /\ view \in [Procs -> Views]
    /\ ready \in [Procs -> Readiness \cup {None}]
    /\ adapter \in [Procs -> [holding : Nat, last : Times]]
    /\ step \in [Procs -> Steps \cup {None}]
    /\ crashes \in 0..MaxCrashes

(* A log is a lifecycle, and the state of its order is its replay. *)
Lifecycle(log) ==
    \A i \in DOMAIN log : /\ log[i].type = <<"CREATE", "ACTIVATE", "CANCEL">>[i]
                          /\ i > 1 => log[i-1].time < log[i].time

ReplayOf(log, order) ==
    IF order = None THEN log = <<>>
    ELSE /\ order.chain = log
         /\ order.sequence + 1 = Len(log)
         /\ Len(log) \in 1..3
         /\ order.updated = log[Len(log)].time
         /\ order.status = StatusAfter[log[Len(log)].type]
         /\ Lifecycle(log)

\* LocalPaperOrderStore: whatever events processes build from states they read
\* earlier, the log of an order is a legal lifecycle with increasing times and
\* the materialized state is its replay.
OrderReplays == \A a \in Auths : ReplayOf(events[a], states[a])

\* LocalPaperOrderStore.apply against LocalPaperPortfolioStore.apply: an order
\* that was filled stays active, in exactly the state its fills name, although
\* a cancellation may have been on its way; reconciliation can therefore never
\* report FILL_ORDER_MISMATCH for what the stores themselves wrote.
FilledOrderFrozen ==
    \A i \in DOMAIN fills :
        /\ intents[fills[i].auth] = fills[i].intent
        /\ states[fills[i].auth] # None
        /\ states[fills[i].auth].chain = fills[i].order
        /\ states[fills[i].auth].status = "ACTIVE_LOCAL"
        /\ fills[i].fill.time > states[fills[i].auth].updated

\* LocalPaperPortfolioStore.apply: an authorization has at most one effect,
\* however many processes compute its fill step and however often they crash:
\* its fills are one step's fills, each once.
AtMostOneEffect ==
    \A i, j \in DOMAIN fills :
        fills[i].auth = fills[j].auth =>
            /\ fills[i].intent = fills[j].intent /\ fills[i].order = fills[j].order
            /\ fills[i].index = fills[j].index => i = j

\* PortfolioLedger behind the store: the projected position is the exact
\* quantity of the entry that opened it, or nothing after an exit, and cash
\* never goes below zero.
PositionBacked ==
    portfolio # None =>
        LET last == fills[Len(fills)] IN
        /\ portfolio.count = Len(fills)
        /\ portfolio.cash >= 0
        /\ portfolio.asset =
               IF last.fill.action = "ENTER" THEN QtyOf[last.auth] ELSE 0

\* fills.py: an executor that startup reconciliation declared READY, and that
\* has processed nothing yet, holds in its adapter the position the portfolio
\* store holds.
ReadyReconstructs ==
    \A p \in Procs :
        ready[p] # None /\ adapter[p].last = 0 =>
            adapter[p].holding = IF portfolio = None THEN 0 ELSE portfolio.asset

\* reconcile.py: READY is reported only if the stores did reconcile exactly at
\* some moment since the reconciliation began.
ReadyWasExact == \A p \in Procs : ready[p] # None => exact[p]

\* portfolio.py: the history a store committed is one it can load again.
CommittedIsLoadable == Loadable(fills)
=============================================================================
