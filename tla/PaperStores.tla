----------------------------- MODULE PaperStores -----------------------------
(***************************************************************************)
(* The durable side of local Paper execution (P5): the intent journal, the *)
(* order store and the portfolio store of yatl/execution, which share one  *)
(* SQLite file.  Each write method is one BEGIN IMMEDIATE transaction, so  *)
(* each is one operator here: a guard (the checks; a call that raises      *)
(* rolls back and is not a step) and the rows it leaves.                   *)
(*                                                                         *)
(* SHA-256 identities are modelled by the values they are digests of: an   *)
(* intent by its authorization and the readiness evidence it was accepted  *)
(* under, an order state by the chain of events that led to it (its event  *)
(* digest covers the predecessor's), a fill step by authorization, intent  *)
(* and order state.  What a fill step contains besides is fixed by the     *)
(* authorization and by its fill bar, and a closed bar never changes: the  *)
(* candle store refuses a conflicting closed candle                        *)
(* (yatl/data/storage.py, _write).                                         *)
(*                                                                         *)
(* One symbol and one accepted spec; rows rewritten behind the program's   *)
(* back are not modelled.                                                  *)
(***************************************************************************)
EXTENDS Integers, Sequences

CONSTANTS
    Auths,        \* P4-approved authorizations (authorization_sha256)
    None,         \* SQL NULL, a missing row, Python's None
    ActionOf,     \* ActionOf[a]: "ENTER" or "EXIT"
    TimeOf,       \* TimeOf[a]: decision time of a, which is its fill time
    QtyOf,        \* QtyOf[a]: the exact quantity P4 approved
    Price,        \* Price[a]: open of the fill bar of a
    StopPrice,    \* StopPrice[a]: the price of the protective exit inside the
                  \* fill bar of entry a, None if the bar touches no level
    Fee,          \* what costs and slippage take from every fill
    InitialCash,
    MaxBatch,     \* MAX_LEDGER_BATCH: fills the ledger applies in one call
    MaxTime       \* bound on event and fill times

Times == 0..MaxTime

EventTypes == {"CREATE", "ACTIVATE", "CANCEL"}

\* _EVENT_STATUSES
StatusAfter == [CREATE |-> "PENDING_LOCAL", ACTIVATE |-> "ACTIVE_LOCAL",
                CANCEL |-> "CANCELLED_LOCAL"]

Chains == Seq([type : EventTypes, time : Times])

OrderStates ==
    [sequence : Nat, updated : Times, status : {StatusAfter[t] : t \in EventTypes},
     chain : Chains]

(* The reconciliation a READY executor refers to (PaperExecution, Evidence). *)
Readiness == [intents : SUBSET Auths, events : [Auths -> Chains], fills : Nat]

ASSUME StoresAssumption ==
    /\ ActionOf \in [Auths -> {"ENTER", "EXIT"}]
    /\ MaxTime \in Nat
    /\ TimeOf \in [Auths -> Times \ {0}]
    /\ QtyOf \in [Auths -> Nat \ {0}]
    /\ Price \in [Auths -> Nat]
    /\ StopPrice \in [Auths -> Nat \cup {None}]
    /\ None \notin Nat /\ None \notin OrderStates /\ None \notin Readiness
    /\ Fee \in Nat /\ InitialCash \in Nat /\ MaxBatch \in Nat

VARIABLES
    intents,    \* local_paper_intents: the readiness evidence a was accepted with
    events,     \* local_paper_order_events: the events of a in sequence order
    states,     \* local_paper_order_states: the materialized order of a
    fills,      \* local_paper_fill_events, in sequence order
    portfolio   \* local_paper_portfolios: the materialized projection

storeVars == <<intents, events, states, fills, portfolio>>

-----------------------------------------------------------------------------
(* ExecutionIntentJournal.record: inserts once per authorization.  The same  *)
(* decision again is answered with the stored record, the same authorization *)
(* under other readiness evidence is an IntentConflict; both write nothing.  *)
RecordRows(a, readiness) ==
    /\ intents[a] = None
    /\ intents' = [intents EXCEPT ![a] = readiness]
    /\ UNCHANGED <<events, states, fills, portfolio>>

-----------------------------------------------------------------------------
(* The foreign key fill_events.order_state_sha256 -> order_states.state_     *)
(* sha256: with PRAGMA foreign_keys = ON an order state that a fill refers   *)
(* to cannot be rewritten.                                                   *)
UnreferencedAlways(a) == TRUE

Unreferenced(a) ==
    \A i \in DOMAIN fills : fills[i].auth = a => fills[i].order # states[a].chain

Allowed == {<<"PENDING_LOCAL", "ACTIVATE">>, <<"ACTIVE_LOCAL", "CANCEL">>}

NextStateUnchained(e) ==
    /\ intents[e.auth] # None
    /\ IF states[e.auth] = None
       THEN e.sequence = 0 /\ e.type = "CREATE"
       ELSE /\ e.time > states[e.auth].updated
            /\ <<states[e.auth].status, e.type>> \in Allowed

(* _next_state, for an event built by build_local_order_event from a state   *)
(* with event chain e.previous (<<>>: from no state) that the caller read    *)
(* some time before.                                                         *)
NextStateAccepts(e) ==
    /\ intents[e.auth] # None
    /\ IF states[e.auth] = None
       THEN e.sequence = 0 /\ e.type = "CREATE"
       ELSE /\ e.sequence = states[e.auth].sequence + 1
            /\ e.time > states[e.auth].updated
            /\ e.previous = states[e.auth].chain
            /\ <<states[e.auth].status, e.type>> \in Allowed

(* LocalPaperOrderStore.apply: the event row and the projection together. *)
ApplyEventRows(e) ==
    LET event == [type |-> e.type, time |-> e.time] IN
    /\ NextStateAccepts(e)
    /\ states[e.auth] # None => Unreferenced(e.auth)
    /\ events' = [events EXCEPT ![e.auth] = Append(@, event)]
    /\ states' = [states EXCEPT ![e.auth] =
                    [sequence |-> e.sequence, updated |-> e.time,
                     status |-> StatusAfter[e.type],
                     chain |-> Append(e.previous, event)]]
    /\ UNCHANGED <<intents, fills, portfolio>>

-----------------------------------------------------------------------------
(* The fills P2 produces for an accepted authorization: an entry at the open *)
(* of its bar, followed by the protective exit when the same bar reaches it; *)
(* an exit at the open of its bar.                                           *)
Fill(action, reason, a, price) ==
    [action |-> action, reason |-> reason, time |-> TimeOf[a], qty |-> QtyOf[a],
     price |-> price]

FillsOf(a) ==
    IF ActionOf[a] = "EXIT" THEN <<Fill("EXIT", "SCRIPTED", a, Price[a])>>
    ELSE IF StopPrice[a] = None THEN <<Fill("ENTER", "OPEN", a, Price[a])>>
    ELSE <<Fill("ENTER", "OPEN", a, Price[a]), Fill("EXIT", "STOP", a, StopPrice[a])>>

(* PortfolioLedger: cash, asset, the time of the last fill and the fills     *)
(* applied.  ok turns FALSE when a fill is rejected.                         *)
EmptyLedger == [ok |-> TRUE, cash |-> InitialCash, asset |-> 0, last |-> 0,
                applied |-> {}]

CashDelta(f) ==
    IF f.action = "ENTER" THEN -(f.qty * f.price) - Fee ELSE f.qty * f.price - Fee

LedgerAcceptsOverlap(l, f) ==
    /\ f \notin l.applied
    /\ f.time >= l.last
    /\ l.cash + CashDelta(f) >= 0
    /\ f.action = "EXIT" => l.asset >= f.qty

(* PortfolioLedger._apply: a fill is applied once and in time order, entries *)
(* do not overlap, an exit closes the whole position, cash stays             *)
(* non-negative.                                                             *)
LedgerAccepts(l, f) ==
    /\ f \notin l.applied
    /\ f.time >= l.last
    /\ l.cash + CashDelta(f) >= 0
    /\ l.asset = IF f.action = "ENTER" THEN 0 ELSE f.qty

LedgerApply(l, f) ==
    IF l.ok /\ LedgerAccepts(l, f)
    THEN [ok |-> TRUE, cash |-> l.cash + CashDelta(f), last |-> f.time,
          applied |-> l.applied \cup {f},
          asset |-> IF f.action = "ENTER" THEN l.asset + f.qty ELSE l.asset - f.qty]
    ELSE [l EXCEPT !.ok = FALSE]

(* The ledger after a fill history. *)
Replay(rows) ==
    LET ledger[i \in 0..Len(rows)] ==
            IF i = 0 THEN EmptyLedger ELSE LedgerApply(ledger[i-1], rows[i].fill)
    IN  ledger[Len(rows)]

(* apply_many over a stored history, in one batch. *)
Loadable(rows) == rows # <<>> => Len(rows) <= MaxBatch /\ Replay(rows).ok

Projection(rows) ==
    IF rows = <<>> THEN None
    ELSE [count |-> Len(rows), cash |-> Replay(rows).cash, asset |-> Replay(rows).asset]

(* The fill events of a step, numbered inside the step. *)
StepRows(s) ==
    [i \in 1..Len(FillsOf(s.auth)) |->
        [auth |-> s.auth, intent |-> s.intent, order |-> s.order,
         index |-> i - 1, fill |-> FillsOf(s.auth)[i]]]

(* The step was applied before: its digest is in the fill log, which is also *)
(* UNIQUE(fill_step_sha256, fill_index).                                     *)
AlreadyApplied(s) ==
    \E i \in DOMAIN fills : /\ fills[i].auth = s.auth
                            /\ fills[i].intent = s.intent
                            /\ fills[i].order = s.order

(* The order a step was computed for is still the durable one, and active. *)
OrderMatches(s) ==
    /\ intents[s.auth] = s.intent
    /\ states[s.auth] # None
    /\ states[s.auth].chain = s.order
    /\ states[s.auth].status = "ACTIVE_LOCAL"
    /\ TimeOf[s.auth] > states[s.auth].updated

StepAcceptedUnread(s) == OrderMatches(s)

(* LocalPaperPortfolioStore.apply: every check, then all fill rows and the   *)
(* projection in one transaction.  The step goes into the loaded ledger as a *)
(* batch of its own.                                                         *)
StepAccepted(s) ==
    /\ OrderMatches(s)
    /\ Loadable(fills)
    /\ portfolio = Projection(fills)
    /\ ~AlreadyApplied(s)
    /\ Replay(fills \o StepRows(s)).ok

ApplyStepRows(s) ==
    /\ StepAccepted(s)
    /\ fills' = fills \o StepRows(s)
    /\ portfolio' = Projection(fills \o StepRows(s))
    /\ UNCHANGED <<intents, events, states>>

-----------------------------------------------------------------------------
StoresInit ==
    /\ intents = [a \in Auths |-> None]
    /\ events = [a \in Auths |-> <<>>]
    /\ states = [a \in Auths |-> None]
    /\ fills = <<>>
    /\ portfolio = None
=============================================================================
