---------------------------- MODULE AnalyticsChain ----------------------------
(* P7 analytics over the P5 paper database and the P6 trace journal. The two  *)
(* writers go on while the quality gate reads: it ingests both sources,       *)
(* rebuilds the timeline, pairs the fills into trades, derives metrics and    *)
(* segments, and reads every database between two looks at its bytes. A row   *)
(* is its contents; its digests are the equality of rows.                     *)
EXTENDS Integers, Sequences, FiniteSets

CONSTANTS
    MaxIntents, MaxTraces,  \* what the two writers produce at most
    MaxRuns,                \* runs of the quality gate
    Prices,                 \* prices a fill may have
    Fee,                    \* quote paid on every fill
    Tampers                 \* rows that may be changed behind the writer's back

BoundsAssumption == MaxIntents \in Nat /\ MaxTraces \in Nat /\ MaxRuns \in Nat

VARIABLES
    p5,         \* the paper database
    p6,         \* the traces, each accepted or not
    clock,
    truth,      \* the fills as the writer made them
    tampered,
    run         \* the gate: its pins, what it has read and what it reports

vars == <<p5, p6, clock, truth, tampered, run>>

Auths == 1 .. MaxIntents

Total(s) == LET sum[k \in 0 .. Len(s)] == IF k = 0 THEN 0 ELSE sum[k - 1] + s[k]
            IN  sum[Len(s)]

-----------------------------------------------------------------------------
(* P5 and P6 write                                                           *)

\* A fill pays for the asset on entry and brings its price on exit.
Fill(auth, step, index, action, time, price, reason) ==
    [auth |-> auth, step |-> step, index |-> index, action |-> action, time |-> time,
     reason |-> reason, gross |-> price, cash |-> (IF action = "ENTER_LONG" THEN 0 - price ELSE price) - Fee]

EmptyBook == [fills |-> 0, realized |-> 0, fees |-> 0, basis |-> 0, closed |-> 0]

\* The portfolio projection the writer keeps with its fills.
Projected(book, f) ==
    [fills |-> book.fills + 1, fees |-> book.fees + Fee,
     basis |-> IF f.action = "ENTER_LONG" THEN 0 - f.cash ELSE 0,
     closed |-> IF f.action = "ENTER_LONG" THEN book.closed ELSE book.closed + 1,
     realized |-> IF f.action = "ENTER_LONG" THEN book.realized
                  ELSE book.realized + f.cash - book.basis]

Opposite(action) == IF action = "ENTER_LONG" THEN "EXIT_LONG" ELSE "ENTER_LONG"

Position(book) == IF book.basis = 0 THEN "FLAT" ELSE "LONG"

P5Writes(db, fills) ==
    /\ p5' = db
    /\ truth' = fills
    /\ clock' = clock + 1
    /\ UNCHANGED <<p6, tampered, run>>

NewAuth == Cardinality(DOMAIN p5.intents) + 1

\* An intent, its order and the order's events are transactions of their own.
RecordIntent ==
    /\ tampered = {} /\ NewAuth \in Auths
    /\ \A a \in DOMAIN p5.intents : \/ p5.orders[a] # <<>> /\ p5.orders[a][Len(p5.orders[a])].type = "CANCEL"
                                    \/ \E k \in DOMAIN p5.fills : p5.fills[k].auth = a
    /\ LET action == IF Position(p5.book) = "FLAT" THEN "ENTER_LONG" ELSE "EXIT_LONG"
           orders == [a \in 1 .. NewAuth |-> IF a = NewAuth THEN <<>> ELSE p5.orders[a]]
       IN  P5Writes([p5 EXCEPT !.intents = Append(@, action), !.orders = orders], truth)

OrderEvent(a, type) ==
    LET orders == [p5.orders EXCEPT ![a] = Append(@, [type |-> type, time |-> clock])]
    IN  P5Writes([p5 EXCEPT !.orders = orders], truth)

AdvanceOrder ==
    /\ tampered = {}
    /\ \E a \in DOMAIN p5.intents :
        /\ \A k \in DOMAIN p5.fills : p5.fills[k].auth # a
        /\ \/ p5.orders[a] = <<>> /\ OrderEvent(a, "CREATE")
           \/ Len(p5.orders[a]) = 1 /\ OrderEvent(a, "ACTIVATE")
           \/ Len(p5.orders[a]) = 2 /\ OrderEvent(a, "CANCEL")

\* One fill step: the intent's own fill, and for an entry possibly the protective
\* exit of the same bar.
FillStep ==
    /\ tampered = {}
    /\ \E a \in DOMAIN p5.intents, price \in Prices, protective \in {0} \cup Prices :
        /\ Len(p5.orders[a]) = 2
        /\ \A k \in DOMAIN p5.fills : p5.fills[k].auth # a
        /\ protective # 0 => p5.intents[a] = "ENTER_LONG"
        /\ LET first == Fill(a, a, 0, p5.intents[a], clock, price, "NEXT_OPEN")
               exit  == Fill(a, a, 1, "EXIT_LONG", clock, protective, "STOP")
               after == Projected(p5.book, first)
               both  == <<first>> \o (IF protective = 0 THEN <<>> ELSE <<exit>>)
           IN  P5Writes([p5 EXCEPT !.fills = @ \o both,
                                   !.book = IF protective = 0 THEN after ELSE Projected(after, exit)],
                        truth \o both)

\* An answer that is grounded asks for a review; any other has no usable claims.
Trace(accepted) ==
    [accepted |-> accepted, disposition |-> IF accepted THEN "REVIEW" ELSE "INSUFFICIENT_DATA"]

RecordTrace ==
    /\ tampered = {} /\ Len(p6) < MaxTraces
    /\ \E accepted \in BOOLEAN : p6' = Append(p6, Trace(accepted))
    /\ UNCHANGED <<p5, clock, truth, tampered, run>>

\* A row is changed by other hands, its own digest with it.
Tamper ==
    /\ tampered = {}
    /\ \E t \in Tampers :
        /\ tampered' = {t}
        /\ CASE t = "cash"  -> \E k \in DOMAIN p5.fills :
                                    p5' = [p5 EXCEPT !.fills[k].cash = @ + 1]
             [] t = "drop"  -> p5.fills # <<>> /\
                                    p5' = [p5 EXCEPT !.fills = SubSeq(@, 1, Len(@) - 1)]
             [] t = "order" -> \E a \in DOMAIN p5.orders :
                                    /\ Len(p5.orders[a]) > 1
                                    /\ p5' = [p5 EXCEPT !.orders[a] = SubSeq(@, 2, Len(@))]
             [] t = "intent" -> \E a \in DOMAIN p5.intents :
                                    p5' = [p5 EXCEPT !.intents[a] = Opposite(@)]
             [] OTHER -> p5' = p5
        /\ IF t = "trace" THEN \E k \in DOMAIN p6 : p6' = [p6 EXCEPT ![k].accepted = ~@]
           ELSE p6' = p6
    /\ UNCHANGED <<clock, truth, run>>

-----------------------------------------------------------------------------
(* Ingestion and the timeline                                                *)

\* A rejected answer taken for a damaged row
P6CanonicalAccepted(traces) == \A k \in DOMAIN traces : traces[k].disposition = "REVIEW"

\* _p6_canonical: a trace is taken only if its acceptance and its disposition agree.
P6Canonical(traces) ==
    \A k \in DOMAIN traces : traces[k].accepted <=> traces[k].disposition = "REVIEW"

LifecycleTypes == <<"CREATE", "ACTIVATE", "CANCEL">>

\* _validate_order_material: every intent has its order, the events in their order.
OrdersValid(orders, snapshot) ==
    \A a \in DOMAIN orders :
        /\ orders[a] # <<>>
        /\ \A k \in DOMAIN orders[a] :
            /\ orders[a][k].type = LifecycleTypes[k]
            /\ orders[a][k].time <= snapshot
            /\ k > 1 => orders[a][k].time > orders[a][k - 1].time

StepFills(fills, s) == SelectSeq(fills, LAMBDA f : f.step = s)

\* A step is the fill of its intent, followed for an entry by at most its
\* protective exit.
StepValid(intents, step) ==
    /\ step[1].action = intents[step[1].auth]
    /\ \A k \in DOMAIN step : step[k].index = k - 1
    /\ Len(step) <= 2
    /\ Len(step) = 2 =>
        /\ step[1].action = "ENTER_LONG" /\ step[2].action = "EXIT_LONG"
        /\ step[2].auth = step[1].auth /\ step[2].time = step[1].time
        /\ step[2].reason \in {"STOP", "TARGET", "AMBIGUOUS_STOP_PRIORITY"}

\* _validate_fill_material
FillsValid(intents, orders, fills, book, snapshot) ==
    /\ \A k \in DOMAIN fills :
        /\ fills[k].auth \in DOMAIN intents
        /\ Len(orders[fills[k].auth]) >= 2
        /\ fills[k].time >= orders[fills[k].auth][2].time
        /\ fills[k].time <= snapshot
    /\ \A s \in {fills[k].step : k \in DOMAIN fills} : StepValid(intents, StepFills(fills, s))
    /\ book.fills = Len(fills)

\* The entries of the timeline; the code sorts them by time, kind and digest.
Entries6(traces) == {<<"TRACE", k, 0>> : k \in DOMAIN traces}

Entries5(orders, fills) ==
    {<<"INTENT", a, orders[a][1].time>> : a \in {x \in DOMAIN orders : orders[x] # <<>>}}
    \cup UNION {{<<"ORDER", a, k, orders[a][k].time>> : k \in DOMAIN orders[a]} : a \in DOMAIN orders}
    \cup {<<"FILL", k, fills[k].time>> : k \in DOMAIN fills}
    \cup (IF fills = <<>> THEN {} ELSE {<<"PORTFOLIO", Len(fills), fills[Len(fills)].time>>})

-----------------------------------------------------------------------------
(* Trades and metrics                                                        *)

NoTrades == [done |-> <<>>, open |-> <<>>, ok |-> TRUE]

\* _build_episodes
Episodes(fills) ==
    LET e[k \in 0 .. Len(fills)] ==
            IF k = 0 THEN NoTrades
            ELSE LET b == e[k - 1]
                     f == fills[k]
                 IN  IF f.action = "ENTER_LONG"
                     THEN [b EXCEPT !.open = <<f>>, !.ok = @ /\ b.open = <<>>]
                     ELSE IF b.open = <<>> THEN [b EXCEPT !.ok = FALSE]
                     ELSE [b EXCEPT !.open = <<>>,
                                    !.done = Append(@, [entry |-> b.open[1], exit |-> f,
                                                        pnl |-> b.open[1].cash + f.cash])]
    IN  e[Len(fills)]

\* _reconcile
Reconciles(trades, fills, book) ==
    /\ trades.ok
    /\ Total([k \in DOMAIN trades.done |-> trades.done[k].pnl]) = book.realized
    /\ Fee * Len(fills) = book.fees
    /\ book.closed = Len(trades.done)
    /\ book.basis = (IF trades.open = <<>> THEN 0 ELSE 0 - trades.open[1].cash)

\* _aggregate: counts and the deepest fall of the realized sum from its peak.
Aggregate(done) ==
    LET pnl == [k \in DOMAIN done |-> done[k].pnl]
        sum(k) == Total(SubSeq(pnl, 1, k))
        ordered == {0} \cup UNION {{sum(j) - sum(k) : j \in 0 .. k} : k \in 0 .. Len(pnl)}
    IN  [count |-> Len(done), realized |-> sum(Len(pnl)),
         wins |-> Cardinality({k \in DOMAIN pnl : pnl[k] > 0}),
         losses |-> Cardinality({k \in DOMAIN pnl : pnl[k] < 0}),
         drawdown |-> CHOOSE d \in ordered : \A x \in ordered : x <= d]

\* build_segmentation: the traces by acceptance; an empty population has one segment.
AnalystSegments(traces) ==
    IF traces = <<>> THEN {<<"NO_ANALYST_TRACES", 0>>}
    ELSE {<<IF a THEN "ACCEPTED" ELSE "REJECTED", Cardinality({k \in DOMAIN traces : traces[k].accepted = a})>> :
            a \in {traces[k].accepted : k \in DOMAIN traces}}

-----------------------------------------------------------------------------
(* The quality gate                                                          *)

Stages == <<"ingest5", "ingest6", "timeline5", "timeline6", "trades5", "segments6">>

\* The sources are named by the digest they have now; the snapshot is of now or of
\* a moment ago.
StartGate ==
    /\ run.pc \in {"idle", "done"} /\ run.count < MaxRuns
    /\ \E age \in 0 .. 1 :
        run' = [pc |-> "before", count |-> run.count + 1, stage |-> 1, snapshot |-> clock - age,
                pin5 |-> p5, pin6 |-> p6, orders |-> <<>>, intents |-> <<>>, fills |-> <<>>,
                book |-> EmptyBook, traces |-> <<>>, timeline |-> {}, result |-> "none",
                true |-> truth, marred |-> tampered, trades |-> NoTrades, metrics |-> Aggregate(<<>>), segments |-> {}]
    /\ UNCHANGED <<p5, p6, clock, truth, tampered>>

Stop(result) == run' = [run EXCEPT !.pc = "done", !.result = result]

Reads5 == run.stage \in {1, 3, 5}

\* Size, time and digest of a file are still those of the pin.
SameFile(now, pin) == now = pin

Pinned == IF Reads5 THEN SameFile(p5, run.pin5) ELSE SameFile(p6, run.pin6)

\* Ingestion reads the intents only, each checked by its own digest.
P5Canonical == [run EXCEPT !.pc = "after", !.intents = p5.intents]

\* The look before a read, and the first half of it.
Before ==
    /\ run.pc = "before"
    /\ IF ~Pinned THEN Stop("FAIL_SOURCE")
       ELSE run' = IF ~Reads5 THEN [run EXCEPT !.pc = "after", !.traces = p6]
                   ELSE IF Stages[run.stage] = "ingest5"
                   THEN P5Canonical
                   ELSE [run EXCEPT !.pc = "second", !.intents = p5.intents, !.orders = p5.orders]
    /\ UNCHANGED <<p5, p6, clock, truth, tampered>>

\* The fills are a later query of the same connection.
Second ==
    /\ run.pc = "second"
    /\ run' = [run EXCEPT !.pc = "after", !.fills = p5.fills, !.book = p5.book]
    /\ UNCHANGED <<p5, p6, clock, truth, tampered>>

\* What a stage makes of its read, once the file is known not to have moved.
TimelineDone ==
    IF ~OrdersValid(run.orders, run.snapshot) \/ DOMAIN run.orders # DOMAIN run.intents
       \/ ~FillsValid(run.intents, run.orders, run.fills, run.book, run.snapshot)
    THEN Stop("FAIL_TIMELINE")
    ELSE run' = [run EXCEPT !.pc = "before", !.stage = @ + 1,
                            !.timeline = Entries5(run.orders, run.fills)]

\* A timeline without entries is none.
TimelineComplete ==
    LET timeline == run.timeline \cup Entries6(run.traces)
    IN  IF timeline = {} THEN Stop("FAIL_TIMELINE")
        ELSE run' = [run EXCEPT !.pc = "before", !.stage = @ + 1, !.timeline = timeline]

TradesDone ==
    LET trades == Episodes(run.fills)
    IN  IF ~OrdersValid(run.orders, run.snapshot)
           \/ ~FillsValid(run.intents, run.orders, run.fills, run.book, run.snapshot)
           \/ ~Reconciles(trades, run.fills, run.book)
        THEN Stop("FAIL_TRADES")
        ELSE run' = [run EXCEPT !.pc = "before", !.stage = @ + 1, !.trades = trades,
                                    !.metrics = Aggregate(trades.done)]

\* The look after a read.
After ==
    /\ run.pc = "after"
    /\ IF ~Pinned \/ ~P6Canonical(run.traces) THEN Stop("FAIL_SOURCE")
       ELSE CASE Stages[run.stage] = "timeline5" -> TimelineDone
              [] Stages[run.stage] = "timeline6" -> TimelineComplete
              [] Stages[run.stage] = "trades5"   -> TradesDone
              [] Stages[run.stage] = "segments6" ->
                        run' = [run EXCEPT !.pc = "checks", !.segments = AnalystSegments(run.traces)]
              [] OTHER -> run' = [run EXCEPT !.pc = "before", !.stage = @ + 1]
    /\ UNCHANGED <<p5, p6, clock, truth, tampered>>

\* _quality_checks and the last look of run_quality_gate.
QualityGate ==
    /\ run.pc = "checks"
    /\ LET listed(kind) == Cardinality({e \in run.timeline : e[1] = kind})
           traded == 2 * Len(run.trades.done) + Len(run.trades.open)
       IN  Stop(IF \/ listed("FILL") # traded \/ listed("TRACE") # Len(run.traces)
                   \/ run.metrics.count # Len(run.trades.done)
                THEN "FAIL_CHECKS"
                ELSE IF ~SameFile(p5, run.pin5) \/ ~SameFile(p6, run.pin6) THEN "FAIL_SOURCE"
                ELSE "PASS")
    /\ UNCHANGED <<p5, p6, clock, truth, tampered>>

Init ==
    /\ p5 = [intents |-> <<>>, orders |-> <<>>, fills |-> <<>>, book |-> EmptyBook]
    /\ p6 = <<>> /\ clock = 1 /\ tampered = {}
    /\ truth = <<>>
    /\ run = [pc |-> "idle", count |-> 0]

Next ==
    \/ RecordIntent \/ AdvanceOrder \/ FillStep \/ RecordTrace \/ Tamper
    \/ StartGate \/ Before \/ Second \/ After \/ QualityGate

Spec == Init /\ [][Next]_vars

-----------------------------------------------------------------------------
(* Properties                                                                *)

Passed == run.pc = "done" /\ run.result = "PASS"

\* A report that passes is of one state of both databases, although its parts were
\* read one after the other beside two writers (run_quality_gate).
ReportIsOfOneSnapshot ==
    Passed => /\ run.timeline = Entries5(run.pin5.orders, run.pin5.fills) \cup Entries6(run.pin6)
              /\ run.trades = Episodes(run.pin5.fills)
              /\ run.traces = run.pin6

\* A changed or missing row never reaches a report: the trades of a passing report
\* are those of the fills the writer made, and its sums those of its book.
ReportIsOfTheRealFills ==
    Passed => /\ run.trades = Episodes(run.true)
              /\ run.metrics.realized = run.pin5.book.realized
              /\ run.metrics.wins + run.metrics.losses <= run.pin5.book.closed
              /\ "trace" \notin run.marred

Orphaned(db) == \E a \in DOMAIN db.intents : db.orders[a] = <<>>
Later(db, t) ==
    \/ \E a \in DOMAIN db.orders : \E k \in DOMAIN db.orders[a] : db.orders[a][k].time > t
    \/ \E k \in DOMAIN db.fills : db.fills[k].time > t

\* What P5 writes is always accepted: the gate fails only if a source moved, a row
\* was changed, an intent has no order yet, an event lies after the snapshot or
\* there is nothing at all to report.
HealthyHistoryPasses ==
    (run.pc = "done" /\ run.result # "PASS" /\ tampered = {}) =>
        \/ p5 # run.pin5 \/ p6 # run.pin6
        \/ Orphaned(run.pin5) \/ Later(run.pin5, run.snapshot)
        \/ run.pin5.intents = <<>>
==============================================================================
