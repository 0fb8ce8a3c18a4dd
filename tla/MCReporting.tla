---------------------------- MODULE MCReporting -----------------------------
(* The reporting layers: analytics over the P5 and P6 journals, the         *)
(* dashboard exporter and builder, and the analyst. They share no state, so *)
(* a behaviour runs one of them (part) and interleaving them would add      *)
(* nothing.                                                                 *)
EXTENDS AnalystTrace, DashboardPublish

CONSTANTS
    Off \* the variables of a component that is not the one running

VARIABLES
    part,  \* the component that runs, chosen once
    p5, p6, analyticsClock, truth, tampered, run

-----------------------------------------------------------------------------
\* The books and the trade tables of the dashboard.
T(id, pnl, hold) == [id |-> id, pnl |-> pnl, hold |-> hold]

MCBooks == {<<>>, <<T("a", 2, 1), T("b", -1, 2)>>}
MCTables == {<<>>, <<T("a", 1, 2)>>, <<T("a", 1, 2), T("b", -1, 1), T("c", 1, 1)>>,
             <<T("a", 0, 1), T("b", 2, 1), T("c", 2, 2), T("d", -1, 2)>>}

\* Evidence of the accepted layers, and answers of the model: sound ones, and ones
\* out of order, unbacked, contradicting, unknown, forbidden, malformed and unreadable.
A(layer, observed, until, symbol, payload) ==
    [layer |-> layer, symbol |-> symbol, observed |-> observed, until |-> until, payload |-> payload]
C(rank, id, kind, evidence, text) ==
    [rank |-> rank, id |-> id, kind |-> kind, evidence |-> evidence, text |-> text]
N(form) == [form |-> form, forbidden |-> FALSE, claims |-> <<>>]
O(claims) == [form |-> "OBJECT", forbidden |-> FALSE, claims |-> claims]

P1(closed) == [accepted |-> TRUE, closed |-> closed]
P3 == [accepted |-> TRUE, strategy |-> "INSUFFICIENT_EVIDENCE"]
P4(authority) == [accepted |-> TRUE, status |-> "PASS", authority |-> authority]
P5 == [accepted |-> TRUE, status |-> "PASS", permission |-> FALSE]

MCArtifacts ==
    {A("P1", 0, 1, "BTC", P1(0)), A("P1", 1, 1, "ETH", P1(1)), A("P1", 0, 1, "BTC", P1(1)),
     A("P3", 0, 2, "BTC", P3), A("P4", 0, 2, "BTC", P4(FALSE)), A("P4", 0, 2, "BTC", P4(TRUE)),
     A("P5", 0, 0, "BTC", P5), A("P5", 1, 2, "BTC", P5)}

Doubt == C(5, "MODEL_UNCERTAINTY_STRATEGY", "UNCERTAINTY", {"P3"}, "rule")
Market == C(1, "MODEL_FACT_MARKET", "FACT", {"P1"}, "rule")

MCAnswers ==
    {O(<<Market, Doubt>>), O(<<Market>>), O(<<Doubt, Market>>),
     O(<<C(1, "MODEL_FACT_MARKET", "FACT", {"P4"}, "rule"), Doubt>>),
     O(<<C(1, "MODEL_FACT_MARKET", "FACT", {"P9"}, "rule"), Doubt>>),
     O(<<C(2, "MODEL_FACT_RISK", "FACT", {"P4"}, "contradiction"), Doubt>>),
     O(<<C(3, "SOMETHING_ELSE", "FACT", {"P5"}, "rule"), Doubt>>),
     [form |-> "OBJECT", forbidden |-> TRUE, claims |-> <<Market, Doubt>>],
     N("MALFORMED_JSON"), N("UNDECODABLE"), N("TOO_DEEP")}

-----------------------------------------------------------------------------
Analytics == INSTANCE AnalyticsChain WITH
    MaxIntents <- 2, MaxTraces <- 1, MaxRuns <- 1, Prices <- {2, 3}, Fee <- 1,
    Tampers <- {"cash", "drop", "order", "intent", "trace"}, clock <- analyticsClock

ASSUME Analytics!BoundsAssumption

-----------------------------------------------------------------------------
AnalyticsOff ==
    /\ p5 = Off /\ p6 = Off /\ analyticsClock = Off /\ truth = Off /\ tampered = Off
    /\ run = Off

Dashboard == {"publish", "race", "paging"}

\* The documents the race is about have no fault.
NoFaults == \A p \in Procs : procs'[p].name \in {<<>>} \cup (Books \X {"none"})

MCInit ==
    /\ part \in {"analyst", "analytics"} \cup Dashboard
    /\ Init
    /\ IF part = "analytics" THEN Analytics!Init ELSE AnalyticsOff
    /\ PublishInit
    /\ part = "race" => files["source"].name \in {<<>>} \cup (Books \X {"none"})
    /\ part \in {"publish", "race"} \/ files["source"] = NoFile

\* One exporter and one builder over documents with every fault; two builders and the
\* exporter at once, each with one command over documents without; a reader turning
\* the pages of a table.
DashboardNext ==
    \/ part = "publish" /\ \E p \in {"e1", "b1"} : Command(p)
    \/ part = "race" /\ (\E p \in Procs : procs[p].pc # "done" /\ Command(p)) /\ NoFaults
    \/ part = "paging" /\ Reading

analyticsVars == <<p5, p6, analyticsClock, truth, tampered, run>>

\* The components share no state: the ones that do not run stay as they are.
MCNext ==
    /\ part' = part
    /\ \/ part = "analyst" /\ Next /\ UNCHANGED <<analyticsVars, publishVars>>
       \/ part = "analytics" /\ Analytics!Next /\ UNCHANGED <<vars, publishVars>>
       \/ DashboardNext /\ UNCHANGED <<vars, analyticsVars>>

MCvars == <<part, vars, analyticsVars, publishVars>>

MCSpec == MCInit /\ [][MCNext]_MCvars

-----------------------------------------------------------------------------
\* A report of P7 is of one moment of the databases although writers go on beside it,
\* its figures are those of the fills that really happened, a history that executors
\* wrote passes the quality gate, and turning the pages of the table of trades shows
\* every row once (AnalyticsStore, project_completed_trade_table).
ReportIsTrue ==
    /\ part = "analytics" => Analytics!ReportIsOfOneSnapshot
    /\ part = "analytics" => Analytics!ReportIsOfTheRealFills
    /\ part = "analytics" => Analytics!HealthyHistoryPasses
    /\ PagesCoverTable
=============================================================================
