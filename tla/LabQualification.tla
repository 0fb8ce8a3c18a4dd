--------------------------- MODULE LabQualification ---------------------------
(* The driver of the historical strategy lab: a registered protocol is loaded, *)
(* one cell is run per fold and symbol, the cells are summed up per candidate,  *)
(* and the candidate is qualified against fixed gates and, in HSL-002 and       *)
(* HSL-003, against its control. A cell is reduced to its closed trades, what   *)
(* an open position is worth at the end of the fold, and its drawdown.          *)
EXTENDS Integers, Sequences, FiniteSets, SequencesExt

CONSTANTS
    Labs,           \* labs that are run
    Protocols,      \* protocol files: [folds, registered, sameGate]
    Parents,        \* HSL-001 protocol files the child protocols refer to
    Symbols,        \* acq.ALLOWED_SYMBOLS, in order
    FoldCount,      \* folds a protocol must have
    Outcomes,       \* what a cell may come to: [trades, unrealized, drawdown]
    Controls,       \* control summaries: [net, realized, completed]
    MinTrades, MinPerSymbol, MinProfitFactorPct, MinPositivePct,
    MaxSharePct, MaxDrawdownPct

VARIABLES
    lab, protocol, parent,
    phase,          \* "START", "CELLS", "AGGREGATE", "COMPARE", "WRITTEN", "REFUSED"
    cells,          \* results of the cells, in the order they are run
    summary, failures, status

vars == <<lab, protocol, parent, phase, cells, summary, failures, status>>

Total(s) == FoldLeft(LAMBDA a, b : a + b, 0, s)
MaxIn(s) == CHOOSE x \in ToSet(s) : \A y \in ToSet(s) : y <= x
Field(s, f) == [k \in DOMAIN s |-> s[k][f]]
Positive(t) == SelectSeq(t, LAMBDA x : x > 0)
Negative(t) == SelectSeq(t, LAMBDA x : x < 0)

-----------------------------------------------------------------------------
(* Protocols                                                                 *)

\* load_protocol of HSL-001: training ends where the evaluation starts, and the
\* evaluation starts where the one before it ended.
FoldsSequential(folds) ==
    /\ Len(folds) = FoldCount
    /\ \A k \in DOMAIN folds :
        /\ folds[k].trainStart < folds[k].trainEnd
        /\ folds[k].trainEnd = folds[k].evalStart
        /\ folds[k].evalStart < folds[k].evalEnd
        /\ k > 1 => folds[k - 1].evalEnd = folds[k].evalStart

WalkForwardProtocolOk(p) == p.registered /\ FoldsSequential(p.folds)

\* The later labs take folds and candidates from the HSL-001 protocol.
RiskOverlayProtocolOk(p, q) == p.registered /\ WalkForwardProtocolOk(q)
AblationProtocolOk(p, q) == p.registered /\ p.sameGate /\ WalkForwardProtocolOk(q)
MomentumProtocolOk(p, q) == p.registered /\ p.sameGate /\ WalkForwardProtocolOk(q)
VolatilityProtocolOk(p, q) == p.registered /\ p.sameGate /\ WalkForwardProtocolOk(q)

ProtocolOk ==
    CASE lab = "HSL-001"  -> WalkForwardProtocolOk(protocol)
      [] lab = "HSL-002"  -> RiskOverlayProtocolOk(protocol, parent)
      [] lab = "HSL-003"  -> AblationProtocolOk(protocol, parent)
      [] lab = "HSL-004A" -> MomentumProtocolOk(protocol, parent)
      [] OTHER            -> VolatilityProtocolOk(protocol, parent)

Folds == IF lab = "HSL-001" THEN protocol.folds ELSE parent.folds

-----------------------------------------------------------------------------
(* Cells and their sum                                                       *)

\* The result of one cell: gross figures of its trades and the marked total.
CellResult(k, symbol, o) ==
    LET wins == Positive(o.trades)  losses == Negative(o.trades) IN
    [fold |-> k, symbol |-> symbol, trades |-> o.trades,
     completed |-> Len(o.trades), wins |-> Len(wins), losses |-> Len(losses),
     gp |-> Total(wins), gl |-> -Total(losses),
     realized |-> Total(o.trades), net |-> Total(o.trades) + o.unrealized,
     largest |-> IF wins = <<>> THEN 0 ELSE MaxIn(wins),
     drawdown |-> o.drawdown]

LargestOfAll(cs) == MaxIn(Field(cs, "largest"))

CompletedBySymbol(cs) ==
    [s \in ToSet(Symbols) |->
        Total(Field(SelectSeq(cs, LAMBDA c : c.symbol = s), "completed"))]

\* _aggregate_candidate, the figures
Aggregated(cs) ==
    [completed |-> Total(Field(cs, "completed")),
     perSymbol |-> CompletedBySymbol(cs),
     wins |-> Total(Field(cs, "wins")), losses |-> Total(Field(cs, "losses")),
     gp |-> Total(Field(cs, "gp")), gl |-> Total(Field(cs, "gl")),
     realized |-> Total(Field(cs, "realized")), net |-> Total(Field(cs, "net")),
     positive |-> Len(SelectSeq(cs, LAMBDA c : c.net > 0)),
     largest |-> LargestOfAll(cs),
     drawdown |-> MaxIn(Field(cs, "drawdown"))]

\* A profit factor without losses is infinite if there was any profit.
ProfitFactorMeets(a) ==
    IF a.gl = 0 THEN a.gp > 0 ELSE 100 * a.gp >= MinProfitFactorPct * a.gl

\* _aggregate_candidate, the qualification
GateFailures(a, count) ==
    LET Fails == [
        TOTAL_TRADES |-> a.completed < MinTrades,
        SYMBOL_TRADES |-> \E s \in ToSet(Symbols) : a.perSymbol[s] < MinPerSymbol,
        NET |-> a.net <= 0,
        EXPECTANCY |-> a.completed = 0 \/ a.realized <= 0,
        PROFIT_FACTOR |-> ~ProfitFactorMeets(a),
        POSITIVE_CELLS |-> 100 * a.positive < MinPositivePct * count,
        OUTLIER |-> a.gp = 0 \/ 100 * a.largest > MaxSharePct * a.gp,
        DRAWDOWN |-> a.drawdown > MaxDrawdownPct]
    IN  {f \in DOMAIN Fails : Fails[f]}

\* HSL-002 compares the challenger arm with the reference arm; the per-symbol,
\* positive-cell and outlier gates are not part of the comparison.
RiskOverlayComparison(a, control) ==
    LET Fails == [
        TOTAL_TRADES |-> a.completed < MinTrades,
        NET |-> a.net <= 0,
        EXPECTANCY |-> a.completed = 0 \/ a.realized <= 0,
        PROFIT_FACTOR |-> ~ProfitFactorMeets(a),
        DRAWDOWN |-> a.drawdown > MaxDrawdownPct,
        CONTROL_NET |-> a.net <= control.net]
    IN  {f \in DOMAIN Fails : Fails[f]}

\* HSL-003 adds to the gates that the ablation beats its control.
AblationComparison(a, control, gates) ==
    gates \cup {f \in {"CONTROL_NET"} : a.net <= control.net}
          \cup {f \in {"CONTROL_EXPECTANCY"} :
                   \/ a.completed = 0 \/ control.completed = 0
                   \/ a.realized * control.completed < control.realized * a.completed}

Compared(a, control, gates) ==
    CASE lab = "HSL-002" -> RiskOverlayComparison(a, control)
      [] lab = "HSL-003" -> AblationComparison(a, control, gates)
      [] OTHER           -> gates

-----------------------------------------------------------------------------
(* The run                                                                   *)

NoSummary == [completed |-> 0]

Init ==
    /\ lab \in Labs /\ protocol \in Protocols
    /\ parent \in Parents
    /\ phase = "START" /\ cells = <<>> /\ summary = NoSummary
    /\ failures = {} /\ status = "NONE"

LoadProtocol ==
    /\ phase = "START"
    /\ phase' = IF ProtocolOk THEN "CELLS" ELSE "REFUSED"
    /\ UNCHANGED <<lab, protocol, parent, cells, summary, failures, status>>

CellCount == FoldCount * Len(Symbols)

\* Folds in order, and both symbols of a fold.
RunCell ==
    /\ phase = "CELLS" /\ Len(cells) < CellCount
    /\ \E o \in Outcomes :
        LET k == Len(cells) IN
        cells' = Append(cells, CellResult((k \div Len(Symbols)) + 1,
                                          Symbols[(k % Len(Symbols)) + 1], o))
    /\ UNCHANGED <<lab, protocol, parent, phase, summary, failures, status>>

AggregateCandidate ==
    /\ phase = "CELLS" /\ Len(cells) = CellCount
    /\ summary' = Aggregated(cells)
    /\ failures' = GateFailures(Aggregated(cells), Len(cells))
    /\ phase' = "COMPARE"
    /\ UNCHANGED <<lab, protocol, parent, cells, status>>

\* The verdict, and the artifact that carries it.
CompareAndWrite ==
    /\ phase = "COMPARE"
    /\ \E control \in Controls :
        /\ failures' = Compared(summary, control, failures)
        /\ status' = IF Compared(summary, control, failures) = {}
                     THEN "QUALIFIED" ELSE "NOT_QUALIFIED"
    /\ phase' = "WRITTEN"
    /\ UNCHANGED <<lab, protocol, parent, cells, summary>>

Finished == phase \in {"WRITTEN", "REFUSED"} /\ UNCHANGED vars

Next == LoadProtocol \/ RunCell \/ AggregateCandidate \/ CompareAndWrite \/ Finished
Spec == Init /\ [][Next]_vars

-----------------------------------------------------------------------------

AllTrades == FlattenSeq(Field(cells, "trades"))
Written == phase \in {"COMPARE", "WRITTEN"}

\* The figures a candidate is judged by are those of all its trades taken
\* together, although they are only ever summed up cell by cell.
SummaryIsOfAllTrades ==
    Written =>
        /\ summary.completed = Len(AllTrades)
        /\ summary.realized = Total(AllTrades)
        /\ summary.gp = Total(Positive(AllTrades)) /\ summary.gl = -Total(Negative(AllTrades))
        /\ \A x \in ToSet(AllTrades) : x <= summary.largest
        /\ summary.largest > 0 => summary.largest \in ToSet(AllTrades)
        /\ Total([k \in DOMAIN Symbols |-> summary.perSymbol[Symbols[k]]]) = summary.completed

\* A walk-forward run that is judged evaluates no hour twice and trains on
\* nothing it evaluates later.
FoldsNeverOverlap ==
    phase \notin {"START", "REFUSED"} =>
        \A j, k \in DOMAIN Folds :
            /\ j # k => \/ Folds[j].evalEnd <= Folds[k].evalStart
                        \/ Folds[k].evalEnd <= Folds[j].evalStart
            /\ j <= k => Folds[j].trainEnd <= Folds[k].evalStart

\* A qualified candidate does not rest on one lucky trade: whichever trade of
\* whichever cell is taken, the other winners earned their share. HSL-002
\* compares without the outlier gate.
QualifiedIsNotOneTrade ==
    (status = "QUALIFIED" /\ lab # "HSL-002") =>
        \A x \in ToSet(AllTrades) :
            100 * x <= MaxSharePct * Total(Positive(AllTrades))
==============================================================================
