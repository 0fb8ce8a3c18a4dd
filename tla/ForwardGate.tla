----------------------------- MODULE ForwardGate -----------------------------
(***************************************************************************)
(* The P10 verdict on forward evidence: the Paper replay of the frozen     *)
(* candidate with its entry veto and safety latch                          *)
(* (yatl/validation/paper_runner.py), the economics recomputed from its    *)
(* fills (economics.py) and the registered gate (gate.py).                 *)
(*                                                                         *)
(* Every run replays the whole prefix from the sealed start, so the state  *)
(* here is what a replay of the first `hour` events holds, and a step adds *)
(* one closed hour to the prefix.  Quote amounts are integers in units of  *)
(* 1/Bps^2, so that no rate rounds; the quantity is fixed (one unit).      *)
(***************************************************************************)
EXTENDS Integers, Sequences, FiniteSets, FiniteSetsExt, SequencesExt

CONSTANTS
  Symbols,
  Candles,        \* hourly candles [open, low, high, close]
  StartMark,      \* close before the first decision
  Risks,          \* distances from the close to the invalidation price
  Capital,        \* initial equity per symbol, in units of price * Bps^2
  Bps, FeeBps, SlippageBps,
  Policy,         \* percentages of RiskPolicy and its streak limit
  Gates,          \* thresholds of EconomicGateRegistry
  WarmupHours,    \* window start to first decision
  DayHours,       \* length of a UTC session
  MaxHours        \* bound on the prefix

GateAssumption ==
  /\ \A c \in Candles : /\ 0 < c.low /\ c.low <= c.open /\ c.low <= c.close
                        /\ c.open <= c.high /\ c.close <= c.high
  /\ Risks \subseteq Nat \ {0} /\ {Capital, Bps, DayHours, MaxHours} \subseteq Nat \ {0}
  /\ Gates.drawdown <= Policy.drawdown
  /\ Gates.positiveSegments <= Gates.segments

VARIABLES
  hour,       \* events replayed
  mark,       \* last primary close per symbol
  account,    \* fill engine position and portfolio ledger per symbol
  tracker,    \* _RiskTracker per symbol
  trace,      \* one row per event and symbol
  trades,     \* completed trades per symbol
  failed      \* the replay of this prefix raises

vars == <<hour, mark, account, tracker, trace, trades, failed>>

Initial == Capital * Bps * Bps

Buy(price) == price * (Bps + SlippageBps) * (Bps + FeeBps)
Sell(price) == price * (Bps - SlippageBps) * (Bps - FeeBps)

FlatAccount ==
  [cash |-> Initial, basis |-> 0, stop |-> 0, target |-> 0, realized |-> 0, closed |-> 0]

Held(a) == a.basis > 0

\* PortfolioLedger.snapshot: a position counts at its net liquidation value.
Equity(a, price) == a.cash + (IF Held(a) THEN Sell(price) ELSE 0)

FreshTracker ==
  [peak |-> Initial, day |-> -1, dayEquity |-> 0, dayPnl |-> 0,
   realized |-> 0, closed |-> 0, streak |-> 0, latched |-> FALSE]

Init ==
  /\ hour = 0
  /\ mark = [s \in Symbols |-> StartMark]
  /\ account = [s \in Symbols |-> FlatAccount]
  /\ tracker = [s \in Symbols |-> FreshTracker]
  /\ trace = [s \in Symbols |-> <<>>]
  /\ trades = [s \in Symbols |-> <<>>]
  /\ failed = FALSE

(***************************************************************************)
(* The safety latch and the entry veto                                     *)
(***************************************************************************)
Loss(pnl) == IF pnl < 0 THEN -pnl ELSE 0

\* amount is at least percent of whole
Reaches(amount, percent, whole) == amount * 100 >= percent * whole

\* At the first event of a day: the old session's loss, with the close of its
\* last hour, which is only observed now.
OldSessionBreached(t, delta) == Reaches(Loss(t.dayPnl + delta), Policy.session, t.dayEquity)

\* _RiskTracker.observe, before the decision of the event.
Observe(t, a, price) ==
  LET equity == Equity(a, price)
      delta == a.realized - t.realized
      day == (WarmupHours + hour) \div DayHours
      first == t.day = -1
      rolls == ~first /\ day # t.day
      streak == IF a.closed = t.closed THEN t.streak
                ELSE IF delta < 0 THEN t.streak + 1 ELSE 0
      dayEquity == IF first \/ rolls THEN equity ELSE t.dayEquity
      dayPnl == IF first \/ rolls THEN 0 ELSE t.dayPnl + delta
      peak == Max({t.peak, equity})
  IN  [peak |-> peak, day |-> day, dayEquity |-> dayEquity, dayPnl |-> dayPnl,
       realized |-> a.realized, closed |-> a.closed, streak |-> streak,
       latched |-> \/ t.latched
                   \/ rolls /\ OldSessionBreached(t, delta)
                   \/ Reaches(peak - equity, Policy.drawdown, peak)
                   \/ Reaches(Loss(dayPnl), Policy.session, dayEquity)
                   \/ streak >= Policy.streak]

Setup(price, risk) == [entry |-> price, stop |-> price - risk, target |-> price + 2 * risk]

\* assess_fixed_quantity_entry: some reason forbids the fixed quantity.
Veto(t, a, price, p) ==
  LET equity == Equity(a, price)
      notional == p.entry * (Bps + SlippageBps) * Bps
  IN  \/ t.latched
      \/ Reaches(Loss(t.dayPnl), Policy.session, t.dayEquity)
      \/ Reaches(t.peak - equity, Policy.drawdown, t.peak)
      \/ t.streak >= Policy.streak
      \/ Held(a)
      \/ Buy(p.entry) > a.cash
      \/ notional * 100 > Policy.position * equity
      \/ (Buy(p.entry) - Sell(p.stop)) * 100 > Policy.risk * equity
      \/ ~(0 < p.stop * (Bps - SlippageBps))
      \/ ~(p.entry * (Bps + SlippageBps) < p.target * (Bps - SlippageBps))
      \/ Sell(p.target) <= Buy(p.entry)

(***************************************************************************)
(* One event of the replay                                                 *)
(***************************************************************************)
\* What the strategy sees in an hour: the regime of the closed 4h bars, a
\* signal of the frozen rule with its setup, and the next candle.
Observations ==
  [regime : {"TREND_UP", "RANGE", "UNKNOWN"}, signal : BOOLEAN, risk : Risks,
   candle : Candles]

\* evaluate_trend_pullback: enter on a signal in an up-trend, leave when the
\* trend or the signal's average is lost or the close is below the stop.
Decision(a, price, o) ==
  IF Held(a)
  THEN IF price <= a.stop \/ o.regime # "TREND_UP" \/ ~o.signal THEN "EXIT_LONG" ELSE "NO_TRADE"
  ELSE IF o.regime = "TREND_UP" /\ o.signal /\ price - o.risk > 0
       THEN "ENTER_LONG" ELSE "NO_TRADE"

OpenInBracket(p, candle) == p.stop < candle.open /\ candle.open < p.target

Close(a, price) ==
  [FlatAccount EXCEPT !.cash = a.cash + Sell(price),
                      !.realized = a.realized + Sell(price) - a.basis,
                      !.closed = a.closed + 1]

\* PaperFillEngine._protective_exit: a gap through the stop fills at the open,
\* and the stop has priority inside a candle.
ProtectiveExit(a, candle) ==
  IF candle.open <= a.stop THEN {Close(a, candle.open)}
  ELSE IF candle.open >= a.target THEN {Close(a, a.target)}
  ELSE IF candle.low <= a.stop THEN {Close(a, a.stop)}
  ELSE IF candle.high >= a.target THEN {Close(a, a.target)} ELSE {}

AfterProtection(a, candle) ==
  IF ProtectiveExit(a, candle) = {} THEN a ELSE CHOOSE b \in ProtectiveExit(a, candle) : TRUE

Open(a, p, candle) ==
  [a EXCEPT !.cash = @ - Buy(candle.open), !.basis = Buy(candle.open),
            !.stop = p.stop, !.target = p.target]

\* PaperFillEngine.process and PortfolioLedger.apply_many.
Process(a, intent, p, candle) ==
  CASE intent = "EXIT_LONG" -> Close(a, candle.open)
    [] intent = "ENTER_LONG" -> AfterProtection(Open(a, p, candle), candle)
    [] OTHER -> IF Held(a) THEN AfterProtection(a, candle) ELSE a

\* The loop body of _run_symbol for symbol s under observation o.
Event(s, o) ==
  LET a == account[s]
      t == Observe(tracker[s], a, mark[s])
      p == Setup(mark[s], o.risk)
      action == Decision(a, mark[s], o)
      vetoed == action = "ENTER_LONG" /\ Veto(t, a, mark[s], p)
      intent == IF vetoed THEN "NO_TRADE" ELSE action
      after == Process(a, intent, p, o.candle)
  IN  [raises |-> intent = "ENTER_LONG" /\ ~OpenInBracket(p, o.candle),
       tracker |-> t,
       account |-> after,
       row |-> [equity |-> Equity(a, mark[s]), latched |-> t.latched,
                action |-> action, vetoed |-> vetoed,
                entered |-> intent = "ENTER_LONG", regime |-> o.regime],
       closes |-> IF after.closed = a.closed THEN <<>>
                  ELSE <<[exit |-> WarmupHours + hour, pnl |-> after.realized - a.realized]>>]

\* One more hour: an exception of the fill engine is not one of those _run_symbol
\* or _pipeline turns into a report, so the replay of this and of every longer
\* prefix raises.
Hour(o) ==
  LET e == [s \in Symbols |-> Event(s, o[s])]
  IN  /\ ~failed /\ hour < MaxHours
      /\ IF \E s \in Symbols : e[s].raises
         THEN failed' = TRUE /\ UNCHANGED <<hour, mark, account, tracker, trace, trades>>
         ELSE /\ hour' = hour + 1
              /\ mark' = [s \in Symbols |-> o[s].candle.close]
              /\ account' = [s \in Symbols |-> e[s].account]
              /\ tracker' = [s \in Symbols |-> e[s].tracker]
              /\ trace' = [s \in Symbols |-> Append(trace[s], e[s].row)]
              /\ trades' = [s \in Symbols |-> trades[s] \o e[s].closes]
              /\ UNCHANGED failed

Next == \E o \in [Symbols -> Observations] : Hour(o)

Spec == Init /\ [][Next]_vars

(***************************************************************************)
(* Economics of the prefix                                                 *)
(***************************************************************************)
Total(f) == FoldFunction(LAMBDA x, y : x + y, 0, f)

Pnls(q) == [i \in DOMAIN q |-> q[i].pnl]

EvaluatedHours == WarmupHours + hour

FinalEquity(s) == Equity(account[s], mark[s])

Unrealized(s) == (IF Held(account[s]) THEN Sell(mark[s]) ELSE 0) - account[s].basis

NetPnl(s) == FinalEquity(s) - Initial

PooledNet == Total([s \in Symbols |-> NetPnl(s)])

PooledCapital == Initial * Cardinality(Symbols)

\* Profit and loss of the trades closed in hour h, over all symbols.
ClosedAt(h) ==
  Total([s \in Symbols |->
           Total(Pnls(SelectSeq(trades[s], LAMBDA x : x.exit = h)))])

\* Simultaneous closes are one pooled event.
RealizedCurve ==
  [i \in 1..(hour + 1) |->
     PooledCapital + Total([h \in WarmupHours..(WarmupHours + i - 2) |-> ClosedAt(h)])]

SampledCurve ==
  [i \in 1..(hour + 2) |->
     IF i = 1 THEN PooledCapital
     ELSE Total([s \in Symbols |->
                   IF i = hour + 2 THEN FinalEquity(s) ELSE trace[s][i - 1].equity])]

PeakOf(curve, i) == Max({curve[j] : j \in 1..i})

\* _drawdown: the deepest fraction lost from a running peak exceeds percent.
DrawdownAbove(curve, percent) ==
  \E i \in DOMAIN curve :
    (PeakOf(curve, i) - curve[i]) * 100 > percent * PeakOf(curve, i)

PooledTrades == Total([s \in Symbols |-> Len(trades[s])])

GrossProfit ==
  Total([s \in Symbols |-> Total(Pnls(SelectSeq(trades[s], LAMBDA x : x.pnl > 0)))])

GrossLoss ==
  -Total([s \in Symbols |-> Total(Pnls(SelectSeq(trades[s], LAMBDA x : x.pnl < 0)))])

\* _assemble: the minimum sample, pooled and per symbol.
SampleMet ==
  /\ EvaluatedHours >= Gates.hours
  /\ PooledTrades >= Gates.trades
  /\ \A s \in Symbols : Len(trades[s]) >= Gates.tradesPerSymbol

(***************************************************************************)
(* The gate                                                                *)
(***************************************************************************)
\* The equal time segment a trade belongs to, by its exit.
SegmentOf(exit) == Min({(exit * Gates.segments) \div EvaluatedHours, Gates.segments - 1}) + 1

\* _segment_summary: completed trades by exit, open positions in the last one.
SegmentPnl(k) ==
  Total([s \in Symbols |->
           Total(Pnls(SelectSeq(trades[s], LAMBDA x : SegmentOf(x.exit) = k)))
             + (IF k = Gates.segments THEN Unrealized(s) ELSE 0)])

Waiting(passes) == IF ~SampleMet THEN "INSUFFICIENT_DATA" ELSE IF passes THEN "PASS" ELSE "FAIL"

Profitability ==
  Waiting(/\ Reaches(PooledNet, Gates.return, PooledCapital)
          /\ GrossLoss > 0 /\ GrossProfit * 100 >= Gates.profitFactor * GrossLoss)

MaxDrawdown ==
  IF DrawdownAbove(RealizedCurve, Gates.drawdown) \/ DrawdownAbove(SampledCurve, Gates.drawdown)
  THEN "FAIL" ELSE IF SampleMet THEN "PASS" ELSE "INSUFFICIENT_DATA"

SampleSize == IF SampleMet THEN "PASS" ELSE "INSUFFICIENT_DATA"

Consistency ==
  Waiting(/\ Cardinality({k \in 1..Gates.segments : SegmentPnl(k) > 0}) >= Gates.positiveSegments
          /\ \A k \in 1..Gates.segments :
               SegmentPnl(k) * 100 >= -(Gates.segmentLoss * PooledCapital)
          /\ \A s \in Symbols : NetPnl(s) > 0)

EntriesOutside ==
  {<<s, i>> \in Symbols \X (1..hour) : trace[s][i].entered /\ trace[s][i].regime # "TREND_UP"}

Observed == {trace[s][i].regime : s \in Symbols, i \in 1..hour} \ {"UNKNOWN"}

RegimeStability ==
  IF EntriesOutside # {} THEN "FAIL" ELSE Waiting(Cardinality(Observed) >= Gates.regimes)

EntriesWhileLatched ==
  {<<s, i>> \in Symbols \X (1..hour) : trace[s][i].entered /\ trace[s][i].latched}

FailureRecovery ==
  IF EntriesWhileLatched = {} /\ \A s \in Symbols : ~tracker[s].latched THEN "PASS" ELSE "FAIL"

\* An entry signal is entered unless vetoed; nothing else enters.
FollowsVeto(row) == row.entered <=> (row.action = "ENTER_LONG" /\ ~row.vetoed)

RiskControls ==
  IF \A s \in Symbols : \A i \in 1..hour : FollowsVeto(trace[s][i]) THEN "PASS" ELSE "FAIL"

Criteria == <<Profitability, MaxDrawdown, SampleSize, Consistency, RegimeStability,
              FailureRecovery, RiskControls>>

Disposition ==
  CASE \E i \in DOMAIN Criteria : Criteria[i] = "FAIL" -> "FAIL"
    [] \E i \in DOMAIN Criteria : Criteria[i] = "INSUFFICIENT_DATA" -> "INSUFFICIENT_DATA"
    [] OTHER -> "PASS_CANDIDATE"

(***************************************************************************)
(* Properties                                                              *)
(***************************************************************************)
\* Every variable keeps to its type and the rows and trades are one per event:
\* an hour closes at most one trade per symbol, of a position the ledger held.
TypeOK ==
  /\ hour \in 0..MaxHours /\ failed \in BOOLEAN
  /\ \A s \in Symbols :
       /\ mark[s] \in Nat \ {0}
       /\ account[s].cash \in Nat /\ account[s].basis \in Nat
       /\ Held(account[s]) <=> account[s].stop < account[s].target
       /\ account[s].closed = Len(trades[s]) /\ Len(trades[s]) <= hour
       /\ Len(trace[s]) = hour
       /\ tracker[s].streak \in 0..hour /\ tracker[s].latched \in BOOLEAN
       /\ \A i \in DOMAIN trades[s] : trades[s][i].exit \in WarmupHours..(EvaluatedHours - 1)

\* Every economic reconciliation the report insists on holds on every prefix, so
\* no prefix is refused as inconsistent: equity, realized and unrealized profit
\* agree (_reconcile_symbol), and the segments add up to the pooled net profit
\* although the open position counts in the last one (_segment_summary).
EvidenceReconciles ==
  /\ \A s \in Symbols :
       /\ Total(Pnls(trades[s])) = account[s].realized
       /\ NetPnl(s) = account[s].realized + Unrealized(s)
  /\ hour > 0 => Total([k \in 1..Gates.segments |-> SegmentPnl(k)]) = PooledNet

DayOf(h) == (WarmupHours + h) \div DayHours

\* The row that opens the session of row i's day (row i is event i - 1).
SessionRow(s, i) == Min({j \in 1..i : DayOf(j - 1) = DayOf(i - 1)})

\* Realized profit and loss of the session of row j's day before event h.
SessionPnl(s, j, h) ==
  Total(Pnls(SelectSeq(trades[s], LAMBDA x :
    x.exit >= WarmupHours + j - 1 /\ x.exit < WarmupHours + h
      /\ x.exit \div DayHours = DayOf(j - 1))))

\* A day whose closed trades lose the session limit latches the stop, also when
\* the losing trade closes in the last hour of the day and is only seen by the
\* first event of the next one.
SessionLossLatches ==
  \A s \in Symbols : \A i \in 1..hour : \A j \in 1..i :
    (/\ j = SessionRow(s, j)
     /\ DayOf(i - 1) - DayOf(j - 1) \in {0, 1}
     /\ Reaches(Loss(SessionPnl(s, j, i - 1)), Policy.session, trace[s][j].equity))
      => trace[s][i].latched

\* No entry is made at or after an hour whose equity was down by the drawdown
\* limit from its peak, nor after a losing streak, whatever happened since (the
\* latch has no reset).
NoEntryAfterBreach ==
  \A s \in Symbols : \A i \in 1..hour : trace[s][i].entered =>
    /\ \A j \in 1..i :
         LET peak == Max({trace[s][k].equity : k \in 1..j} \cup {Initial})
         IN  ~Reaches(peak - trace[s][j].equity, Policy.drawdown, peak)
    /\ ~\E k \in DOMAIN trades[s] :
         /\ k + Policy.streak - 1 <= Len(trades[s])
         /\ trades[s][k + Policy.streak - 1].exit < WarmupHours + i - 1
         /\ \A n \in 0..(Policy.streak - 1) : trades[s][k + n].pnl < 0

\* A breach of the validation drawdown or a latched stop fails every longer
\* prefix too, and a sample once met stays met: no later evidence turns the
\* verdict back (the final mark of a prefix is the next event's mark).
HardFailureIsFinalStep ==
  /\ MaxDrawdown = "FAIL" => MaxDrawdown' = "FAIL"
  /\ FailureRecovery = "FAIL" => FailureRecovery' = "FAIL"
  /\ SampleMet => SampleMet'

HardFailureIsFinal == [][HardFailureIsFinalStep]_vars

\* A candidate only passes with money made: the pooled equity is above the
\* capital by the registered return, no symbol lost, no prefix of the sampled
\* equity was down by more than the gate, and no latch was ever set.
PassIsEarned ==
  Disposition = "PASS_CANDIDATE" =>
    /\ Total([s \in Symbols |-> FinalEquity(s)]) * 100 >= (100 + Gates.return) * PooledCapital
    /\ \A s \in Symbols : FinalEquity(s) > Initial /\ \A i \in 1..hour : ~trace[s][i].latched
    /\ \A i \in 1..hour, j \in 1..hour : i <= j =>
         Total([s \in Symbols |-> trace[s][j].equity]) * 100
           >= (100 - Gates.drawdown) * Total([s \in Symbols |-> trace[s][i].equity])

\* After the warm-up every prefix has a summary.
SummaryAfterWarmup == ~failed
=============================================================================
