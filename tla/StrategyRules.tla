---------------------------- MODULE StrategyRules ----------------------------
(* The entry and exit rules of the long-only research strategies, evaluated   *)
(* hour by hour on the closed candles that are visible: the two frozen P3     *)
(* candidates (trend pullback, range breakout), their single-filter           *)
(* ablations of HSL-003, and the momentum and volatility-expansion            *)
(* challengers of HSL-004. Prices are whole numbers; a feature is its Decimal *)
(* times Unit, which every division met here leaves whole.                    *)
EXTENDS Integers, Sequences, SequencesExt

CONSTANTS
    Bars,           \* 1h candles the market may print: [lo, hi, cl]
    Contexts,       \* visible 15m candles: sequences of [op, cl]
    Regimes,        \* visible 4h closes
    MaxBars,        \* bound on the 1h history
    Unit,           \* scale of the features
    SmaPeriod, AtrPeriod, PullbackLookback, BreakoutLookback, RewardRisk,
    FastPeriod, SlowPeriod, SpreadPct, SlopePct,
    EntryLookback, ExitLookback, EmaPeriod, RsiPeriod, MinReturnPct,
    MinRsi, MaxRsi, BaselinePeriod, MinExpansionPct, ExitExpansionPct,
    MinLocationPct, MaxExtensionPct, StopPct

VARIABLES
    strategy,       \* the candidate that is run
    primary, context, closes,   \* the snapshot: 1h, 15m and 4h candles
    setup           \* active_setup, or NoSetup when flat

vars == <<strategy, primary, context, closes, setup>>

Strategies == {"TREND_PULLBACK", "RANGE_BREAKOUT", "MOMENTUM", "VOLATILITY"}
Changes == [TREND_PULLBACK |-> {"REMOVE_REGIME", "REMOVE_CONFIRMATION"},
            RANGE_BREAKOUT |-> {"REMOVE_REGIME", "REMOVE_CONFIRMATION",
                                "REMOVE_VOLATILITY_EXTENSION"}]
NoSetup == [ref |-> 0, stop |-> 0, target |-> 0]

-----------------------------------------------------------------------------
(* Features                                                                  *)

LastN(s, n) == SubSeq(s, Len(s) - n + 1, Len(s))
Total(s) == FoldLeft(LAMBDA a, b : a + b, 0, s)
Abs(x) == IF x < 0 THEN -x ELSE x
MaxIn(s) == CHOOSE x \in ToSet(s) : \A y \in ToSet(s) : y <= x
MinIn(s) == CHOOSE x \in ToSet(s) : \A y \in ToSet(s) : x <= y
Field(s, f) == [k \in DOMAIN s |-> s[k][f]]

Insufficient == [ready |-> FALSE, value |-> 0]
Ready(v) == [ready |-> TRUE, value |-> v]

\* FeatureResult: a value only from enough history.
Result(s, required, value) == IF Len(s) < required THEN Insufficient ELSE Ready(value)

SimpleReturn(s, period) ==      \* as the pair of closes it divides
    IF Len(s) < period + 1 THEN [ready |-> FALSE, now |-> 0, then |-> 1]
    ELSE [ready |-> TRUE, now |-> s[Len(s)].cl, then |-> s[Len(s) - period].cl]

RollingHigh(s, period) ==
    IF Len(s) < period THEN Insufficient
    ELSE Ready(Unit * MaxIn(Field(LastN(s, period), "hi")))

RollingLow(s, period) ==
    IF Len(s) < period THEN Insufficient
    ELSE Ready(Unit * MinIn(Field(LastN(s, period), "lo")))

Sma(s, period) ==
    IF Len(s) < period THEN Insufficient
    ELSE Ready((Unit * Total(Field(LastN(s, period), "cl"))) \div period)

\* alpha = 2 / (period + 1)
Ema(s, period) ==
    IF Len(s) < period THEN Insufficient
    ELSE LET cl == Field(s, "cl") IN
         Ready(FoldLeft(LAMBDA e, v : (2 * Unit * v + (period - 1) * e) \div (period + 1),
                        (Unit * Total(SubSeq(cl, 1, period))) \div period,
                        SubSeq(cl, period + 1, Len(cl))))

TrueRanges(s) ==
    [k \in 1..Len(s) - 1 |->
        MaxIn(<<s[k + 1].hi - s[k + 1].lo, Abs(s[k + 1].hi - s[k].cl),
                Abs(s[k + 1].lo - s[k].cl)>>)]

\* Wilder's average of whole numbers, started from a plain mean.
Smoothed(values, period) ==
    FoldLeft(LAMBDA a, v : (a * (period - 1) + Unit * v) \div period,
             (Unit * Total(SubSeq(values, 1, period))) \div period,
             SubSeq(values, period + 1, Len(values)))

Atr(s, period) ==
    IF Len(s) < period + 1 THEN Insufficient
    ELSE Ready(Smoothed(TrueRanges(s), period))

Gains(s) == [k \in 1..Len(s) - 1 |-> MaxIn(<<s[k + 1].cl - s[k].cl, 0>>)]
Losses(s) == [k \in 1..Len(s) - 1 |-> MaxIn(<<s[k].cl - s[k + 1].cl, 0>>)]

\* 100 - 100 / (1 + gain / loss), as a fraction of gain + loss.
Rsi(s, period) ==
    IF Len(s) < period + 1 THEN [ready |-> FALSE, num |-> 0, den |-> 1]
    ELSE LET gain == Smoothed(Gains(s), period)
             loss == Smoothed(Losses(s), period)
         IN  [ready |-> TRUE,
              num |-> IF gain + loss = 0 THEN 50 ELSE 100 * gain,
              den |-> IF gain + loss = 0 THEN 1 ELSE gain + loss]

\* The plain mean of the latest true ranges.
AtrBaseline(s, period) ==
    LET ranges == TrueRanges(s) IN
    IF s = <<>> \/ Len(ranges) < period THEN Insufficient
    ELSE Ready((Unit * Total(LastN(ranges, period))) \div period)

\* _classify: price, fast and slow averages, their spread and the slow slope.
Classify(price, fast, slow, before) ==
    LET spread == 100 * (fast - slow)  slope == 100 * (slow - before) IN
    CASE spread > SpreadPct * slow /\ slope > 0 /\ price > fast -> "TREND_UP"
      [] spread < -(SpreadPct * slow) /\ slope < 0 /\ price < fast -> "TREND_DOWN"
      [] /\ Abs(spread) <= SpreadPct * slow
         /\ Abs(slope) <= SlopePct * before -> "RANGE"
      [] OTHER -> "UNKNOWN"

\* classify_regime: one 4h bar more than the slow average needs.
ClassifyRegime(c) ==
    IF Len(c) < SlowPeriod + 1 THEN "INSUFFICIENT_HISTORY"
    ELSE LET n == Len(c) IN
         Classify(Unit * c[n],
                  (Unit * Total(LastN(c, FastPeriod))) \div FastPeriod,
                  (Unit * Total(LastN(c, SlowPeriod))) \div SlowPeriod,
                  (Unit * Total(SubSeq(c, n - SlowPeriod, n - 1))) \div SlowPeriod)

-----------------------------------------------------------------------------
(* Decisions                                                                 *)

\* StrategyDecision and the ablation's target record.
NoTrade(reason) == [action |-> "NO_TRADE", reason |-> reason, setup |-> NoSetup,
                    passed |-> FALSE, blocked |-> FALSE]
Exit(reason) == [NoTrade(reason) EXCEPT !.action = "EXIT_LONG"]
Enter(reason, s) == [NoTrade(reason) EXCEPT !.action = "ENTER_LONG", !.setup = s]
Targeted(d, passed, blocked) == [d EXCEPT !.passed = passed, !.blocked = blocked]

\* Levels below the close, or none when they make no sense.
SetupAt(close, stop) == [ref |-> close, stop |-> stop,
                         target |-> close + (close - stop) * RewardRisk]
Protects(close, stop) == stop > 0 /\ close > stop

Latest(s) == s[Len(s)]
Confirmed(c) == /\ Len(c) >= 2
                /\ c[Len(c)].cl > c[Len(c)].op
                /\ c[Len(c)].cl > c[Len(c) - 1].cl
CloseLocationOk(bar) ==
    bar.hi > bar.lo /\ 100 * (bar.cl - bar.lo) >= MinLocationPct * (bar.hi - bar.lo)
ExtensionOk(close, boundary, range) ==
    range > 0 /\ 100 * (close - boundary) <= MaxExtensionPct * range

TrendStop(s) == RollingLow(s, PullbackLookback).value - Atr(s, AtrPeriod).value \div 4

\* evaluate_trend_pullback
TrendPullback(s, c, regimeCloses, active) ==
    LET regime  == ClassifyRegime(regimeCloses)
        average == Sma(s, SmaPeriod)
        close   == Unit * Latest(s).cl
    IN  CASE \/ regime = "INSUFFICIENT_HISTORY" \/ ~average.ready
             \/ Len(c) < 2 -> NoTrade("INSUFFICIENT_HISTORY")
          [] active # NoSetup ->
             IF \/ close <= active.stop \/ regime # "TREND_UP"
                \/ close < average.value
             THEN Exit("STRATEGY_EXIT") ELSE NoTrade("HOLD_POSITION")
          [] regime = "UNKNOWN" -> NoTrade("REGIME_UNKNOWN")
          [] regime # "TREND_UP" -> NoTrade("REGIME_BLOCKED")
          [] Unit * Latest(s).lo > average.value \/ close <= average.value ->
             NoTrade("SETUP_ABSENT")
          [] ~Confirmed(c) -> NoTrade("CONFIRMATION_FAILED")
          [] \/ ~Atr(s, AtrPeriod).ready \/ ~RollingLow(s, PullbackLookback).ready ->
             NoTrade("INSUFFICIENT_HISTORY")
          [] ~Protects(close, TrendStop(s)) -> NoTrade("SETUP_ABSENT")
          [] OTHER -> Enter("TREND_PULLBACK_ENTRY", SetupAt(close, TrendStop(s)))

\* evaluate_breakout: the boundary and the range leave the latest candle out.
Breakout(s, c, regimeCloses, active) ==
    LET regime   == ClassifyRegime(regimeCloses)
        boundary == RollingHigh(Front(s), BreakoutLookback)
        range    == Atr(Front(s), AtrPeriod)
        close    == Unit * Latest(s).cl
        stop     == Unit * Latest(s).lo - range.value \div 4
    IN  CASE \/ regime = "INSUFFICIENT_HISTORY"
             \/ ~boundary.ready \/ ~range.ready \/ Len(c) < 2 ->
             NoTrade("INSUFFICIENT_HISTORY")
          [] active # NoSetup ->
             IF \/ close <= active.stop \/ regime # "TREND_UP"
                \/ close <= boundary.value
             THEN Exit("STRATEGY_EXIT") ELSE NoTrade("HOLD_POSITION")
          [] regime = "UNKNOWN" -> NoTrade("REGIME_UNKNOWN")
          [] regime # "TREND_UP" -> NoTrade("REGIME_BLOCKED")
          [] close <= boundary.value -> NoTrade("SETUP_ABSENT")
          [] \/ ~CloseLocationOk(Latest(s))
             \/ ~ExtensionOk(close, boundary.value, range.value) ->
             NoTrade("SETUP_ABSENT")
          [] ~Confirmed(c) -> NoTrade("CONFIRMATION_FAILED")
          [] ~Protects(close, stop) -> NoTrade("SETUP_ABSENT")
          [] OTHER -> Enter("BREAKOUT_ENTRY", SetupAt(close, stop))

-----------------------------------------------------------------------------
(* HSL-003: the same rules written again, with one entry filter removed       *)

\* A removed filter is still measured: it would have passed or blocked.
Removed(change, name, d, ok) ==
    IF change = name THEN Targeted(d, ok, ~ok) ELSE d

EvaluateTrend(s, c, regimeCloses, active, change) ==
    LET regime  == ClassifyRegime(regimeCloses)
        average == Sma(s, SmaPeriod)
        close   == Unit * Latest(s).cl
        \* The target record as far as the evaluation got.
        Marked(d) == Removed(change, "REMOVE_REGIME",
                             Removed(change, "REMOVE_CONFIRMATION", d, Confirmed(c)),
                             regime = "TREND_UP")
        Early(d)  == Removed(change, "REMOVE_REGIME", d, regime = "TREND_UP")
    IN  CASE active # NoSetup -> TrendPullback(s, c, regimeCloses, active)
          [] regime = "INSUFFICIENT_HISTORY" \/ ~average.ready ->
             NoTrade("INSUFFICIENT_HISTORY")
          [] change # "REMOVE_REGIME" /\ regime = "UNKNOWN" -> NoTrade("REGIME_UNKNOWN")
          [] change # "REMOVE_REGIME" /\ regime # "TREND_UP" -> NoTrade("REGIME_BLOCKED")
          [] Unit * Latest(s).lo > average.value \/ close <= average.value ->
             Early(NoTrade("SETUP_ABSENT"))
          [] change # "REMOVE_CONFIRMATION" /\ ~Confirmed(c) ->
             NoTrade("CONFIRMATION_FAILED")
          [] \/ ~Atr(s, AtrPeriod).ready \/ ~RollingLow(s, PullbackLookback).ready ->
             Marked(NoTrade("INSUFFICIENT_HISTORY"))
          [] ~Protects(close, TrendStop(s)) -> Marked(NoTrade("SETUP_ABSENT"))
          [] OTHER -> Marked(Enter("TREND_PULLBACK_ENTRY", SetupAt(close, TrendStop(s))))

EvaluateBreakout(s, c, regimeCloses, active, change) ==
    LET regime   == ClassifyRegime(regimeCloses)
        boundary == RollingHigh(Front(s), BreakoutLookback)
        range    == Atr(Front(s), AtrPeriod)
        close    == Unit * Latest(s).cl
        stop     == Unit * Latest(s).lo - range.value \div 4
        extended == ~ExtensionOk(close, boundary.value, range.value)
        Early(d) == Removed(change, "REMOVE_REGIME", d, regime = "TREND_UP")
        Later(d) == Removed(change, "REMOVE_VOLATILITY_EXTENSION", Early(d), ~extended)
        Marked(d) == Removed(change, "REMOVE_CONFIRMATION", Later(d), Confirmed(c))
    IN  CASE active # NoSetup -> Breakout(s, c, regimeCloses, active)
          [] regime = "INSUFFICIENT_HISTORY" \/ ~boundary.ready \/ ~range.ready ->
             NoTrade("INSUFFICIENT_HISTORY")
          [] change # "REMOVE_REGIME" /\ regime = "UNKNOWN" -> NoTrade("REGIME_UNKNOWN")
          [] change # "REMOVE_REGIME" /\ regime # "TREND_UP" -> NoTrade("REGIME_BLOCKED")
          [] close <= boundary.value -> Early(NoTrade("SETUP_ABSENT"))
          [] ~CloseLocationOk(Latest(s)) -> Early(NoTrade("SETUP_ABSENT"))
          [] change # "REMOVE_VOLATILITY_EXTENSION" /\ extended -> NoTrade("SETUP_ABSENT")
          [] change # "REMOVE_CONFIRMATION" /\ ~Confirmed(c) ->
             Later(NoTrade("CONFIRMATION_FAILED"))
          [] ~Protects(close, stop) -> Marked(NoTrade("SETUP_ABSENT"))
          [] OTHER -> Marked(Enter("BREAKOUT_ENTRY", SetupAt(close, stop)))

EvaluateExperiment(strat, s, c, regimeCloses, active, change) ==
    IF strat = "TREND_PULLBACK"
    THEN EvaluateTrend(s, c, regimeCloses, active, change)
    ELSE EvaluateBreakout(s, c, regimeCloses, active, change)

-----------------------------------------------------------------------------
(* HSL-004: momentum and volatility expansion                                *)

Momentum(s, active) ==
    LET entry == SimpleReturn(s, EntryLookback)
        exit  == SimpleReturn(s, ExitLookback)
        rsi   == Rsi(s, RsiPeriod)
        range == Atr(s, AtrPeriod)
        close == Unit * Latest(s).cl
        stop  == close - (range.value * StopPct) \div 100
    IN  CASE active # NoSetup ->
             IF ~exit.ready THEN NoTrade("INSUFFICIENT_EXIT_HISTORY")
             ELSE IF exit.now <= exit.then THEN Exit("MOMENTUM_REVERSAL_EXIT")
             ELSE NoTrade("HOLD_MOMENTUM_POSITION")
          [] \/ ~entry.ready \/ ~Ema(s, EmaPeriod).ready \/ ~rsi.ready \/ ~range.ready ->
             NoTrade("INSUFFICIENT_ENTRY_HISTORY")
          [] 100 * (entry.now - entry.then) < MinReturnPct * entry.then ->
             NoTrade("ENTRY_RETURN_BELOW_THRESHOLD")
          [] close <= Ema(s, EmaPeriod).value -> NoTrade("PRICE_NOT_ABOVE_EMA")
          [] rsi.num < MinRsi * rsi.den \/ rsi.num > MaxRsi * rsi.den ->
             NoTrade("RSI_OUTSIDE_ENTRY_BAND")
          [] ~Protects(close, stop) -> NoTrade("INVALID_PROTECTIVE_LEVELS")
          [] OTHER -> Enter("MOMENTUM_ENTRY", SetupAt(close, stop))

Volatility(s, active) ==
    LET range    == Atr(s, AtrPeriod)
        baseline == AtrBaseline(s, BaselinePeriod)
        boundary == RollingHigh(Front(s), BreakoutLookback)
        close    == Unit * Latest(s).cl
        stop     == close - (range.value * StopPct) \div 100
    IN  CASE ~range.ready \/ ~baseline.ready \/ baseline.value <= 0 ->
             NoTrade("INSUFFICIENT_HISTORY")
          [] active # NoSetup ->
             IF 100 * range.value <= ExitExpansionPct * baseline.value
             THEN Exit("VOLATILITY_NORMALIZED_EXIT")
             ELSE NoTrade("HOLD_VOLATILITY_POSITION")
          [] ~boundary.ready -> NoTrade("INSUFFICIENT_HISTORY")
          [] 100 * range.value < MinExpansionPct * baseline.value ->
             NoTrade("ATR_EXPANSION_BELOW_THRESHOLD")
          [] close <= boundary.value -> NoTrade("NO_BREAKOUT")
          [] \/ ~CloseLocationOk(Latest(s))
             \/ ~ExtensionOk(close, boundary.value, range.value) ->
             NoTrade("EXPANSION_QUALITY_FILTER")
          [] ~Protects(close, stop) -> NoTrade("INVALID_PROTECTIVE_LEVELS")
          [] OTHER -> Enter("VOLATILITY_EXPANSION_ENTRY", SetupAt(close, stop))

Evaluate(strat, s, c, regimeCloses, active) ==
    CASE strat = "TREND_PULLBACK" -> TrendPullback(s, c, regimeCloses, active)
      [] strat = "RANGE_BREAKOUT" -> Breakout(s, c, regimeCloses, active)
      [] strat = "MOMENTUM"       -> Momentum(s, active)
      [] OTHER                    -> Volatility(s, active)

-----------------------------------------------------------------------------
(* Hours pass; the setup of an entry stays with the position.                 *)

Init ==
    /\ strategy \in Strategies
    /\ primary = <<>> /\ context = <<>> /\ closes = <<>>
    /\ setup = NoSetup

Hour ==
    /\ Len(primary) < MaxBars
    /\ \E bar \in Bars, c \in Contexts, r \in Regimes :
        LET d == Evaluate(strategy, Append(primary, bar), c, r, setup) IN
        /\ primary' = Append(primary, bar) /\ context' = c /\ closes' = r
        /\ setup' = IF d.action = "ENTER_LONG" THEN d.setup
                    ELSE IF d.action = "EXIT_LONG" THEN NoSetup ELSE setup
    /\ UNCHANGED strategy

Next == Hour
Spec == Init /\ [][Next]_vars

-----------------------------------------------------------------------------

Snapshot == primary # <<>>
Decision(active) == Evaluate(strategy, primary, context, closes, active)

\* Every strategy, when it enters, hands over levels a long position can have:
\* a positive stop below the close and a target above it (LongSetup refuses
\* anything else, which would abort the run).
SetupIsOrdered ==
    Snapshot => LET d == Decision(NoSetup) IN
        d.action = "ENTER_LONG" =>
            /\ 0 < d.setup.stop /\ d.setup.stop < d.setup.ref
            /\ d.setup.ref < d.setup.target
            /\ d.setup.ref = Unit * Latest(primary).cl

\* The entry and the exit rules of the frozen P3 candidates agree: on the
\* snapshot that opens a position the exit rule does not ask to close it.
EntryIsNotSelfExit ==
    (Snapshot /\ strategy \in DOMAIN Changes) =>
        LET d == Decision(NoSetup) IN
        d.action = "ENTER_LONG" => Decision(d.setup).action = "NO_TRADE"

\* An ablation differs from its control by exactly the filter it removes:
\* what the control enters it enters too, with the same levels and the filter
\* reported as passed, and what it enters beyond that the filter would have
\* blocked. The rules are written twice in the code.
AblationRemovesOneFilter ==
    (Snapshot /\ strategy \in DOMAIN Changes) =>
        \A change \in Changes[strategy] :
            LET base == Decision(NoSetup)
                d    == EvaluateExperiment(strategy, primary, context, closes, NoSetup, change)
            IN  /\ base.action = "ENTER_LONG" =>
                       d.action = "ENTER_LONG" /\ d.setup = base.setup /\ d.passed
                /\ d.action = "ENTER_LONG" /\ base.action # "ENTER_LONG" => d.blocked
                /\ ~(d.passed /\ d.blocked)
==============================================================================
