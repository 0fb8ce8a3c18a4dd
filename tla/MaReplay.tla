------------------------------- MODULE MaReplay -------------------------------
(* The moving-average cell, which the repository writes five times: the       *)
(* binary64 search (HSSE-002), its exact recomputation (HSSE-003), the blind  *)
(* replay (HSSE-004B), the certification of a crisis unit (HSSE-005) and the  *)
(* stop-loss overlay (GEN2-001). All five are run here side by side over one  *)
(* candle series, a bar at a time, so that they can be compared. Amounts are  *)
(* in units of 1/10000: fees and slippages are whole percents of a price.     *)
EXTENDS Integers, Sequences, FiniteSets

CONSTANTS
    Hours, Prices,  \* candle series of that many bars, closing at these prices
    Holes,          \* bars a missing hour may stand before; 0 for none
    Families,       \* subset of FamilyIds that is run
    Short, Long,    \* the two windows of the trial, Short < Long
    Start, End,     \* the fold: bars Start .. End - 1
    Score,          \* first scored bar of the crisis unit; Start is its lead-in
    Initial,        \* initial equity of a cell
    BaseFee, BaseSlip, StressFee, StressSlip,
    StopPercent,    \* threshold of the overlay
    QuarterLen      \* hours of a calendar quarter

WindowsAssumption == Short \in Nat \ {0} /\ Long \in Nat /\ Short < Long
FoldAssumption == Start \in Nat \ {0} /\ Start < Score /\ Score < End

VARIABLES
    series, family,
    grid,           \* the two indicator series of the trial, compared
    i,              \* the bar every cell works on
    search, exact, blind, unit, overlay,
    report          \* what the cells return, when the fold is over

vars == <<series, family, grid, i, search, exact, blind, unit, overlay, report>>

FamilyIds == {"TREND_MA_SMA", "TREND_MA_EMA", "TREND_MA_DEMA"}
Bars == DOMAIN series
Greater(a, b) == IF a > b THEN a ELSE b

-----------------------------------------------------------------------------
(* Indicators                                                                *)

Contiguous(k) == k > 1 /\ k \in Bars /\ series[k].t = series[k - 1].t + 1

\* Bars of the contiguous segment that ends in bar k.
RunLength(k) ==
    LET first == CHOOSE j \in 1 .. k : /\ j = 1 \/ ~Contiguous(j)
                                       /\ \A n \in (j + 1) .. k : Contiguous(n)
    IN  k - first + 1

\* The mean of the last w closes, times w.
RollingSum(k, w) ==
    LET sum[n \in 0 .. w] == IF n = 0 THEN 0 ELSE sum[n - 1] + series[k - n + 1].close
    IN  sum[w]

\* The two recursive averages of a segment: after r + 1 of its bars ema1 is over
\* (w + 1)^r and ema2 over (w + 1)^(r + 1).
Averages(k, w) ==
    LET last == RunLength(k) - 1
        price(r) == series[k - last + r].close
        ema1[r \in 0 .. last] ==
            IF r = 0 THEN price(0)
            ELSE 2 * price(r) * (w + 1)^(r - 1) + (w - 1) * ema1[r - 1]
        ema2[r \in 0 .. last] ==
            IF r = 0 THEN (w + 1) * price(0) ELSE 2 * ema1[r] + (w - 1) * ema2[r - 1]
    IN  [ema1 |-> ema1[last] * (w + 1), ema2 |-> ema2[last], over |-> (w + 1)^(last + 1)]

\* _indicator_series: a fraction, once the window is full.
Indicator(k, w) ==
    IF family = "TREND_MA_SMA" THEN [num |-> RollingSum(k, w), den |-> w]
    ELSE LET a == Averages(k, w)
         IN  [den |-> a.over,
              num |-> IF family = "TREND_MA_EMA" THEN a.ema1 ELSE 2 * a.ema1 - a.ema2]

\* The two indicators of a bar, as far as the cells look at them: both finite, and
\* the sign of short minus long.
Compared(k) ==
    LET known == RunLength(k) >= Short /\ RunLength(k) >= Long
        s     == Indicator(k, Short)
        l     == Indicator(k, Long)
    IN  [known |-> known, spread |-> IF known THEN s.num * l.den - l.num * s.den ELSE 0]

\* A cross is a change of sign between two neighbouring bars.
Usable(k) == k > 1 /\ grid[k].known /\ grid[k - 1].known
CrossUp(k) == grid[k].spread > 0 /\ grid[k - 1].spread <= 0

CrossDown(k) == grid[k].spread < 0 /\ grid[k - 1].spread >= 0

\* The next hour exists and belongs to the fold.
Fillable(k) == k + 1 < End /\ Contiguous(k + 1)

-----------------------------------------------------------------------------
(* Accounts                                                                  *)

NewAccount == [cash |-> Initial, debit |-> 0, open |-> FALSE, realized |-> 0,
               wins |-> 0, losses |-> 0]

BuyDebit(price, fee, slip) == price * (100 + slip) * (100 + fee)
SaleProceeds(price, fee, slip) == price * (100 - slip) * (100 - fee)

\* _entry
Entered(a, price, fee, slip) ==
    LET debit == BuyDebit(price, fee, slip)
    IN  [a EXCEPT !.cash = @ - debit, !.debit = debit, !.open = TRUE]

\* _exit
Exited(a, price, fee, slip) ==
    LET proceeds == SaleProceeds(price, fee, slip)
        pnl      == proceeds - a.debit
    IN  [a EXCEPT !.cash = @ + proceeds, !.debit = 0, !.open = FALSE,
                  !.realized = @ + pnl,
                  !.wins = IF pnl > 0 THEN @ + 1 ELSE @,
                  !.losses = IF pnl < 0 THEN @ + 1 ELSE @]

\* _equity: an open position is worth what its sale would bring.
Liquidated(a, mark, fee, slip) ==
    a.cash + (IF a.open THEN SaleProceeds(mark, fee, slip) ELSE 0)

\* Entry and exit of both accounts of a cell.
EnterBoth(c, price) ==
    [c EXCEPT !.base = Entered(@, price, BaseFee, BaseSlip),
              !.stress = Entered(@, price, StressFee, StressSlip),
              !.position = TRUE]
ExitBoth(c, price) ==
    [c EXCEPT !.base = Exited(@, price, BaseFee, BaseSlip),
              !.stress = Exited(@, price, StressFee, StressSlip),
              !.position = FALSE]

\* An account that cannot pay for the entry raises and ends the cell.
CanPay(c, price) ==
    /\ BuyDebit(price, BaseFee, BaseSlip) <= c.base.cash
    /\ BuyDebit(price, StressFee, StressSlip) <= c.stress.cash

BaseEquity(c, mark) == Liquidated(c.base, mark, BaseFee, BaseSlip)
StressEquity(c, mark) == Liquidated(c.stress, mark, StressFee, StressSlip)

\* The peak and the deepest fall from it, in parts of a thousand.
Drawn(c, eq) ==
    LET peak == Greater(c.peak, eq)
    IN  [c EXCEPT !.peak = peak, !.drawdown = Greater(@, ((peak - eq) * 1000) \div peak)]

-----------------------------------------------------------------------------
(* The five cells, one bar                                                   *)

NewCell == [base |-> NewAccount, stress |-> NewAccount, position |-> FALSE,
            peak |-> Initial, drawdown |-> 0, entries |-> 0, exits |-> 0,
            missing |-> 0, failed |-> FALSE]

\* _cell (HSSE-002) keeps its books inline and marks without liquidation costs.
SearchBuy(a, price, fee, slip) ==
    LET gross == price * (100 + slip)
    IN  [a EXCEPT !.cash = @ - (gross * 100 + gross * fee),
                  !.debit = gross * 100 + gross * fee, !.open = TRUE]
SearchSell(a, price, fee, slip) ==
    LET gross    == price * (100 - slip)
        proceeds == gross * 100 - gross * fee
    IN  [a EXCEPT !.cash = @ + proceeds, !.open = FALSE, !.debit = 0,
                  !.realized = @ + (proceeds - a.debit),
                  !.wins = IF proceeds > a.debit THEN @ + 1 ELSE @,
                  !.losses = IF proceeds < a.debit THEN @ + 1 ELSE @]
SearchEquity(a, mark) == a.cash + (IF a.open THEN mark * 10000 ELSE 0)

SearchBar(c) ==
    LET marked == Drawn(c, SearchEquity(c.base, series[i].close))
        enter  == Usable(i) /\ ~c.position /\ CrossUp(i)
        exit   == Usable(i) /\ c.position /\ CrossDown(i)
        price  == series[i + 1].open
    IN  IF ~enter /\ ~exit THEN marked
        ELSE IF ~Fillable(i) THEN [marked EXCEPT !.missing = @ + 1]
        ELSE IF enter /\ ~CanPay(c, price) THEN [c EXCEPT !.failed = TRUE]
        ELSE IF enter
        THEN [marked EXCEPT !.base = SearchBuy(@, price, BaseFee, BaseSlip),
                            !.stress = SearchBuy(@, price, StressFee, StressSlip),
                            !.position = TRUE, !.entries = @ + 1]
        ELSE [marked EXCEPT !.base = SearchSell(@, price, BaseFee, BaseSlip),
                            !.stress = SearchSell(@, price, StressFee, StressSlip),
                            !.position = FALSE, !.exits = @ + 1]

\* The trade of an exact cell, or the count of a fill that is missing.
Traded(c, enter, exit) ==
    IF ~(enter \/ exit) THEN c
    ELSE IF ~Fillable(i) THEN [c EXCEPT !.missing = @ + 1]
    ELSE IF exit THEN [ExitBoth(c, series[i + 1].open) EXCEPT !.exits = @ + 1]
    ELSE IF ~CanPay(c, series[i + 1].open) THEN [c EXCEPT !.failed = TRUE]
    ELSE [EnterBoth(c, series[i + 1].open) EXCEPT !.entries = @ + 1]

\* _exact_cell (HSSE-003)
ExactBar(c) ==
    LET marked == Drawn(c, BaseEquity(c, series[i].close))
    IN  IF ~Usable(i) THEN marked
        ELSE Traded(marked, ~c.position /\ CrossUp(i), c.position /\ CrossDown(i))

\* _simulate_symbol (HSSE-004B) also splits the equity into calendar quarters.
NewBlind == [cell |-> NewCell, quarter |-> -1, opening |-> Initial, last |-> Initial,
             quarters |-> <<>>]

QuarterOf(k) == series[k].t \div QuarterLen

QuarterRolled(b, eq) ==
    IF b.quarter = -1 \/ QuarterOf(i) = b.quarter THEN b
    ELSE [b EXCEPT !.quarters = Append(@, b.last - b.opening), !.opening = b.last]

BlindBar(b) ==
    LET eq     == BaseEquity(b.cell, series[i].close)
        marked == Drawn(b.cell, eq)
        traded == IF ~Usable(i) THEN marked
                  ELSE Traded(marked, ~b.cell.position /\ CrossUp(i),
                                      b.cell.position /\ CrossDown(i))
    IN  [QuarterRolled(b, eq) EXCEPT !.quarter = QuarterOf(i), !.last = eq, !.cell = traded]

\* _simulate_unit_symbol (HSSE-005): trades from the lead-in on, scores from Score
\* on. A signal is filled when its bar comes. flow is the cash moved by scored fills.
NewUnit == [cell |-> NewCell, pending |-> "NONE", baseline |-> 0, stressBaseline |-> 0,
            atStart |-> FALSE, entries |-> 0, exits |-> 0, flow |-> 0]

Baselined(u) ==
    IF i # Score THEN u
    ELSE [u EXCEPT !.baseline = BaseEquity(u.cell, series[i].open),
                   !.stressBaseline = StressEquity(u.cell, series[i].open),
                   !.cell.peak = BaseEquity(u.cell, series[i].open),
                   !.atStart = u.cell.position]

PendingFilled(u) ==
    LET price  == series[i].open
        filled == IF u.pending = "ENTER" THEN EnterBoth(u.cell, price)
                  ELSE ExitBoth(u.cell, price)
        one    == IF i >= Score THEN 1 ELSE 0
    IN  IF u.pending = "NONE" THEN u
        ELSE IF u.pending = "ENTER" /\ ~CanPay(u.cell, price)
        THEN [u EXCEPT !.cell.failed = TRUE]
        ELSE [u EXCEPT !.pending = "NONE", !.cell = filled,
                       !.entries = IF u.pending = "ENTER" THEN @ + one ELSE @,
                       !.exits = IF u.pending = "EXIT" THEN @ + one ELSE @,
                       !.flow = @ + one * (filled.base.cash - u.cell.base.cash)]

Scored(u) ==
    IF i < Score THEN u
    ELSE [u EXCEPT !.cell = Drawn(@, BaseEquity(@, series[i].close))]

Signalled(u) ==
    LET action == IF ~u.cell.position /\ CrossUp(i) THEN "ENTER"
                  ELSE IF u.cell.position /\ CrossDown(i) THEN "EXIT" ELSE "NONE"
    IN  IF i <= Start \/ ~Usable(i) \/ action = "NONE" THEN u
        ELSE IF ~Fillable(i) THEN [u EXCEPT !.cell.missing = @ + 1]
        ELSE [u EXCEPT !.pending = action]

\* The baseline taken after the fill of the first scored hour.
UnitBarFillFirst(u) == Signalled(Scored(Baselined(PendingFilled(u))))

UnitBar(u) ==
    LET filled == PendingFilled(Baselined(u))
    IN  IF filled.cell.failed THEN filled ELSE Signalled(Scored(filled))

\* GEN2-001 _simulate_cell: the control without a threshold, the overlay with one.
NewOverlay == [cell |-> NewCell, reference |-> 0, ordinary |-> 0, stops |-> 0,
               dual |-> 0, missedStop |-> 0]

StopHit(o) == o.cell.position /\ 100 * series[i].close <= o.reference * (100 - StopPercent)

\* One exit for a crossing, a stop or both; a stop that cannot be filled is counted
\* apart from a missing signal.
OverlayTraded(o, marked, stop) ==
    LET enter  == ~o.cell.position /\ CrossUp(i)
        cross  == o.cell.position /\ CrossDown(i)
        next   == Traded(marked, enter, cross \/ stop)
        missed == stop /\ ~Fillable(i)
        one(b) == IF b /\ next.exits > marked.exits THEN 1 ELSE 0
    IN  [o EXCEPT !.cell = IF missed THEN [next EXCEPT !.missing = marked.missing] ELSE next,
                  !.missedStop = IF missed THEN @ + 1 ELSE @,
                  !.reference = IF enter /\ next.position THEN series[i + 1].open
                                ELSE IF next.position THEN @ ELSE 0,
                  !.dual = @ + one(cross /\ stop),
                  !.stops = @ + one(stop /\ ~cross),
                  !.ordinary = @ + one(cross /\ ~stop)]

OverlayBar(o, threshold) ==
    LET marked == Drawn(o.cell, BaseEquity(o.cell, series[i].close))
    IN  IF ~Usable(i) THEN [o EXCEPT !.cell = marked]
        ELSE OverlayTraded(o, marked, threshold /\ StopHit(o))

-----------------------------------------------------------------------------
(* The fold                                                                  *)

\* _series_for_symbol, _exact_series: sorted closed candles, each opened at the
\* previous close; the series may have a hole.
Candles(closes, hole) ==
    [k \in 1 .. Hours |->
        [t |-> IF hole # 0 /\ k >= hole THEN k + 1 ELSE k,
         open |-> closes[IF k = 1 THEN 1 ELSE k - 1],
         close |-> closes[k]]]

NoReport == [done |-> FALSE]
Running == ~search.failed /\ ~exact.failed /\ ~blind.cell.failed
           /\ ~unit.cell.failed /\ ~overlay.stop.cell.failed

Init ==
    /\ \E closes \in [1 .. Hours -> Prices], hole \in Holes : series = Candles(closes, hole)
    /\ family \in Families
    /\ grid = [k \in 1 .. Hours |-> Compared(k)]
    /\ i = Start
    /\ search = NewCell /\ exact = NewCell /\ blind = NewBlind /\ unit = NewUnit
    /\ overlay = [control |-> NewOverlay, stop |-> NewOverlay]
    /\ report = NoReport

\* The cells do not share state: each handles its own bar i.
Bar ==
    /\ i < End /\ Running
    /\ i' = i + 1
    /\ search' = SearchBar(search)
    /\ exact' = ExactBar(exact)
    /\ blind' = BlindBar(blind)
    /\ unit' = UnitBar(unit)
    /\ overlay' = [control |-> OverlayBar(overlay.control, FALSE),
                   stop |-> OverlayBar(overlay.stop, TRUE)]
    /\ UNCHANGED <<series, family, grid, report>>

\* The results are marked at the last close of the fold.
FinalMark == series[End - 1].close
ExactResult(c) == [net |-> BaseEquity(c, FinalMark) - Initial,
                   stressNet |-> StressEquity(c, FinalMark) - Initial,
                   drawdown |-> Drawn(c, BaseEquity(c, FinalMark)).drawdown]
SearchResult == [net |-> SearchEquity(search.base, FinalMark) - Initial,
                 stressNet |-> SearchEquity(search.stress, FinalMark) - Initial,
                 drawdown |-> search.drawdown]
UnitResult == [net |-> BaseEquity(unit.cell, FinalMark) - unit.baseline,
               stressNet |-> StressEquity(unit.cell, FinalMark) - unit.stressBaseline,
               drawdown |-> unit.cell.drawdown]
BlindQuarters == Append(blind.quarters, blind.last - blind.opening)

Finish ==
    /\ i = End /\ Running /\ ~report.done
    /\ report' = [done |-> TRUE, search |-> SearchResult, exact |-> ExactResult(exact),
                  blind |-> ExactResult(blind.cell), quarters |-> BlindQuarters,
                  unit |-> UnitResult, control |-> ExactResult(overlay.control.cell),
                  stop |-> ExactResult(overlay.stop.cell)]
    /\ UNCHANGED <<series, family, grid, i, search, exact, blind, unit, overlay>>

Next == Bar \/ Finish

Spec == Init /\ [][Next]_vars

-----------------------------------------------------------------------------
(* Properties                                                                *)

Books(c) == <<c.position, c.entries, c.exits, c.missing, c.base, c.stress>>

\* The binary64 search, the exact recomputation, the blind replay and the control of
\* the overlay, written four times, take the same trades at the same prices on every
\* series: a survivor is promoted on the trades it was found by.
RecomputationsAgree ==
    /\ Books(exact) = Books(search)
    /\ Books(blind.cell) = Books(search)
    /\ Books(overlay.control.cell) = Books(search)

\* A search position is never held against the trend unless a hole or a fill that was
\* missing explains it: exits are triggered by a change of sign only, so one that is
\* lost is not repeated (_cell, exit_).
HeldAgainstTheTrend ==
    LET last == i - 1
    IN  (search.position /\ last >= Start /\ grid[last].known /\ grid[last].spread < 0)
        => \/ search.missing > 0
           \/ \E k \in (Start + 1) .. last : ~Contiguous(k)

\* No cell decides on indicators that reach over a hole of the series: the bar of a
\* decision and its predecessor have full windows of contiguous hours.
DecisionsStayInOneSegmentStep ==
    (\/ search'.position # search.position
     \/ unit'.pending # "NONE"
     \/ overlay'.stop.cell.position # overlay.stop.cell.position)
    => \A k \in (i - Long + 1) .. i : Contiguous(k)

DecisionsStayInOneSegment == [][DecisionsStayInOneSegmentStep]_vars

\* The calendar quarters of the blind replay add up to its net result, with no hour
\* counted twice or lost at a change of quarter.
QuartersAddUp ==
    LET sum[n \in 0 .. Len(report.quarters)] ==
            IF n = 0 THEN 0 ELSE sum[n - 1] + report.quarters[n]
    IN  report.done => sum[Len(report.quarters)] = report.blind.net

\* A crisis unit is scored on its own window: what the scored fills paid, plus the
\* position at the end, less the position it was entered with, whatever the lead-in
\* earned; and its fills explain the change of position.
UnitScoresItsWindow ==
    LET held(p, price) == IF p THEN SaleProceeds(price, BaseFee, BaseSlip) ELSE 0
        one(p) == IF p THEN 1 ELSE 0
    IN  report.done =>
          /\ report.unit.net = unit.flow + held(unit.cell.position, FinalMark)
                               - held(unit.atStart, series[Score].open)
          /\ one(unit.atStart) + unit.entries - unit.exits = one(unit.cell.position)

\* The stop overlay only removes exposure: whenever it is long its control is long.
StopOnlyRemovesExposure == overlay.stop.cell.position => overlay.control.cell.position
=============================================================================
