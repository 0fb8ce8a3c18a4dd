----------------------------- MODULE RiskSizing -----------------------------
(***************************************************************************)
(* The arithmetic of one Paper trade, from the P4 sizing of an entry to    *)
(* the P2 metrics of the run: size_entry, assess_entry_limits and          *)
(* assess_protective_entry (yatl/risk), then the next bar's fills, their   *)
(* costs, the portfolio ledger and the equity curve (yatl/backtest).       *)
(* Decimals are exact in the code (256 digits); here a quote amount is an  *)
(* integer number of 1/Unit of the quote asset, Unit = BasisPoints^2, so   *)
(* that no rate rounds.  A quantity is a number of QUANTITY_STEPs.         *)
(***************************************************************************)
EXTENDS Integers, Sequences, FiniteSetsExt, SequencesExt

CONSTANTS
    Prices,         \* prices of setups and bars
    StartCash,      \* initial cash, quote asset
    BasisPoints,    \* 10000
    FeeBps,         \* FEE_BPS
    SlippageBps,    \* SLIPPAGE_BPS
    RiskPart,       \* risk_per_trade_fraction = 1 / RiskPart
    PositionPart,   \* max_position_fraction = max_gross_exposure_fraction = 1 / PositionPart
    MaxPoints       \* bound: points of the equity curve

SizingAssumption ==
    /\ Prices \subseteq Nat \ {0}
    /\ {StartCash, BasisPoints, RiskPart, PositionPart, MaxPoints} \subseteq Nat \ {0}
    /\ FeeBps \in 0 .. BasisPoints - 1 /\ SlippageBps \in 0 .. BasisPoints - 1

VARIABLES
    stage,     \* "idle", "sized", "limited", "approved"
    setup,     \* entry, stop and target reference prices
    size,      \* PositionSize
    ledger,    \* PortfolioLedger
    bracket,   \* stop, target and budget of the last position, its exit and result
    points,    \* equity curve
    gross      \* sum of quantity * (exit - entry) at reference prices, closed trades

vars == <<stage, setup, size, ledger, bracket, points, gross>>

Unit == BasisPoints * BasisPoints
Setups == {s \in [entry : Prices, stop : Prices, target : Prices] :
              s.stop < s.entry /\ s.entry < s.target}
NoSetup == [entry |-> 0, stop |-> 0, target |-> 0]
NoSize == [quantity |-> 0, budget |-> 0, loss |-> 0]
NoBracket == [stop |-> 0, target |-> 0, entry |-> 0, budget |-> 0,
              atReference |-> FALSE, exit |-> 0, pnl |-> 0]
-----------------------------------------------------------------------------
(* Costs: adverse slippage on the price, fee on the executed quote amount *)

BuyGross(quantity, price) == quantity * price * (BasisPoints + SlippageBps) * BasisPoints
SellGross(quantity, price) == quantity * price * (BasisPoints - SlippageBps) * BasisPoints
Fee(amount) == (amount \div BasisPoints) * FeeBps
Slippage(quantity, price) == quantity * price * SlippageBps * BasisPoints

\* _components: a buy takes gross plus fee, a sell brings gross less fee
CashDelta(action, quantity, price) ==
    IF action = "ENTER_LONG"
    THEN -(BuyGross(quantity, price) + Fee(BuyGross(quantity, price)))
    ELSE SellGross(quantity, price) - Fee(SellGross(quantity, price))
-----------------------------------------------------------------------------
(* P4 sizing and gates *)

LossPerUnit(s) ==
    BuyGross(1, s.entry) - SellGross(1, s.stop)
        + Fee(BuyGross(1, s.entry) + SellGross(1, s.stop))

\* to_integral_value(ROUND_FLOOR)
Steps(budget, loss) == budget \div loss

\* size_entry: refused when the cost-adjusted levels cross, when a loss or the
\* budget is not positive, or when not one step fits.
Size(s) ==
    LET budget == (points[Len(points)].equity) \div RiskPart
        loss == LossPerUnit(s)
        quantity == Steps(budget, loss)
    IN /\ stage = "idle" /\ ledger.quantity = 0 /\ Len(points) < MaxPoints
       /\ SellGross(1, s.stop) > 0 /\ SellGross(1, s.stop) < BuyGross(1, s.entry)
       /\ budget > 0 /\ loss > 0
       /\ quantity > 0
       /\ stage' = "sized"
       /\ setup' = s
       /\ size' = [quantity |-> quantity, budget |-> budget, loss |-> loss]
       /\ UNCHANGED <<ledger, bracket, points, gross>>

Reject ==
    /\ stage' = "idle"
    /\ setup' = NoSetup
    /\ size' = NoSize
    /\ UNCHANGED <<ledger, bracket, points, gross>>

NotionalFits == BuyGross(size.quantity, setup.entry) * PositionPart <= ledger.cash
CashFits == -CashDelta("ENTER_LONG", size.quantity, setup.entry) <= ledger.cash

\* assess_entry_limits
Limit ==
    /\ stage = "sized"
    /\ \/ /\ NotionalFits /\ CashFits
          /\ stage' = "limited"
          /\ UNCHANGED <<setup, size, ledger, bracket, points, gross>>
       \/ ~(NotionalFits /\ CashFits) /\ Reject

\* The gate recomputes the loss at the stop from the whole quantity
WorstLoss ==
    -CashDelta("ENTER_LONG", size.quantity, setup.entry)
        - CashDelta("EXIT_LONG", size.quantity, setup.stop)

NetReward ==
    CashDelta("EXIT_LONG", size.quantity, setup.target)
        + CashDelta("ENTER_LONG", size.quantity, setup.entry)

\* assess_protective_entry
Protect ==
    /\ stage = "limited"
    /\ \/ /\ WorstLoss <= size.budget /\ NetReward > 0
          /\ stage' = "approved"
          /\ UNCHANGED <<setup, size, ledger, bracket, points, gross>>
       \/ ~(WorstLoss <= size.budget /\ NetReward > 0) /\ Reject
-----------------------------------------------------------------------------
(* P2 fills, ledger and curve *)

\* PortfolioLedger._apply: an entry needs the cash, an exit closes it all
LedgerAccepts(l) == l.cash >= 0

Bought(l, quantity, price) ==
    [l EXCEPT !.cash = @ + CashDelta("ENTER_LONG", quantity, price),
              !.quantity = quantity,
              !.basis = -CashDelta("ENTER_LONG", quantity, price),
              !.fee = @ + Fee(BuyGross(quantity, price)),
              !.slippage = @ + Slippage(quantity, price)]

Sold(l, price) ==
    LET proceeds == CashDelta("EXIT_LONG", l.quantity, price)
    IN [cash |-> l.cash + proceeds, quantity |-> 0, basis |-> 0,
        realized |-> l.realized + proceeds - l.basis,
        fee |-> l.fee + Fee(SellGross(l.quantity, price)),
        slippage |-> l.slippage + Slippage(l.quantity, price),
        closed |-> l.closed + 1]

\* PortfolioLedger.snapshot: an open position is worth what selling it brings
Equity(l, mark) == l.cash + CashDelta("EXIT_LONG", l.quantity, mark)

Point(l, mark) ==
    [equity |-> Equity(l, mark), closed |-> l.closed, realized |-> l.realized,
     quantity |-> l.quantity, mark |-> mark]

Init ==
    /\ stage = "idle" /\ setup = NoSetup /\ size = NoSize /\ bracket = NoBracket
    /\ ledger = [cash |-> StartCash * Unit, quantity |-> 0, basis |-> 0,
                 realized |-> 0, fee |-> 0, slippage |-> 0, closed |-> 0]
    /\ points = <<Point(ledger, 0)>>
    /\ gross = 0

\* One bar: the approved entry fills at its open, or is refused outside the
\* bracket or above the cash at hand; then the bar's stop or target, the stop
\* at the open when the bar gaps below it.
Enter(open, mark, exit) ==
    LET l == Bought(ledger, size.quantity, open)
        after == IF exit = 0 THEN l ELSE Sold(l, exit)
    IN /\ stage = "approved"
       /\ setup.stop < open /\ open < setup.target
       /\ LedgerAccepts(l)
       /\ exit \in {0, setup.stop, setup.target}
       /\ stage' = "idle" /\ setup' = NoSetup /\ size' = NoSize
       /\ ledger' = after
       /\ bracket' = [stop |-> setup.stop, target |-> setup.target, entry |-> open,
                      budget |-> size.budget, atReference |-> open <= setup.entry,
                      exit |-> exit, pnl |-> after.realized - ledger.realized]
       /\ points' = Append(points, Point(after, mark))
       /\ gross' = IF exit = 0 THEN gross ELSE gross + size.quantity * (exit - open) * Unit

\* The entry is abandoned: no fill, the bar is still marked
Refuse(open, mark) ==
    /\ stage = "approved"
    /\ \/ ~(setup.stop < open /\ open < setup.target)
       \/ ~LedgerAccepts(Bought(ledger, size.quantity, open))
    /\ points' = Append(points, Point(ledger, mark))
    /\ stage' = "idle" /\ setup' = NoSetup /\ size' = NoSize
    /\ UNCHANGED <<ledger, bracket, gross>>

Hold(mark) ==
    /\ stage = "idle" /\ ledger.quantity > 0 /\ Len(points) < MaxPoints
    /\ points' = Append(points, Point(ledger, mark))
    /\ UNCHANGED <<stage, setup, size, ledger, bracket, gross>>

\* A stop, a gap below the stop, a target or a scripted exit at the open
Exit(price) ==
    /\ stage = "idle" /\ ledger.quantity > 0
    /\ price <= bracket.target
    /\ ledger' = Sold(ledger, price)
    /\ points' = Append(points, Point(Sold(ledger, price), price))
    /\ gross' = gross + ledger.quantity * (price - bracket.entry) * Unit
    /\ bracket' = [bracket EXCEPT !.exit = price,
                                  !.pnl = ledger'.realized - ledger.realized]
    /\ UNCHANGED <<stage, setup, size>>

Next ==
    \/ \E s \in Setups : Size(s)
    \/ Limit \/ Protect
    \/ \E open, mark \in Prices :
          \/ \E exit \in Prices \cup {0} : Enter(open, mark, exit)
          \/ Refuse(open, mark)
    \/ \E price \in Prices : Hold(price) \/ Exit(price)

Spec == Init /\ [][Next]_vars
-----------------------------------------------------------------------------
(* calculate_metrics: one pass over the curve *)

Peak(step, point) == IF point.equity > step.peak THEN point.equity ELSE step.peak

\* a/b > c/d for positive b and d
Exceeds(a, b, c, d) == a * d > c * b

Traded(point, prior) == point.closed > prior.closed

\* The maximum drawdown is kept as the pair <<drawdown_quote, peak>>
MetricStep(point, step) ==
    LET peak == Peak(step, point)
        drop == peak - point.equity
        pnl == point.realized - step.prior.realized
        deeper == Exceeds(drop, peak, step.drawdown[1], step.drawdown[2])
        traded == Traded(point, step.prior)
    IN [peak |-> peak, prior |-> point,
        drawdown |-> IF deeper THEN <<drop, peak>> ELSE step.drawdown,
        wins |-> IF traded /\ pnl > 0 THEN step.wins + 1 ELSE step.wins,
        losses |-> IF traded /\ pnl < 0 THEN step.losses + 1 ELSE step.losses,
        even |-> IF traded /\ pnl = 0 THEN step.even + 1 ELSE step.even]

Metrics ==
    FoldLeft(LAMBDA step, point : MetricStep(point, step),
             [peak |-> points[1].equity, prior |-> points[1], drawdown |-> <<0, 1>>,
              wins |-> 0, losses |-> 0, even |-> 0],
             Tail(points))
-----------------------------------------------------------------------------
\* _validate_curve accepts every curve the ledger produces
TypeOK ==
    /\ stage \in {"idle", "sized", "limited", "approved"}
    /\ ledger.cash >= 0 /\ ledger.quantity >= 0 /\ ledger.basis >= 0
    /\ Len(points) \in 1 .. MaxPoints + 1
    /\ \A i \in 2 .. Len(points) :
          /\ points[i].equity > 0
          /\ points[i].closed - points[i - 1].closed \in {0, 1}

\* The sized quantity is the largest whose loss at the stop, costs included,
\* stays within the budget.
SizeIsMaximal ==
    stage = "sized" =>
        size.quantity = Max({q \in 0 .. size.budget \div size.loss + 1 :
            q * size.loss <= size.budget})

\* The gate's loss for the whole quantity is the sizing's planned loss.
GateConfirmsSize ==
    stage \in {"sized", "limited", "approved"} => WorstLoss = size.quantity * size.loss

\* A trade filled at or below its reference price and closed at or above its
\* stop costs at most the budget it was sized with.
LossWithinBudget ==
    (bracket.atReference /\ bracket.exit >= bracket.stop) => bracket.pnl >= -bracket.budget

\* Closing at the price of the last mark leaves exactly the equity the curve
\* showed there.
MarkIsRealizableStep ==
    (/\ ledger.quantity > 0 /\ ledger'.quantity = 0
     /\ points'[Len(points')].mark = points[Len(points)].mark)
    => ledger'.cash = points[Len(points)].equity

MarkIsRealizable == [][MarkIsRealizableStep]_vars

\* Realized profit, fees and slippage of the ledger add up to the profit at
\* reference prices, whatever sequence of trades was made.
CostsAccountForPnl ==
    ledger.quantity = 0 =>
        /\ ledger.realized + ledger.fee + ledger.slippage = gross
        /\ ledger.cash = StartCash * Unit + ledger.realized

\* The one-pass maximum drawdown is the deepest relative fall between any two
\* points of the curve.
DrawdownIsDeepest ==
    LET worst == Metrics.drawdown
    IN /\ \A i, j \in 1 .. Len(points) :
             i < j => ~Exceeds(points[i].equity - points[j].equity, points[i].equity,
                               worst[1], worst[2])
       /\ worst[1] > 0 =>
             \E i, j \in 1 .. Len(points) :
                i < j /\ worst = <<points[i].equity - points[j].equity, points[i].equity>>

\* Every closed trade is counted once, as a win, a loss or a breakeven.
TradesCounted ==
    Metrics.wins + Metrics.losses + Metrics.even = ledger.closed
=============================================================================
