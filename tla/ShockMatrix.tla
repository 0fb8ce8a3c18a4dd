----------------------------- MODULE ShockMatrix -----------------------------
(* The immediate open-position shock of CRL-006A (synthetic_shock.py). An     *)
(* episode is an entry that the strategy-active scan confirmed open at the    *)
(* end of its entry candle. Each of the nine registered scenarios puts one    *)
(* flat candle below that candle's close, lets the strategy and the           *)
(* protective bracket answer, and compares liquidation equity before and      *)
(* after. Prices are integers; money counts in 1/CostDen^2 of a price unit,   *)
(* so that every product is exact.                                            *)
EXTENDS Integers, Sequences, FiniteSets

CONSTANTS
    Prices,         \* prices that occur
    Volumes,        \* base volume of the entry candle
    Quantity,       \* RUNNER_QUANTITY
    Cash,           \* cash left after the entry
    CostDen, Fee, Slippage,     \* costs, as Fee / CostDen and so on
    Registry        \* scenarios: sequence of [gap |-> bps, mult |-> n]

ASSUME CostAssumption ==
    /\ CostDen \in Nat \ {0} /\ Fee \in 0..CostDen
    /\ Slippage \in Nat /\ 5 * Slippage < CostDen

ASSUME PriceAssumption ==
    /\ Prices \subseteq Nat /\ Volumes \subseteq Nat
    /\ Quantity \in Nat /\ Cash \in Int
    /\ Registry \in Seq([gap : Nat, mult : Nat])

VARIABLES
    episode,        \* the source episode
    action,         \* what the strategy decides before the shock
    next,           \* index of the scenario to run
    outputs,        \* results, one per scenario
    phase

shockVars == <<episode, action, next, outputs, phase>>

-----------------------------------------------------------------------------
(* The bracket, in the two places the code has it                            *)

Fill(price, reason) == [price |-> price, reason |-> reason]
NoFill == Fill(0, "NONE")

\* PaperFillEngine._protective_exit, on the candle of a fill.
EngineExit(bar, stop, target) ==
    CASE bar.open <= stop   -> Fill(bar.open, "STOP")
      [] bar.open > stop /\ bar.open >= target -> Fill(target, "TARGET")
      [] bar.open > stop /\ bar.open < target ->
            IF bar.low <= stop /\ bar.high >= target
            THEN Fill(stop, "AMBIGUOUS_STOP_PRIORITY")
            ELSE IF bar.low <= stop THEN Fill(stop, "STOP")
            ELSE IF bar.high >= target THEN Fill(target, "TARGET")
            ELSE NoFill

\* A gap through the stop filled at the stop, as if it had traded there.
ExitReferenceAtStop(act, stop, target, bar) ==
    IF act = "EXIT_LONG" THEN Fill(bar.open, "SCRIPTED_EXIT")
    ELSE IF bar.open <= stop THEN Fill(stop, "STOP")
    ELSE IF bar.open >= target THEN Fill(target, "TARGET")
    ELSE NoFill

\* _exit_reference: the strategy's exit at the open, else the bracket.
ExitReference(act, stop, target, bar) ==
    IF act = "EXIT_LONG" THEN Fill(bar.open, "SCRIPTED_EXIT")
    ELSE IF bar.open <= stop THEN Fill(bar.open, "STOP")
    ELSE IF bar.open >= target THEN Fill(target, "TARGET")
    ELSE IF bar.low <= stop /\ bar.high >= target
         THEN Fill(stop, "AMBIGUOUS_STOP_PRIORITY")
    ELSE IF bar.low <= stop THEN Fill(stop, "STOP")
    ELSE IF bar.high >= target THEN Fill(target, "TARGET")
    ELSE NoFill

-----------------------------------------------------------------------------
(* Episodes, scenarios and their arithmetic                                  *)

\* Only entries still open after the protective processing of their own
\* candle are candidates: the fill fits the volume and no bracket was touched.
ConfirmedOpen(e) ==
    /\ e.stop < e.bar.open /\ e.bar.open < e.target
    /\ Quantity <= e.bar.vol
    /\ EngineExit(e.bar, e.stop, e.target) = NoFill

Bar == {b \in [open : Prices, high : Prices, low : Prices, close : Prices,
               vol : Volumes] :
            /\ b.low <= b.open /\ b.low <= b.close
            /\ b.open <= b.high /\ b.close <= b.high}

Episodes == {e \in [bar : Bar, stop : Prices, target : Prices] : ConfirmedOpen(e)}

\* _validate_episode: the portfolio holds the frozen quantity and a setup.
ValidEpisode(e) == e.stop < e.target /\ Cash >= 0 /\ Quantity > 0

\* load_registry: exactly the nine pairs, each once.
Gaps == {500, 1000, 2000}
Multipliers == {1, 2, 5}
RegistryComplete ==
    /\ Len(Registry) = 9
    /\ {<<Registry[k].gap, Registry[k].mult>> : k \in DOMAIN Registry}
          = Gaps \X Multipliers

SyntheticPrice(anchor, gap) == (anchor * (10000 - gap)) \div 10000

\* open = high = low = close at the gap, with the volume of the entry candle.
SyntheticCandle(e, gap) ==
    LET p == SyntheticPrice(e.bar.close, gap)
    IN  [open |-> p, high |-> p, low |-> p, close |-> p, vol |-> e.bar.vol]

\* Proceeds of selling the position at a price, after slippage and fee.
Proceeds(price, slip) == Quantity * price * (CostDen - slip) * (CostDen - Fee)

LiquidationEquity(mark, slip) == Cash * CostDen * CostDen + Proceeds(mark, slip)

Scenario == Registry[next]

\* One scenario, run twice by the code and compared: here it is a function.
RunScenario(e, act, sc) ==
    LET slip  == Slippage * sc.mult
        shock == SyntheticCandle(e, sc.gap)
        exit  == ExitReference(act, e.stop, e.target, shock)
        sold  == exit # NoFill
    IN  [gap |-> sc.gap, mult |-> sc.mult, shock |-> shock,
         exit |-> exit,
         fits |-> sold => Quantity <= shock.vol,
         before |-> LiquidationEquity(e.bar.close, Slippage),
         after  |-> IF sold THEN Cash * CostDen * CostDen + Proceeds(exit.price, slip)
                    ELSE LiquidationEquity(shock.open, slip),
         left   |-> IF sold THEN 0 ELSE Quantity]

-----------------------------------------------------------------------------
ShockInit ==
    /\ episode \in Episodes
    /\ action \in {"EXIT_LONG", "NO_TRADE"}
    /\ next = 1 /\ outputs = <<>>
    /\ phase = IF RegistryComplete THEN "RUN" ELSE "FAILED"

RunNext ==
    /\ phase = "RUN" /\ next <= Len(Registry)
    /\ LET r == RunScenario(episode, action, Scenario) IN
        IF ValidEpisode(episode) /\ r.fits
        THEN outputs' = Append(outputs, r) /\ next' = next + 1 /\ UNCHANGED phase
        ELSE phase' = "FAILED" /\ UNCHANGED <<next, outputs>>
    /\ UNCHANGED <<episode, action>>

\* The matrix is written only when it is complete.
WriteResult ==
    /\ phase = "RUN" /\ next > Len(Registry)
    /\ phase' = IF Len(outputs) = 9 THEN "WRITTEN" ELSE "FAILED"
    /\ UNCHANGED <<episode, action, next, outputs>>

ShockNext == RunNext \/ WriteResult
ShockSpec == ShockInit /\ [][ShockNext]_shockVars /\ WF_shockVars(ShockNext)

-----------------------------------------------------------------------------
(* Properties                                                                *)

Results == {outputs[k] : k \in DOMAIN outputs}

\* A deeper gap or a costlier exit never leaves more equity, whichever of
\* strategy exit, stop or held position answers it: the matrix orders the
\* scenarios it is meant to order.
HarsherIsNoBetter ==
    \A a, b \in Results :
        a.gap <= b.gap /\ a.mult <= b.mult => b.after <= a.after

\* An adverse gap below a confirmed entry never takes profit and never gains:
\* no exit at the target, no loss recorded as negative.
ShockIsAdverse ==
    \A r \in Results : r.exit.reason # "TARGET" /\ r.after <= r.before

\* The bracket written a second time for the shock answers a bar exactly as
\* the fill engine of the backtest does.
BracketsAgree ==
    action = "NO_TRADE" =>
        \A r \in Results :
            r.exit = EngineExit(r.shock, episode.stop, episode.target)

\* The nine scenarios order as they are meant to, none gains, and the strategy, the
\* bracket of the shock and the one of the backtest answer alike.
ShockIsSound == HarsherIsNoBetter /\ ShockIsAdverse /\ BracketsAgree

=============================================================================
