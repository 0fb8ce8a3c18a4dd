------------------------- MODULE MCTradingServices --------------------------
(* The services around paper trading: recovery snapshots, the risk gate and *)
(* its sizing, notifications, the candle store, the forward collector and   *)
(* the forward evaluation. They share no state (each has files of its own); *)
(* a behaviour runs one of them (part).                                     *)
EXTENDS RecoverySnapshot, CandleStore, NotificationDelivery, ForwardEvidence, RiskGate

CONSTANTS
    Off \* the variables of a component that is not the one running

VARIABLES
    part,  \* the component that runs, chosen once
    observed, switch, adapter, permit, paper,
    stage, setup, size, ledger, bracket, points, gross,
    told, recorded, taken, sender,
    hour, mark, account, tracker, trace, trades, failed

-----------------------------------------------------------------------------
\* Forward evaluation: costs of 0.5% and 1% make the arithmetic exact at a small scale;
\* the limits keep the order of the registered ones. Stop and target inside one candle;
\* target only; a slow decline; a gap down.
Stopped == [open |-> 20, low |-> 17, high |-> 24, close |-> 20]
Rally == [open |-> 20, low |-> 20, high |-> 24, close |-> 20]
Slide == [open |-> 20, low |-> 19, high |-> 20, close |-> 19]
Gap == [open |-> 16, low |-> 16, high |-> 18, close |-> 17]

FewCandles == {Stopped, Rally}
MostCandles == {Stopped, Rally, Slide, Gap}

MCPolicy == [risk |-> 3, position |-> 30, session |-> 4, drawdown |-> 6, streak |-> 2]

MCGates ==
  [hours |-> 3, trades |-> 2, tradesPerSymbol |-> 1, return |-> 1, profitFactor |-> 110,
   drawdown |-> 4, segments |-> 2, positiveSegments |-> 1, segmentLoss |-> 4, regimes |-> 2]

-----------------------------------------------------------------------------
\* Notifications: one monitor, every answer of the service and every fault. Candles:
\* five intervals, a stream of three messages with one reconnect whose backfill may be
\* given any of the candles it asks for, datasets of three candles in pages of at most
\* two.
MCSymbolOrder == <<"BTCUSDT", "ETHUSDT">>
MCBackoff == <<1, 2>>

\* Evidence: two collectors; two symbols at one interval change together, so that a copy
\* can be torn.
MCDatasets == <<"btc_1h", "eth_1h">>
MCDuration == [btc_1h |-> 1, eth_1h |-> 1]

-----------------------------------------------------------------------------
\* The risk gate. Every bar is finished before the next is observed; three days.
MCBrackets == {<<8, 12>>}
MCSessionLoss == <<1, 5>>
MCDrawdown == <<2, 5>>

\* Authorizations are used late, under a drawdown limit one lost trade reaches.
Delayed == INSTANCE RiskGate WITH
    MaxTime <- 4, Prompt <- FALSE, Drawdown <- <<1, 10>>,
    pf <- observed, ks <- switch, ad <- adapter, auth <- permit, led <- paper

\* Ten basis points make one: costs matter at prices of one digit, and a whole position
\* may cost more than the cash at hand.
Sizing == INSTANCE RiskSizing WITH
    Prices <- {3, 5, 6, 8, 10}, StartCash <- 40, BasisPoints <- 10, FeeBps <- 1,
    SlippageBps <- 1, RiskPart <- 2, PositionPart <- 1, MaxPoints <- 3

\* A runner beside the monitor.
Runner == INSTANCE NotificationDelivery WITH
    Monitors <- {"m1"}, Runners <- {"r1"}, SymbolOrder <- <<"BTCUSDT">>,
    Reports <- 1 .. 2, MaxAttempts <- 3, Backoff <- <<1, 2>>, MaxRateWait <- 3,
    MaxTotalWait <- 4, MaxRecords <- 1, RetryAfters <- {2, 3, 4},
    Answers <- {"refused", "limited", "ambiguous", "rejected", "accepted"},
    Faults <- {"crash", "storage"}, MaxPosts <- 2,
    summary <- told, deliveries <- recorded, accepted <- taken, proc <- sender

\* One monitor that is not killed, writes that succeed, and a service that says what it
\* did.
Undisturbed == INSTANCE NotificationDelivery WITH
    Monitors <- {"m1"}, Runners <- {}, SymbolOrder <- <<"BTCUSDT", "ETHUSDT">>,
    Reports <- 1 .. 3, MaxAttempts <- 3, Backoff <- <<1, 2>>, MaxRateWait <- 3,
    MaxTotalWait <- 4, MaxRecords <- 3, RetryAfters <- {2, 3, 4},
    Answers <- {"refused", "limited", "accepted"}, Faults <- {"config"}, MaxPosts <- 2,
    summary <- told, deliveries <- recorded, accepted <- taken, proc <- sender

\* One symbol over four hours.
Gate == INSTANCE ForwardGate WITH
    Symbols <- {"btc"}, Candles <- MostCandles, StartMark <- 20, Risks <- {2},
    Capital <- 100, Bps <- 200, FeeBps <- 2, SlippageBps <- 1, Policy <- MCPolicy,
    Gates <- MCGates, WarmupHours <- 1, DayHours <- 2, MaxHours <- 4

\* Two symbols pooled over three hours.
Pooled == INSTANCE ForwardGate WITH
    Symbols <- {"btc", "eth"}, Candles <- FewCandles, StartMark <- 20, Risks <- {2},
    Capital <- 100, Bps <- 200, FeeBps <- 2, SlippageBps <- 1, Policy <- MCPolicy,
    Gates <- MCGates, WarmupHours <- 1, DayHours <- 2, MaxHours <- 3

\* Recovery: operators who take turns are interchangeable, so one of them is followed
\* through four commands; two at once share three commands on one authorization.
RecoveryBound ==
    IF turns THEN op["q"].pc = "idle"
    ELSE /\ commands <= 3 /\ db.intents \subseteq {"a"}
         /\ \A p \in Operators : op[p].spec = Accepted

\* Candles: the rebuild of a checkpoint shares no state with the stream and the build, so
\* it runs apart from them.
CandleBound ==
    (\E r \in Rebuilders : rebuild[r] # "new") =>
        now = 0 /\ stream.pc = "new" /\ build.pc = "idle"

ASSUME Delayed!RiskAssumption
ASSUME Sizing!SizingAssumption
ASSUME DeliveryAssumption
ASSUME Runner!DeliveryAssumption
ASSUME Undisturbed!DeliveryAssumption
ASSUME Gate!GateAssumption
ASSUME Pooled!GateAssumption

-----------------------------------------------------------------------------
DelayedOff ==
    /\ observed = Off /\ switch = Off /\ adapter = Off /\ permit = Off /\ paper = Off

SizingOff ==
    /\ stage = Off /\ setup = Off /\ size = Off /\ ledger = Off /\ bracket = Off
    /\ points = Off /\ gross = Off

OtherNotifiersOff == told = Off /\ recorded = Off /\ taken = Off /\ sender = Off

GateOff ==
    /\ hour = Off /\ mark = Off /\ account = Off /\ tracker = Off /\ trace = Off
    /\ trades = Off /\ failed = Off

MCInit ==
    /\ \/ part = "recovery" /\ Init
       \/ part = "delayed" /\ Delayed!RiskInit
       \/ part = "sizing" /\ Sizing!Init
       \/ part = "runner" /\ Runner!DeliveryInit
       \/ part = "calm" /\ Undisturbed!DeliveryInit
       \/ part \in {"risk", "notify", "candles", "evidence"}
       \/ part = "gate" /\ Gate!Init
       \/ part = "pooled" /\ Pooled!Init
    /\ IF part = "recovery" THEN TRUE ELSE turns = TRUE /\ Init
    /\ RiskInit
    /\ IF part = "delayed" THEN TRUE ELSE DelayedOff
    /\ IF part = "sizing" THEN TRUE ELSE SizingOff
    /\ DeliveryInit /\ DataInit
    /\ IF part \in {"runner", "calm"} THEN TRUE ELSE OtherNotifiersOff
    /\ EvidenceInit /\ (IF part = "evidence" THEN TRUE ELSE OwnDatabase)
    /\ IF part \in {"gate", "pooled"} THEN TRUE ELSE GateOff

\* The components share no state: the ones that do not run stay as they are.
Frame ==
    /\ part' = part
    /\ IF part = "risk" THEN TRUE ELSE UNCHANGED riskVars
    /\ IF part = "delayed" THEN TRUE ELSE UNCHANGED <<observed, switch, adapter, permit,
           paper>>
    /\ IF part = "sizing" THEN TRUE ELSE UNCHANGED <<stage, setup, size, ledger, bracket,
           points, gross>>
    /\ IF part = "notify" THEN TRUE ELSE UNCHANGED deliveryVars
    /\ IF part \in {"runner", "calm"} THEN TRUE ELSE UNCHANGED <<told, recorded, taken, sender>>
    /\ IF part = "candles" THEN TRUE ELSE UNCHANGED dataVars
    /\ IF part = "evidence" THEN TRUE ELSE UNCHANGED evidenceVars
    /\ IF part \in {"gate", "pooled"} THEN TRUE ELSE UNCHANGED <<hour, mark, account,
           tracker, trace, trades, failed>>
    /\ IF part = "recovery" THEN TRUE ELSE UNCHANGED vars

MCNext ==
    \/ part = "recovery" /\ Next /\ RecoveryBound' /\ Frame
    \/ part = "risk" /\ RiskNext /\ Frame
    \/ part = "delayed" /\ Delayed!RiskNext /\ Frame
    \/ part = "sizing" /\ Sizing!Next /\ Frame
    \/ part = "notify" /\ DeliveryNext /\ Frame
    \/ part = "runner" /\ Runner!DeliveryNext /\ Frame
    \/ part = "calm" /\ Undisturbed!DeliveryNext /\ Frame
    \/ part = "candles" /\ DataNext /\ CandleBound' /\ Frame
    \/ part = "evidence" /\ EvidenceNext /\ Frame
    \/ part = "gate" /\ Gate!Next /\ Frame
    \/ part = "pooled" /\ Pooled!Next /\ Frame

MCvars == <<part, vars, riskVars, observed, switch, adapter, permit, paper, stage,
          setup, size, ledger, bracket, points, gross, deliveryVars, told, recorded, taken, sender, dataVars,
          evidenceVars, hour, mark, account, tracker, trace, trades, failed>>

MCSpec == MCInit /\ [][MCNext]_MCvars

-----------------------------------------------------------------------------
\* The position, the loss streak and the session PnL of the managed state are those of
\* the fills, but for trades opened and closed within one bar; the sized quantity is the
\* largest whose planned loss the budget allows and the gate confirms it, a stop loses
\* no more than its budget, costs account for the whole difference between gross and
\* net, and the metrics are those of the trades. In the forward evaluation the evidence
\* reconciles with the replayed trades, a loss limit latches when its loss is first
\* seen, and PASS is given for evidence that meets every gate; the monitor tells of it as
\* often as it should, beside a runner and when nothing disturbs it
\* (apply_portfolio_observation, size_position, FillEngine, PortfolioLedger, evaluate,
\* send_monitor_notifications).
ServicesAreExact ==
    /\ part = "risk" => StateFollowsFills
    /\ part = "sizing" => Sizing!SizeIsMaximal
    /\ part = "sizing" => Sizing!GateConfirmsSize
    /\ part = "sizing" => Sizing!LossWithinBudget
    /\ part = "sizing" => Sizing!CostsAccountForPnl
    /\ part = "sizing" => Sizing!DrawdownIsDeepest
    /\ part = "sizing" => Sizing!TradesCounted
    /\ part = "gate" => Gate!EvidenceReconciles
    /\ part = "gate" => Gate!SessionLossLatches
    /\ part = "gate" => Gate!NoEntryAfterBreach
    /\ part = "pooled" => Pooled!PassIsEarned
    /\ part = "runner" => Runner!DeliveryIsBounded
    /\ part = "calm" => Undisturbed!DeliveryIsBounded

\* An authorization used late opens no position under an active Kill Switch, unless the
\* state it was given on missed a trade that one bar opened and closed, and a locked
\* streak stays locked. The value a position is marked at is what closing it brings, and
\* a hard failure of the forward gate is never lifted (RiskManagedPaperAdapter,
\* kill_switch, PortfolioLedger.mark, evaluate_gate).
NeverTakenBack ==
    [][/\ part = "delayed" => Delayed!EntriesAreGuardedStep
       /\ part = "sizing" => Sizing!MarkIsRealizableStep
       /\ part = "gate" => Gate!HardFailureIsFinalStep]_MCvars

\* After the warm-up every prefix has a summary.
SummaryAfterWarmup == part = "gate" => Gate!SummaryAfterWarmup
=============================================================================
