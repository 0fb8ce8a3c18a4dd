--------------------------- MODULE MCStrategyLabs ---------------------------
(* The research labs on fixed corpora: the crisis lab's data admission and  *)
(* replays, the strategies and their ablations, the cells and the           *)
(* qualification of the historical strategy lab. They share no state; a     *)
(* behaviour runs one of them (part).                                       *)
EXTENDS CrisisData, Integers, Sequences, FiniteSets, SequencesExt

CONSTANTS
    Off \* the variables of a component that is not the one running

VARIABLES
    part,  \* the component that runs, chosen once
    crisisPublished, crisisRest, crisisTree, crisisRot, crisisPc, crisisJob,
    crisisLoaded, crisisRuns, crisisRevisions,
    data, st, replayPhase, replayClock, turn, chunkEnd, epoch, selected, scannedEnd,
    jobs, reports,
    strategy, primary, context, closes, setup,
    cellLab, cellClock, cell, tracker, ended, log,
    lab, protocol, parent, qualPhase, cells, summary, failures, status

-----------------------------------------------------------------------------
\* Crisis data: two datasets over three one-candle days, a day before the month begins
\* and a month of two days whose second day is overridden for the first dataset.
OverridesOf(names) == [d \in ToSet(names) |-> IF d = "btc" THEN {3} ELSE {}]
MCDatasets == <<"btc">>
MCOverrides == OverridesOf(MCDatasets)

Row(s, v, f) == [slot |-> s, val |-> v, form |-> f]

\* REST has every candle, lacks one of them, or has another value for the first.
EveryRest ==
    {{Row(s, 1, "ok") : s \in 0..4}, {Row(s, 1, "ok") : s \in (0..4) \ {2}},
     {Row(s, 1, "ok") : s \in (0..2)}, {Row(s, IF s = 1 THEN 2 ELSE 1, "ok") : s \in 0..4}}
MCRests == {{Row(s, 1, "ok") : s \in 0..4}, {Row(s, 1, "ok") : s \in (0..4) \ {1}}}

\* Crisis replays: an hour is two units, the regime candle two hours; the corpus has ten
\* hours and up to one hole (four in the windows); a crisis after the pool guards its last hour.
McDur == [i \in {"15m", "1h", "4h"} |->
             CASE i = "15m" -> 1 [] i = "1h" -> 2 [] OTHER -> 4]
McWarmup == [i \in {"15m", "1h", "4h"} |-> IF i = "15m" THEN 2 ELSE 1]
McEvents == {[pre |-> 13, core |-> 14, after |-> 15, end |-> 16, anchor |-> 14]}
McGaps == {<<"BTC", "1h", 10>>}
ReplayGaps == {<<"BTC", "1h", 8>>, <<"BTC", "15m", 13>>, <<"BTC", "4h", 12>>,
               <<"BTC", "4h", 0>>}
ReplayEvents == {[pre |-> 7, core |-> 9, after |-> 10, end |-> 12, anchor |-> 9]}
ReplayControls == {[acq |-> 4, start |-> 8, end |-> 16],
                   [acq |-> 6, start |-> 12, end |-> 16]}

\* Strategies: bars, contexts and regimes on both sides of every threshold.
B(l, c, h) == [lo |-> l, cl |-> c, hi |-> h]
Q(o, c) == [op |-> o, cl |-> c]
MCBars == {B(4, 4, 4), B(4, 6, 6), B(5, 5, 7), B(5, 8, 8), B(1, 2, 5)}
MCContexts == {<<Q(1, 3)>>, <<Q(1, 1), Q(1, 2)>>, <<Q(1, 3), Q(1, 2)>>}
MCRegimes == {<<1, 1>>, <<4, 4, 4, 8>>, <<8, 8, 8, 4>>}

\* Lab cells: what the market does in an hour.
Hr(fill, fresh, act, veto, mark, pnl) ==
    [fill |-> fill, fresh |-> fresh, act |-> act, veto |-> veto, mark |-> mark, pnl |-> pnl,
     volume |-> 2, levels |-> "SHORT"]

Quiet   == Hr("INSIDE", TRUE, FALSE, FALSE, 0, 0)
Plunge  == Hr("INSIDE", TRUE, FALSE, FALSE, -10, 0)
Win     == Hr("INSIDE", TRUE, TRUE, FALSE, 0, 1)
Lose    == Hr("TOUCHED", TRUE, TRUE, FALSE, 0, -1)
LoseBig == Hr("TOUCHED", TRUE, TRUE, FALSE, 0, -2)
Stop    == Hr("TOUCHED", TRUE, FALSE, FALSE, 0, -1)
Hole    == Hr("MISSING", TRUE, FALSE, FALSE, 0, 0)
Stale   == Hr("TOUCHED", FALSE, TRUE, FALSE, 0, -1)
Gap     == Hr("GAP", TRUE, TRUE, FALSE, 0, -2)
Vetoed  == Hr("INSIDE", TRUE, TRUE, TRUE, 0, 1)

Thin    == [Lose EXCEPT !.volume = 1]
Long    == [Lose EXCEPT !.levels = "LONG"]
Endless == [Win EXCEPT !.levels = "ENDLESS"]
Out     == Hr("GAP", FALSE, FALSE, FALSE, 0, -2)

TrackerMarkets == {Quiet, Plunge, Win, Lose, LoseBig, Hole}
AllMarkets == {Quiet, Win, Lose, Stop, Hole, Stale, Gap, Out, Vetoed, Thin, Long, Endless}

\* Qualification: folds that are right, overlap, are short, out of order or leave a gap.
Fold(a, b, c, d) == [trainStart |-> a, trainEnd |-> b, evalStart |-> c, evalEnd |-> d]
GoodFolds == <<Fold(0, 2, 2, 4), Fold(0, 4, 4, 6)>>
FoldLists == {GoodFolds, <<Fold(0, 2, 2, 4), Fold(0, 3, 3, 5)>>, <<Fold(0, 2, 2, 4)>>,
              <<Fold(0, 4, 4, 6), Fold(0, 2, 2, 4)>>, <<Fold(0, 2, 2, 4), Fold(0, 5, 4, 6)>>}
MCProtocols == [folds : {GoodFolds}, registered : BOOLEAN, sameGate : BOOLEAN]
MCParents == [folds : FoldLists, registered : BOOLEAN, sameGate : {TRUE}]
CellOf(t, u, d) == [trades |-> t, unrealized |-> u, drawdown |-> d]
MCOutcomes == {CellOf(<<>>, 0, 0), CellOf(<<5>>, 0, 5), CellOf(<<1, 1>>, 0, 5),
               CellOf(<<2, -1>>, 1, 5), CellOf(<<-1>>, 0, 15)}
MCControls == {[net |-> 0, realized |-> 0, completed |-> 0],
               [net |-> 3, realized |-> 4, completed |-> 3]}

-----------------------------------------------------------------------------
TwoShape == INSTANCE CrisisData WITH
    Datasets <- <<"btc", "eth">>, Overrides <- OverridesOf(<<"btc", "eth">>),
    Duration <- 2, CandlesPerDay <- 1, DaysPerMonth <- 2, SemanticStart <- 3,
    SemanticEnd <- 7, ReplayEligible <- TRUE, Publications <- {}, Rests <- {},
    Clocks <- {9}, MaxRevisions <- 0, MaxRuns <- 2, MaxRot <- 0,
    published <- crisisPublished, rest <- crisisRest, tree <- crisisTree,
    rot <- crisisRot, pc <- crisisPc, job <- crisisJob, loaded <- crisisLoaded,
    runs <- crisisRuns, revisions <- crisisRevisions

Slots(o) == {s \in 0..20 : DayOf(s) \in DaysOf(o.object)}

Good(objects) == [o \in objects |-> {Row(s, 1, "ok") : s \in Slots(o)}]

FirstDayMissing(objects) ==
    [o \in objects |-> IF o.object.day = 1 THEN {} ELSE Good(objects)[o]]

Change(s, n) ==
    CASE n = 0 -> {} [] n = 1 -> {Row(s, 2, "ok")} [] n = 2 -> {Row(s, 0, "ok")}
      [] n = 3 -> {Row(s, 1, "closeOff")} [] OTHER -> {Row(s, 1, "broken")}

\* One row of one object is missing, has another value or no positive price, or has a
\* wrong close time or a broken field.
EveryPublication ==
    LET good == Good(Objects) IN
    {good} \cup
    {[good EXCEPT ![x[1]] = (@ \ {Row(x[2], 1, "ok")}) \cup Change(x[2], x[3])] :
        x \in {y \in Objects \X Expected \X (0..4) : y[2] \in Slots(y[1])}}

\* The good publication, one whose first day lacks its candle, and one with a price of
\* zero in the month of the second dataset.
FewPublications(objects) ==
    {Good(objects), FirstDayMissing(objects),
     [o \in objects |-> IF o.of = "eth" /\ o.object.cadence = "monthly"
                        THEN {Row(2, 0, "ok"), Row(3, 1, "ok")} ELSE Good(objects)[o]]}

MCPublications == FewPublications(Objects)

\* What stands there while another component runs.
MCStart == [o \in Objects |-> [zip |-> Good(Objects)[o], sum |-> Good(Objects)[o]]]
MCRestStart == CHOOSE r \in MCRests : TRUE

\* One dataset, every change of one row, every answer of REST.
OneSet == INSTANCE CrisisData WITH
    Datasets <- <<"btc">>, Overrides <- OverridesOf(<<"btc">>), Duration <- 2,
    CandlesPerDay <- 1, DaysPerMonth <- 2, SemanticStart <- 3, SemanticEnd <- 7,
    ReplayEligible <- TRUE, Publications <- EveryPublication, Rests <- EveryRest,
    Clocks <- {6, 9}, MaxRevisions <- 0, MaxRuns <- 2, MaxRot <- 0,
    published <- crisisPublished, rest <- crisisRest, tree <- crisisTree,
    rot <- crisisRot, pc <- crisisPc, job <- crisisJob, loaded <- crisisLoaded,
    runs <- crisisRuns, revisions <- crisisRevisions

\* Two datasets, one of which may fail.
TwoSets == INSTANCE CrisisData WITH
    Datasets <- <<"btc", "eth">>, Overrides <- OverridesOf(<<"btc", "eth">>),
    Duration <- 2, CandlesPerDay <- 1, DaysPerMonth <- 2, SemanticStart <- 3,
    SemanticEnd <- 7, ReplayEligible <- TRUE,
    Publications <- FewPublications(TwoShape!Objects), Rests <- MCRests, Clocks <- {9},
    MaxRevisions <- 0, MaxRuns <- 2, MaxRot <- 0, published <- crisisPublished,
    rest <- crisisRest, tree <- crisisTree, rot <- crisisRot, pc <- crisisPc,
    job <- crisisJob, loaded <- crisisLoaded, runs <- crisisRuns,
    revisions <- crisisRevisions

\* The strategy-active scan.
Scan == INSTANCE CrisisReplay WITH
    SymbolSeq <- <<"BTC", "ETH">>, Dur <- McDur, Horizon <- 20, Gaps <- McGaps,
    Warmup <- McWarmup, PoolStart <- 4, PoolEnd <- 14, ChunkLen <- 4, EpochLen <- 6,
    MaxPerEpoch <- 1, Separation <- 4, MaxEpisodes <- 2, GuardLen <- 1,
    Events <- McEvents, Controls <- {}, phase <- replayPhase, clock <- replayClock

\* A crisis and two control windows.
Windows == INSTANCE CrisisReplay WITH
    SymbolSeq <- <<"BTC">>, Dur <- McDur, Horizon <- 20, Gaps <- ReplayGaps,
    Warmup <- McWarmup, PoolStart <- 4, PoolEnd <- 14, ChunkLen <- 4, EpochLen <- 6,
    MaxPerEpoch <- 1, Separation <- 4, MaxEpisodes <- 2, GuardLen <- 2,
    Events <- ReplayEvents, Controls <- ReplayControls, phase <- replayPhase,
    clock <- replayClock

Strategy == INSTANCE StrategyRules WITH
    Bars <- MCBars, Contexts <- MCContexts, Regimes <- MCRegimes, MaxBars <- 4,
    Unit <- 48, SmaPeriod <- 2, AtrPeriod <- 2, PullbackLookback <- 2,
    BreakoutLookback <- 2, RewardRisk <- 2, FastPeriod <- 2, SlowPeriod <- 3,
    SpreadPct <- 2, SlopePct <- 1, EntryLookback <- 2, ExitLookback <- 1, EmaPeriod <- 3,
    RsiPeriod <- 2, MinReturnPct <- 20, MinRsi <- 55, MaxRsi <- 75, BaselinePeriod <- 3,
    MinExpansionPct <- 110, ExitExpansionPct <- 100, MinLocationPct <- 75,
    MaxExtensionPct <- 100, StopPct <- 150

\* Every lab over short cells.
Cell == INSTANCE LabCell WITH
    Labs <- {"HSL-001", "REFERENCE", "RECOVERY", "HSL-003", "HSL-004A", "HSL-004B"},
    Markets <- AllMarkets, Horizon <- 5, DayLen <- 3, Initial <- 100, SessionPct <- 2,
    DrawdownPct <- 10, MaxLosses <- 2, Cooldown <- 2, lab <- cellLab, clock <- cellClock

\* The two kill switches over long ones.
Tracker == INSTANCE LabCell WITH
    Labs <- {"REFERENCE", "RECOVERY"}, Markets <- TrackerMarkets, Horizon <- 9,
    DayLen <- 4, Initial <- 100, SessionPct <- 2, DrawdownPct <- 10, MaxLosses <- 2,
    Cooldown <- 2, lab <- cellLab, clock <- cellClock

Qualification == INSTANCE LabQualification WITH
    Labs <- {"HSL-001", "HSL-002", "HSL-003", "HSL-004A", "HSL-004B"},
    Protocols <- MCProtocols, Parents <- MCParents, Symbols <- <<"BTC", "ETH">>,
    FoldCount <- 2, Outcomes <- MCOutcomes, Controls <- MCControls, MinTrades <- 3,
    MinPerSymbol <- 1, MinProfitFactorPct <- 105, MinPositivePct <- 60,
    MaxSharePct <- 50, MaxDrawdownPct <- 10, phase <- qualPhase

-----------------------------------------------------------------------------
CrisisOff ==
    /\ crisisPublished = Off /\ crisisRest = Off /\ crisisTree = Off
    /\ crisisRot = Off /\ crisisPc = Off /\ crisisJob = Off /\ crisisLoaded = Off
    /\ crisisRuns = Off /\ crisisRevisions = Off

CrisisReplayOff ==
    /\ data = Off /\ st = Off /\ replayPhase = Off /\ replayClock = Off /\ turn = Off
    /\ chunkEnd = Off /\ epoch = Off /\ selected = Off /\ scannedEnd = Off
    /\ jobs = Off /\ reports = Off

StrategyOff ==
    /\ strategy = Off /\ primary = Off /\ context = Off /\ closes = Off /\ setup = Off

LabCellOff ==
    /\ cellLab = Off /\ cellClock = Off /\ cell = Off /\ tracker = Off /\ ended = Off
    /\ log = Off

LabQualificationOff ==
    /\ lab = Off /\ protocol = Off /\ parent = Off /\ qualPhase = Off /\ cells = Off
    /\ summary = Off /\ failures = Off /\ status = Off

MCInit ==
    /\ \/ part = "resume" /\ Init
       \/ part = "admission" /\ OneSet!Init
       \/ part = "pair" /\ TwoSets!Init
       \/ part = "scan" /\ Scan!ScanInit
       \/ part = "windows" /\ Windows!ReplayInit
       \/ part = "strategy" /\ Strategy!Init
       \/ part = "cell" /\ Cell!Init
       \/ part = "tracker" /\ Tracker!Init
       \/ part = "qualification" /\ Qualification!Init
    /\ IF part = "resume" THEN TRUE ELSE published = MCStart /\ rest = MCRestStart /\ Init
    /\ IF part \in {"admission", "pair"} THEN TRUE ELSE CrisisOff
    /\ IF part \in {"scan", "windows"} THEN TRUE ELSE CrisisReplayOff
    /\ IF part = "strategy" THEN TRUE ELSE StrategyOff
    /\ IF part \in {"cell", "tracker"} THEN TRUE ELSE LabCellOff
    /\ IF part = "qualification" THEN TRUE ELSE LabQualificationOff

\* The components share no state: the ones that do not run stay as they are.
Frame ==
    /\ part' = part
    /\ IF part \in {"admission", "pair"} THEN TRUE ELSE UNCHANGED <<crisisPublished,
           crisisRest, crisisTree, crisisRot, crisisPc, crisisJob, crisisLoaded,
           crisisRuns, crisisRevisions>>
    /\ IF part \in {"scan", "windows"} THEN TRUE ELSE UNCHANGED <<data, st, replayPhase,
           replayClock, turn, chunkEnd, epoch, selected, scannedEnd, jobs, reports>>
    /\ IF part = "strategy" THEN TRUE ELSE UNCHANGED <<strategy, primary, context,
           closes, setup>>
    /\ IF part \in {"cell", "tracker"} THEN TRUE ELSE UNCHANGED <<cellLab, cellClock,
           cell, tracker, ended, log>>
    /\ IF part = "qualification" THEN TRUE ELSE UNCHANGED <<lab, protocol, parent,
           qualPhase, cells, summary, failures, status>>
    /\ IF part = "resume" THEN TRUE ELSE UNCHANGED vars

MCNext ==
    \/ part = "resume" /\ Next /\ Frame
    \/ part = "admission" /\ OneSet!Next /\ Frame
    \/ part = "pair" /\ TwoSets!Next /\ Frame
    \/ part = "scan" /\ Scan!ScanNext /\ Frame
    \/ part = "windows" /\ Windows!ReplayNext /\ Frame
    \/ part = "strategy" /\ Strategy!Next /\ Frame
    \/ part = "cell" /\ Cell!Next /\ Frame
    \/ part = "tracker" /\ Tracker!Next /\ Frame
    \/ part = "qualification" /\ Qualification!Next /\ Frame

MCvars == <<part, vars, crisisPublished, crisisRest, crisisTree, crisisRot, crisisPc,
          crisisJob, crisisLoaded, crisisRuns, crisisRevisions, data, st, replayPhase,
          replayClock, turn, chunkEnd, epoch, selected, scannedEnd, jobs, reports,
          strategy, primary, context, closes, setup, cellLab, cellClock, cell, tracker,
          ended, log, lab, protocol, parent, qualPhase, cells, summary, failures,
          status>>

MCSpec == MCInit /\ [][MCNext]_MCvars

-----------------------------------------------------------------------------
\* What is replayed is there once and verified: the objects of a plan never supply the
\* same candle twice and leave no day out, whatever is wrong with one row, with the
\* answers of REST or with one of two datasets. The strategy-active scan finds the same
\* episodes however the corpus is cut into chunks: a position keeps the setup it was
\* entered with, candidates have candles in every interval and keep away from a crisis,
\* the selection is the greedy one, and a report holds nothing but its own window
\* (build_archive_objects, acquire_event, active_diagnostic, replay).
ReplayIsFaithful ==
    /\ part = "admission" => OneSet!OneSourcePerDay
    /\ part = "admission" => OneSet!AdmissionIsSound
    /\ part = "pair" => TwoSets!AdmissionIsSound
    /\ part = "scan" => Scan!PositionKeepsSetup
    /\ part = "scan" => Scan!CountersIgnoreChunks
    /\ part = "scan" => Scan!CandidatesAreAdmissible
    /\ part = "scan" => Scan!SelectionIsGreedy
    /\ part = "windows" => Windows!ReportsAreOfTheirWindow

\* The historical strategy lab judges what its rules did: a setup has its stop below
\* and its target above, an entry is no exit of its own, an ablation drops one filter
\* and no other; every cell balances, both risk trackers latch exactly when a reference
\* of the whole history does; a summary is of all trades, folds never overlap, and no
\* candidate qualifies by one trade.
LabIsExact ==
    /\ part = "strategy" => Strategy!SetupIsOrdered
    /\ part = "strategy" => Strategy!EntryIsNotSelfExit
    /\ part = "strategy" => Strategy!AblationRemovesOneFilter
    /\ part = "cell" => Cell!CellBalances
    /\ part = "tracker" => Tracker!RecoveryKillSwitchIsExact
    /\ part = "tracker" => Tracker!ReferenceLatchIsExact
    /\ part = "qualification" => Qualification!SummaryIsOfAllTrades
    /\ part = "qualification" => Qualification!FoldsNeverOverlap
    /\ part = "qualification" => Qualification!QualifiedIsNotOneTrade
=============================================================================
