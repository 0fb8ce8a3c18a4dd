-------------------------- MODULE MCResearchSearch --------------------------
(* The searches and the candidate factory: the moving-average replays and   *)
(* their ranking, volatility scaling, monthly membership and waves, the     *)
(* adjudication of candidates. They share no state; a behaviour runs one of *)
(* them (part).                                                             *)
EXTENDS MembershipWaves, Integers, Sequences, FiniteSets

CONSTANTS
    Off \* the variables of a component that is not the one running

VARIABLES
    part,  \* the component that runs, chosen once
    series, family, grid, replayHour, replaySearch, exact, blind, unit, overlay, report,
    market, search, orphans, searchLedgers, index, registered, rank, result, crashes,
    damages,
    scaleBars, above, move, held, fixed, expanding, scaleHour, cells, scaleVerdict,
    outcome, rho, pbo, done, rows, ledger, verdict, cleared, frozen

-----------------------------------------------------------------------------
\* Ranking: two folds of two symbols. steady and swinging pass and are incomparable;
\* lesser passes and is dominated by steady; liquidated passes the search and not the
\* recomputation; loser passes nothing.
Cell(trades, net, profit, loss, largest, stress, drawdown, liquidation) ==
    [trades |-> trades, net |-> net, profit |-> profit, loss |-> loss,
     largest |-> largest, stress |-> stress, stressRealized |-> stress,
     drawdown |-> drawdown, liquidation |-> liquidation]

MCKinds ==
    [steady |-> <<Cell(4, 6, 8, 2, 3, 3, 2, 0), Cell(4, 6, 8, 2, 3, 3, 2, 0),
                  Cell(4, 6, 8, 2, 3, 3, 2, 0), Cell(4, 6, 8, 2, 3, 3, 2, 0)>>,
     swinging |-> <<Cell(4, 9, 12, 3, 4, 5, 4, 0), Cell(4, 9, 12, 3, 4, 5, 4, 0),
                    Cell(4, 9, 12, 3, 4, 5, 5, 0), Cell(4, -1, 3, 4, 2, -2, 5, 0)>>,
     lesser |-> <<Cell(4, 5, 8, 3, 3, 2, 3, 0), Cell(4, 5, 8, 3, 3, 2, 3, 0),
                  Cell(4, 5, 8, 3, 3, 2, 3, 0), Cell(4, 5, 8, 3, 3, 2, 3, 0)>>,
     liquidated |-> <<Cell(4, 4, 7, 3, 3, 1, 2, 1), Cell(4, 4, 7, 3, 3, 1, 2, 2),
                      Cell(4, 4, 7, 3, 3, 1, 2, 2), Cell(4, 4, 7, 3, 3, 1, 2, 2)>>,
     loser |-> <<Cell(4, -4, 3, 7, 2, -6, 9, 0), Cell(4, -4, 3, 7, 2, -6, 9, 0),
                 Cell(4, -4, 3, 7, 2, -6, 9, 0), Cell(1, 1, 1, 0, 1, 0, 9, 0)>>]

\* The second family always holds good neighbourhoods.
Second(p) == IF p = <<3, 4>> THEN "loser" ELSE "steady"

\* Membership: symbols 1 to 4 over eight days; months start on days 4 and 6. Stable ranks
\* with a surge after the last month; a late listing, a gap and a tie; a symbol too young
\* and one delisted on the first of the second month.
T(a, b, c, d) == LET table == <<a, b, c, d>>
                 IN  [s \in 1 .. 4 |-> [x \in 0 .. 7 |-> table[s][x + 1]]]

MCTables ==
    {T(<<5, 5, 5, 5, 5, 5, 5, 5>>, <<4, 4, 4, 4, 4, 4, 4, 4>>, <<3, 3, 3, 3, 3, 3, 9, 9>>,
       <<2, 2, 2, 2, 2, 0, 0, 0>>),
     T(<<0, 3, 3, 3, 3, 3, 3, 3>>, <<0, 3, 3, 3, 9, 3, 3, 3>>, <<3, 3, 3, 3, 3, 0, 3, 3>>,
       <<4, 4, 4, 4, 1, 0, 0, 0>>),
     T(<<0, 0, 0, 2, 2, 2, 2, 2>>, <<0, 0, 0, 0, 5, 5, 5, 5>>, <<1, 1, 1, 1, 1, 1, 1, 1>>,
       <<1, 1, 1, 1, 1, 1, 0, 0>>)}

MCDelisted == [s \in 1 .. 4 |-> IF s = 4 THEN 6 ELSE 0]

\* What stands there while another component runs.
MCTruth == [s \in 1 .. 4 |-> IF s = 1 THEN "NONORDINARY" ELSE "ORDINARY"]
MCTable == CHOOSE t \in MCTables : TRUE

\* Adjudication: a square of four candidates of one family, one of another, one blocked.
O(pass, stress, limit, metric) == [pass |-> pass, stress |-> stress, limit |-> limit, metric |-> metric]
Good == O(TRUE, 2, 400, 1)
Best == O(TRUE, 1, 250, 2)
Weak == O(TRUE, 1, 150, 1)
Bad == O(FALSE, -1, 0, 0)

MCKind == [c \in 1 .. 6 |-> IF c = 6 THEN "BLOCKED" ELSE "EXECUTABLE"]
MCFamily == [c \in 1 .. 6 |-> IF c = 5 THEN "g" ELSE "f"]
MCVector == <<<<1, 1>>, <<1, 2>>, <<2, 1>>, <<2, 2>>, <<1, 1>>, <<1, 3>>>>

MCOutcomes == {o \in [1 .. 5 -> {Good, Best, Weak, Bad}] : o[5] = Good /\ o[4] # Weak}
Pairs == {{i, j} : i \in 1 .. 5, j \in 1 .. 5} \ {{i} : i \in 1 .. 5}
MCRhos == {[p \in Pairs |-> IF p \in strong THEN 90 ELSE 0] : strong \in
            {{}, {{1, 3}, {2, 3}}, {{1, 2}, {3, 4}}, {{1, 4}, {2, 4}, {3, 4}}, Pairs}}
MCPbos == {[f \in {"f", "g"} |-> TRUE], [f \in {"f", "g"} |-> FALSE]}

\* Two executable candidates, one blocked and one invalid, with every row that can be written for them.
MCKindFew == <<"EXECUTABLE", "BLOCKED", "INVALID", "EXECUTABLE">>
MCFamilyFew == <<"f", "f", "f", "g">>
MCVectorFew == <<<<1, 1>>, <<1, 2>>, <<2, 2>>, <<1, 1>>>>
MCOutcomesFew == {o \in [{1, 4} -> {Good, Bad}] : o[1] = Good}
MCRhosFew == {[p \in {{1, 4}} |-> 0]}

\* Scaling: three shapes of moves, a hole at each kind of hour, four crossing hours.
MCMoves == {<<1, -1>>, <<2, -1, 0>>, <<-2, 1, -1, 0>>}
MCHoles == {{}, {23, 24, 25}} \cup {{t} : t \in {17, 18, 23, 24, 25, 28, 30, 34}}
MCCrosses == {2, 18, 24, 33}

-----------------------------------------------------------------------------
\* The trials of the grid, whatever the market.
Grid == INSTANCE SurvivorRanking WITH
    Families <- <<"SMA", "EMA">>, Complexity <- [SMA |-> 1, EMA |-> 2], GridSize <- 4,
    Kinds <- MCKinds, Symbols <- <<"BTC", "ETH">>, Markets <- {}, MinTrades <- 10,
    MinPerSymbol <- 4, MinPF <- 105, NeighborPF <- 102, MinPositive <- 60,
    NeighborPositive <- 50, MaxDrawdown <- 6, MaxShare <- 40, MinNeighbors <- 2,
    NeighborShare <- 50, FamilyCap <- 2, OverallCap <- 3, MaxCrashes <- 0,
    MaxDamages <- 0, ledgers <- searchLedgers

MarketOf(a, b(_)) ==
    [t \in Grid!Trials |-> IF t.family = "SMA" THEN a[t.pair] ELSE b(t.pair)]

\* The last pair of the first family is always a good neighbour.
MCMarkets ==
    {MarketOf([p \in Grid!TrialPairs |-> IF p = <<3, 4>> THEN "steady" ELSE a[p]], Second) :
        a \in [Grid!TrialPairs \ {<<3, 4>>} -> {"steady", "swinging", "lesser", "loser"}]}

\* For the runs with faults.
MCFewMarkets ==
    {MarketOf([p \in Grid!TrialPairs |-> IF p = <<1, 2>> THEN "loser" ELSE k], Second) :
        k \in {"steady", "liquidated"}}

Ma == INSTANCE MaReplay WITH
    Hours <- 6, Prices <- {2, 4, 5}, Holes <- {0, 3},
    Families <- {"TREND_MA_SMA", "TREND_MA_DEMA"}, Short <- 1, Long <- 2, Start <- 1,
    End <- 6, Score <- 4, Initial <- 400000, BaseFee <- 1, BaseSlip <- 1, StressFee <- 2,
    StressSlip <- 2, StopPercent <- 40, QuarterLen <- 4, i <- replayHour,
    search <- replaySearch

\* Every market over an undisturbed grid.
Ranking == INSTANCE SurvivorRanking WITH
    Families <- <<"SMA", "EMA">>, Complexity <- [SMA |-> 1, EMA |-> 2], GridSize <- 4,
    Kinds <- MCKinds, Symbols <- <<"BTC", "ETH">>, Markets <- MCMarkets, MinTrades <- 10,
    MinPerSymbol <- 4, MinPF <- 105, NeighborPF <- 102, MinPositive <- 60,
    NeighborPositive <- 50, MaxDrawdown <- 6, MaxShare <- 40, MinNeighbors <- 2,
    NeighborShare <- 50, FamilyCap <- 2, OverallCap <- 3, MaxCrashes <- 0,
    MaxDamages <- 0, ledgers <- searchLedgers

\* Two markets with two crashes and two damaged files.
Faults == INSTANCE SurvivorRanking WITH
    Families <- <<"SMA", "EMA">>, Complexity <- [SMA |-> 1, EMA |-> 2], GridSize <- 4,
    Kinds <- MCKinds, Symbols <- <<"BTC", "ETH">>, Markets <- MCFewMarkets,
    MinTrades <- 10, MinPerSymbol <- 4, MinPF <- 105, NeighborPF <- 102,
    MinPositive <- 60, NeighborPositive <- 50, MaxDrawdown <- 6, MaxShare <- 40,
    MinNeighbors <- 2, NeighborShare <- 50, FamilyCap <- 2, OverallCap <- 3,
    MaxCrashes <- 2, MaxDamages <- 2, ledgers <- searchLedgers

Scaling == INSTANCE VolScaling WITH
    HoursPerDay <- 2, DaysPerMonth <- 3, Months <- 6, Scored <- 3, FirstManaged <- 1,
    Long <- 2, Window <- 4, Target <- 2, MinPairs <- 2, MinNegatives <- 2, Unit <- 4,
    Quantity <- 3, CrossHours <- MCCrosses, MovePatterns <- MCMoves, Holes <- MCHoles,
    i <- scaleHour, bars <- scaleBars, verdict <- scaleVerdict

Adjudication == INSTANCE CandidateAdjudication WITH
    Raw <- {1, 2, 3, 4, 5, 6}, Kind <- MCKind, Family <- MCFamily, Vector <- MCVector,
    Outcomes <- MCOutcomes, Rhos <- MCRhos, Pbos <- MCPbos, MinNeighbors <- 2,
    MaxRows <- 0

\* A small universe with every row a ledger may hold.
Ledger == INSTANCE CandidateAdjudication WITH
    Raw <- {1, 2, 3, 4}, Kind <- MCKindFew, Family <- MCFamilyFew, Vector <- MCVectorFew,
    Outcomes <- MCOutcomesFew, Rhos <- MCRhosFew, Pbos <- MCPbos, MinNeighbors <- 2,
    MaxRows <- 2

ASSUME Ma!WindowsAssumption
ASSUME Ma!FoldAssumption
ASSUME Scaling!CalendarAssumption
ASSUME Scaling!WindowAssumption
ASSUME Adjudication!BoundsAssumption
ASSUME Ledger!BoundsAssumption

-----------------------------------------------------------------------------
MaReplayOff ==
    /\ series = Off /\ family = Off /\ grid = Off /\ replayHour = Off
    /\ replaySearch = Off /\ exact = Off /\ blind = Off /\ unit = Off /\ overlay = Off
    /\ report = Off

RankingOff ==
    /\ market = Off /\ search = Off /\ orphans = Off /\ searchLedgers = Off
    /\ index = Off /\ registered = Off /\ rank = Off /\ result = Off /\ crashes = Off
    /\ damages = Off

VolScalingOff ==
    /\ scaleBars = Off /\ above = Off /\ move = Off /\ held = Off /\ fixed = Off
    /\ expanding = Off /\ scaleHour = Off /\ cells = Off /\ scaleVerdict = Off

AdjudicationOff ==
    /\ outcome = Off /\ rho = Off /\ pbo = Off /\ done = Off /\ rows = Off
    /\ ledger = Off /\ verdict = Off /\ cleared = Off /\ frozen = Off

MCInit ==
    /\ \/ part = "membership" /\ Init
       \/ part = "ma" /\ Ma!Init
       \/ part = "ranking" /\ Ranking!Init
       \/ part = "faults" /\ Faults!Init
       \/ part = "scaling" /\ Scaling!Init
       \/ part = "adjudication" /\ Adjudication!Init
       \/ part = "ledger" /\ Ledger!Init
    /\ IF part = "membership" THEN TRUE ELSE truth = MCTruth /\ bars = MCTable /\ Init
    /\ IF part = "ma" THEN TRUE ELSE MaReplayOff
    /\ IF part \in {"ranking", "faults"} THEN TRUE ELSE RankingOff
    /\ IF part = "scaling" THEN TRUE ELSE VolScalingOff
    /\ IF part \in {"adjudication", "ledger"} THEN TRUE ELSE AdjudicationOff

\* The components share no state: the ones that do not run stay as they are.
Frame ==
    /\ part' = part
    /\ IF part = "ma" THEN TRUE ELSE UNCHANGED <<series, family, grid, replayHour,
           replaySearch, exact, blind, unit, overlay, report>>
    /\ IF part \in {"ranking", "faults"} THEN TRUE ELSE UNCHANGED <<market, search,
           orphans, searchLedgers, index, registered, rank, result, crashes, damages>>
    /\ IF part = "scaling" THEN TRUE ELSE UNCHANGED <<scaleBars, above, move, held,
           fixed, expanding, scaleHour, cells, scaleVerdict>>
    /\ IF part \in {"adjudication", "ledger"} THEN TRUE ELSE UNCHANGED <<outcome, rho,
           pbo, done, rows, ledger, verdict, cleared, frozen>>
    /\ IF part = "membership" THEN TRUE ELSE UNCHANGED vars

MCNext ==
    \/ part = "membership" /\ Next /\ Frame
    \/ part = "ma" /\ Ma!Next /\ Frame
    \/ part = "ranking" /\ Ranking!Next /\ Frame
    \/ part = "faults" /\ Faults!Next /\ Frame
    \/ part = "scaling" /\ Scaling!Next /\ Frame
    \/ part = "adjudication" /\ Adjudication!Next /\ Frame
    \/ part = "ledger" /\ Ledger!Next /\ Frame

MCvars == <<part, vars, series, family, grid, replayHour, replaySearch, exact, blind,
          unit, overlay, report, market, search, orphans, searchLedgers, index,
          registered, rank, result, crashes, damages, scaleBars, above, move, held,
          fixed, expanding, scaleHour, cells, scaleVerdict, outcome, rho, pbo, done,
          rows, ledger, verdict, cleared, frozen>>

MCSpec == MCInit /\ [][MCNext]_MCvars

-----------------------------------------------------------------------------
\* The five copies of the moving-average cell agree: the recomputations reproduce the
\* search, a position held against the trend is one whose fill is missing, quarters add
\* up to the year, a unit scores the returns of its own window, and the stop overlay
\* only ever removes exposure. The scale of a month is computed from returns before it,
\* changes the size of a position and never its direction, and is the one in force in
\* every hour of the month, holes at the boundary included (vol_scaling,
\* downside_vol_scaling).
CellsAgree ==
    /\ part = "ma" => Ma!RecomputationsAgree
    /\ part = "ma" => Ma!HeldAgainstTheTrend
    /\ part = "ma" => Ma!QuartersAddUp
    /\ part = "ma" => Ma!UnitScoresItsWindow
    /\ part = "ma" => Ma!StopOnlyRemovesExposure
    /\ part = "scaling" => Scaling!ScaleSeesOnlyThePast
    /\ part = "scaling" => Scaling!DirectionUntouched
    /\ part = "scaling" => Scaling!SizedByItsScale
    /\ part = "scaling" => Scaling!MonthsScaleInForce

\* What survives is the best there is: every eligible trial is dominated by one of the
\* front, the caps keep the best of each family, and a ranking is only ever made of a full
\* grid, whatever crashes and damaged files came before; neighbourhood is mutual, the
\* review batch holds one candidate of each cluster of correlated bets, and a ledger is
\* accepted exactly if it has the rows of the verdict (survivor_ranking, adjudication,
\* production_ledger).
SelectionIsSound ==
    /\ part = "ranking" => Ranking!FrontCoversTheEligible
    /\ part = "ranking" => Ranking!CapsKeepTheBest
    /\ part = "faults" => Faults!RankedFromTheFullGrid
    /\ part = "adjudication" => Adjudication!NeighborsMutual
    /\ part = "adjudication" => Adjudication!OneBetPerCluster
    /\ part = "ledger" => Ledger!LedgerMatchesVerdict
=============================================================================
