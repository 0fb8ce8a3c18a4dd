--------------------------- MODULE SurvivorRanking ---------------------------
(* The historical strategy search and the choice of its survivors: HSSE-002    *)
(* writes one ledger of trials per family and an index, HSSE-003 loads them,   *)
(* recomputes the trials that passed exactly and ranks them. Files outlive a   *)
(* killed process and may be damaged before they are read.                     *)
EXTENDS Integers, Sequences, FiniteSets, SequencesExt

CONSTANTS
    Families,        \* the families in their registered order, a sequence
    Complexity,      \* family -> complexity rank
    GridSize,        \* windows are 1 .. GridSize grid steps
    Kinds,           \* what a trial may turn out to be: kind -> cells, a sequence
                     \* of records, fold by fold and symbol by symbol
    Symbols,         \* the symbols in sorted order, a sequence
    Markets,         \* assignments of kinds to trials that are explored
    MinTrades, MinPerSymbol, MinPF, NeighborPF, MinPositive, NeighborPositive,
    MaxDrawdown, MaxShare,      \* gates; ratios in percent
    MinNeighbors, NeighborShare,
    FamilyCap, OverallCap,
    MaxCrashes, MaxDamages

VARIABLES
    market,      \* trial -> Evidence: what the corpus makes of every trial
    search,      \* the running search process
    orphans,     \* temporary ledgers left behind by a killed process
    ledgers,     \* family -> ledger on disk
    index,       \* the index on disk
    registered,  \* what the HSSE-003 protocol binds to, once a search returned
    rank,        \* the running ranking process
    result,      \* the ranking result on disk
    crashes, damages

vars == <<market, search, orphans, ledgers, index, registered, rank, result,
          crashes, damages>>

-----------------------------------------------------------------------------
(* The trial matrix                                                          *)

FamilyNames == {Families[k] : k \in DOMAIN Families}
TrialPairs == {p \in (1 .. GridSize) \X (1 .. GridSize) : p[1] < p[2]}
Trials == [family : FamilyNames, pair : TrialPairs]
OfFamily(f) == {t \in Trials : t.family = f}

-----------------------------------------------------------------------------
(* A trial's figures, from its cells                                         *)

Total(cells, field) ==
    LET sum[k \in 0 .. Len(cells)] == IF k = 0 THEN 0 ELSE sum[k - 1] + cells[k][field]
    IN  sum[Len(cells)]

Largest(cells, field) ==
    CHOOSE v \in {0} \cup {cells[k][field] : k \in DOMAIN cells} :
        v >= 0 /\ \A k \in DOMAIN cells : cells[k][field] <= v

SymbolOf(k) == Symbols[((k - 1) % Len(Symbols)) + 1]

CompletedBySymbol(cells, s) ==
    Total(SelectSeq([k \in DOMAIN cells |-> [s |-> SymbolOf(k), n |-> cells[k].trades]],
                    LAMBDA c : c.s = s), "n")

\* Twice the median, so that it stays a whole number.
Median(values) ==
    LET o == SortSeq(values, LAMBDA a, b : a < b)
        n == Len(o)
    IN  IF n % 2 = 1 THEN 2 * o[(n + 1) \div 2] ELSE o[n \div 2] + o[(n \div 2) + 1]

\* The median of the lower half.
LowerQuartile(values) ==
    LET o == SortSeq(values, LAMBDA a, b : a < b)
    IN  Median(IF Len(o) < 2 THEN o ELSE SubSeq(o, 1, Len(o) \div 2))

Infinite == 1000000
NoFactor == -1

\* In percent; infinite without a loss, nothing without a trade.
ProfitFactor(gp, gl) ==
    IF gl = 0 THEN (IF gp > 0 THEN Infinite ELSE NoFactor) ELSE (gp * 100) \div gl

\* An expectancy has the sign of the realized result.
Figures(cells) ==
    LET gp == Total(cells, "profit")
        gl == Total(cells, "loss")
        nets == [k \in DOMAIN cells |-> cells[k].net]
    IN  [completed  |-> Total(cells, "trades"),
         bySymbol   |-> [s \in ToSet(Symbols) |-> CompletedBySymbol(cells, s)],
         net        |-> Total(cells, "net"),
         realized   |-> gp - gl,
         stress     |-> Total(cells, "stress"),
         stressRealized |-> Total(cells, "stressRealized"),
         pf         |-> ProfitFactor(gp, gl),
         positive   |-> (100 * Cardinality({k \in DOMAIN cells : cells[k].net > 0}))
                        \div Len(cells),
         drawdown   |-> Largest(cells, "drawdown"),
         share      |-> IF gp = 0 THEN 0 ELSE (100 * Largest(cells, "largest")) \div gp,
         median     |-> Median(nets),
         quartile   |-> LowerQuartile(nets)]

\* The search marks an open position at the close; the exact recomputation takes
\* what its liquidation would cost off.
SearchCells(kind) == Kinds[kind]
ExactCells(kind) ==
    [k \in DOMAIN Kinds[kind] |->
        [Kinds[kind][k] EXCEPT !.net = @ - Kinds[kind][k].liquidation,
                               !.stress = @ - Kinds[kind][k].liquidation]]

FailureReasons(x) ==
    {r \in {"TRADES", "PER_SYMBOL", "NET", "EXPECTANCY", "PF", "POSITIVE", "DRAWDOWN",
            "CONCENTRATION", "STRESS_NET", "STRESS_EXPECTANCY"} :
        CASE r = "TRADES"     -> x.completed < MinTrades
          [] r = "PER_SYMBOL" -> \E s \in DOMAIN x.bySymbol : x.bySymbol[s] < MinPerSymbol
          [] r = "NET"        -> x.net <= 0
          [] r = "EXPECTANCY" -> x.completed = 0 \/ x.realized <= 0
          [] r = "PF"         -> x.pf < MinPF
          [] r = "POSITIVE"   -> x.positive < MinPositive
          [] r = "DRAWDOWN"   -> x.drawdown > MaxDrawdown
          [] r = "CONCENTRATION" -> x.share > MaxShare
          [] r = "STRESS_NET" -> x.stress <= 0
          [] r = "STRESS_EXPECTANCY" -> x.completed = 0 \/ x.stressRealized <= 0}

NeighborPass(x) ==
    /\ x.net > 0 /\ x.completed > 0 /\ x.realized > 0
    /\ x.pf >= NeighborPF
    /\ x.positive >= NeighborPositive
    /\ x.stress > 0

\* What is known of a kind: the ledger record and the exact recomputation.
Evidence(kind) ==
    LET s == Figures(SearchCells(kind))
        x == Figures(ExactCells(kind))
    IN  [eligible |-> FailureReasons(s) = {}, neighbor |-> NeighborPass(s),
         gate |-> FailureReasons(x) = {}, exact |-> x]

Prechecked(t) == market[t].eligible

-----------------------------------------------------------------------------
(* HSSE-002: the search                                                      *)

\* passed are the trials recorded as eligible; a ledger is intact while its digest and
\* those of its lines are the ones it was written with.
Absent == [state |-> "absent", trials |-> {}, passed |-> {}, intact |-> TRUE]
Whole(f) == [state |-> "whole", trials |-> OfFamily(f), intact |-> TRUE,
             passed |-> {t \in OfFamily(f) : Prechecked(t)}]
NoSearch == [step |-> "off", family |-> 0]

StartSearch ==
    /\ search.step = "off" /\ registered = {}
    /\ search' = [step |-> "trials", family |-> 1]
    /\ UNCHANGED <<market, orphans, ledgers, index, registered, rank, result, crashes, damages>>

\* All trials of a family are written to a temporary ledger and synced.
WriteTrials ==
    /\ search.step = "trials"
    /\ search' = [search EXCEPT !.step = "finalize"]
    /\ UNCHANGED <<market, orphans, ledgers, index, registered, rank, result, crashes, damages>>

\* _finalize_ledger: the name of a ledger is its digest, so a ledger that exists and
\* has it is the same one.
FinalizeLedger ==
    LET f == Families[search.family]
        last == search.family = Len(Families)
    IN  /\ search.step = "finalize"
        /\ IF ledgers[f].state = "whole" /\ ~ledgers[f].intact
           THEN search' = NoSearch /\ UNCHANGED ledgers
           ELSE /\ ledgers' = [ledgers EXCEPT ![f] = Whole(f)]
                /\ search' = IF last THEN [search EXCEPT !.step = "index"]
                             ELSE [step |-> "trials", family |-> search.family + 1]
        /\ UNCHANGED <<market, orphans, index, registered, rank, result, crashes, damages>>

\* _write_index creates the file and then writes it. An index of that name that is
\* already there must be the same.
WriteIndex ==
    /\ search.step \in {"index", "indexOpen"}
    /\ IF search.step = "indexOpen"
       THEN index' = "whole" /\ search' = [search EXCEPT !.step = "done"]
       ELSE IF index = "absent"
       THEN index' = "torn" /\ search' = [search EXCEPT !.step = "indexOpen"]
       ELSE /\ search' = IF index = "whole" THEN [search EXCEPT !.step = "done"] ELSE NoSearch
            /\ UNCHANGED index
    /\ UNCHANGED <<market, orphans, ledgers, registered, rank, result, crashes, damages>>

\* The HSSE-003 protocol is written from what a finished search returned: digests and
\* counts.
Register ==
    /\ search.step = "done"
    /\ registered' = {[passed |-> {t \in Trials : Prechecked(t)}]}
    /\ search' = NoSearch
    /\ UNCHANGED <<market, orphans, ledgers, index, rank, result, crashes, damages>>

\* A trial, or the write of one, raises: the temporary ledger is removed.
AbortSearch ==
    /\ search.step \in {"trials", "finalize"} /\ crashes < MaxCrashes
    /\ search' = NoSearch /\ crashes' = crashes + 1
    /\ UNCHANGED <<market, orphans, ledgers, index, registered, rank, result, damages>>

\* The process is killed: nothing is cleaned up.
KillSearch ==
    /\ search.step # "off" /\ crashes < MaxCrashes
    /\ orphans' = IF search.step = "finalize" THEN orphans + 1 ELSE orphans
    /\ search' = NoSearch /\ crashes' = crashes + 1
    /\ UNCHANGED <<market, ledgers, index, registered, rank, result, damages>>

\* A ledger loses a line or has the verdict of one altered.
DamageLedger(f) ==
    /\ ledgers[f].state = "whole" /\ damages < MaxDamages
    /\ \E t \in OfFamily(f) :
         \/ ledgers' = [ledgers EXCEPT ![f].trials = @ \ {t}, ![f].passed = @ \ {t},
                                       ![f].intact = FALSE]
         \/ ledgers' = [ledgers EXCEPT ![f].intact = FALSE,
                          ![f].passed = IF t \in @ THEN @ \ {t} ELSE @ \cup {t}]
    /\ damages' = damages + 1
    /\ UNCHANGED <<market, search, orphans, index, registered, rank, result, crashes>>

-----------------------------------------------------------------------------
(* HSSE-003: loading, exact recomputation and ranking                         *)

Idle == [step |-> "idle", candidates |-> {}]

\* _load_ledger: the digest of the file, of every line, the exact grid, the counts.
LedgerAccepted(f) ==
    /\ ledgers[f].state = "whole" /\ ledgers[f].intact
    /\ ledgers[f].trials = OfFamily(f)

\* run_ranking up to the list of candidates.
Load ==
    LET precheck == UNION {ledgers[f].passed : f \in FamilyNames}
        accepted == index = "whole" /\ \A f \in FamilyNames : LedgerAccepted(f)
    IN  /\ registered # {} /\ rank.step = "idle" /\ result.state # "whole"
        /\ accepted
        /\ rank' = [step |-> "loaded", candidates |-> precheck]
        /\ UNCHANGED <<market, search, orphans, ledgers, index, registered, result,
                       crashes, damages>>

Neighbors(t) ==
    {u \in OfFamily(t.family) :
        \E d \in {<<-1, 0>>, <<1, 0>>, <<0, -1>>, <<0, 1>>} :
            u.pair = <<t.pair[1] + d[1], t.pair[2] + d[2]>>}

NeighborFraction(t) ==
    LET valid   == Neighbors(t)
        passing == {u \in valid : market[u].neighbor}
    IN  IF valid = {} THEN 0 ELSE (100 * Cardinality(passing)) \div Cardinality(valid)

NeighborRobust(t) ==
    Cardinality(Neighbors(t)) >= MinNeighbors /\ NeighborFraction(t) >= NeighborShare

Vector(t) ==
    LET x == market[t].exact
    IN  <<x.median, x.quartile, x.pf, -x.drawdown, x.stress, NeighborFraction(t)>>

Dominates(t, u) ==
    LET a == Vector(t)
        b == Vector(u)
    IN  (\A k \in 1 .. 6 : a[k] >= b[k]) /\ \E k \in 1 .. 6 : a[k] > b[k]

FamilyIndex(f) == CHOOSE k \in DOMAIN Families : Families[k] = f

\* Smaller is better.
TieKey(t) ==
    LET x == market[t].exact
    IN  <<-x.quartile, -x.median, -x.pf, x.drawdown, Complexity[t.family], x.share,
          FamilyIndex(t.family), t.pair[1], t.pair[2]>>

RanksBefore(t, u) ==
    LET a == TieKey(t)
        b == TieKey(u)
    IN  \E k \in 1 .. 9 : a[k] < b[k] /\ \A j \in 1 .. (k - 1) : a[j] = b[j]

Eligible(candidates) ==
    {t \in candidates : market[t].gate /\ NeighborRobust(t)}

Frontier(candidates) ==
    LET eligible == Eligible(candidates)
    IN  {t \in eligible : \A u \in eligible \ {t} : ~Dominates(u, t)}

\* A family that is full is passed over; the overall cap ends the selection.
Selected(ordered) ==
    LET Full(l, f) == Cardinality({k \in DOMAIN l : l[k].family = f}) >= FamilyCap
        pick[k \in 0 .. Len(ordered)] ==
            IF k = 0 THEN <<>>
            ELSE LET s == pick[k - 1]
                 IN  IF Len(s) >= OverallCap \/ Full(s, ordered[k].family)
                     THEN s ELSE Append(s, ordered[k])
    IN  pick[Len(ordered)]

\* The set in ascending order.
Ordered(S) ==
    LET prefix[k \in 0 .. Cardinality(S)] ==
            IF k = 0 THEN <<>>
            ELSE LET done == prefix[k - 1]
                     rest == S \ ToSet(done)
                 IN  Append(done, CHOOSE t \in rest : \A u \in rest \ {t} : RanksBefore(t, u))
    IN  prefix[Cardinality(S)]

Ranked(candidates) ==
    LET frontier == Frontier(candidates)
    IN  [candidates |-> candidates, frontier |-> frontier,
         selected |-> Selected(Ordered(frontier))]

\* The candidates are recomputed and ranked; their number must be the registered one.
RankCandidates ==
    /\ rank.step = "loaded"
    /\ \E r \in registered :
         rank' = IF Cardinality(rank.candidates) # Cardinality(r.passed) THEN Idle
                 ELSE [step |-> "write", candidates |-> rank.candidates]
    /\ UNCHANGED <<market, search, orphans, ledgers, index, registered, result,
                   crashes, damages>>

NoResult == [state |-> "absent", candidates |-> {}, frontier |-> {}, selected |-> <<>>]

\* _write_result: created, then written; an existing one must be the same.
WriteResult ==
    /\ rank.step \in {"write", "writeOpen"}
    /\ \/ /\ rank.step = "writeOpen"
          /\ result' = [state |-> "whole"] @@ Ranked(rank.candidates)
          /\ rank' = Idle
       \/ /\ rank.step = "write" /\ result.state = "absent"
          /\ result' = [result EXCEPT !.state = "torn"]
          /\ rank' = [rank EXCEPT !.step = "writeOpen"]
       \/ /\ rank.step = "write" /\ result.state # "absent"
          /\ rank' = Idle
          /\ UNCHANGED result
    /\ UNCHANGED <<market, search, orphans, ledgers, index, registered, crashes, damages>>

KillRanking ==
    /\ rank.step # "idle" /\ crashes < MaxCrashes
    /\ rank' = Idle /\ crashes' = crashes + 1
    /\ UNCHANGED <<market, search, orphans, ledgers, index, registered, result, damages>>

Init ==
    /\ \E m \in Markets : market = [t \in Trials |-> Evidence(m[t])]
    /\ search = NoSearch /\ orphans = 0
    /\ ledgers = [f \in FamilyNames |-> Absent]
    /\ index = "absent" /\ registered = {}
    /\ rank = Idle /\ result = NoResult
    /\ crashes = 0 /\ damages = 0

Next ==
    \/ StartSearch \/ WriteTrials \/ FinalizeLedger \/ WriteIndex \/ Register
    \/ AbortSearch \/ KillSearch \/ KillRanking
    \/ \E f \in FamilyNames : DamageLedger(f)
    \/ Load \/ RankCandidates \/ WriteResult

Spec == Init /\ [][Next]_vars

-----------------------------------------------------------------------------
(* Properties                                                                *)

\* Whatever was killed, repeated or damaged on the way, a ranking that was written is
\* over all trials of the whole matrix that passed the search, and over no other
\* (_load_ledger, run_ranking).
RankedFromTheFullGrid ==
    result.state = "whole" => result.candidates = {t \in Trials : Prechecked(t)}

\* The Pareto front loses nothing: an eligible trial is on it or dominated by a member
\* of it, and no trial on it is dominated (_rank, _dominates).
FrontCoversTheEligible ==
    result.state = "whole" =>
        \A t \in Eligible(result.candidates) :
            (t \in result.frontier) <=> ~\E u \in result.frontier : Dominates(u, t)

\* The caps only leave a trial out for better ones: a member of the front that is not
\* selected sees its family full, or the whole list, with trials that rank before it.
CapsKeepTheBest ==
    LET chosen == ToSet(result.selected)
        better(t) == {u \in chosen : RanksBefore(u, t)}
    IN  result.state = "whole" =>
          \A t \in result.frontier \ chosen :
              \/ Cardinality({u \in better(t) : u.family = t.family}) >= FamilyCap
              \/ Cardinality(better(t)) >= OverallCap
=============================================================================
