------------------------------ MODULE VolScaling ------------------------------
(* Monthly volatility scaling of the frozen moving-average strategies: the    *)
(* 183-day estimator of GEN2-002 and the expanding total and downside         *)
(* estimators of GEN2-003. The plan of scales is computed from the whole      *)
(* Development series before any cell is replayed; then the control and the   *)
(* scaled cells walk over the same bars. Money is left to MaReplay: an        *)
(* account is here its quantity and its open cycle. Scales are in parts of    *)
(* Unit, roots are taken to one decimal.                                      *)
EXTENDS Integers, Sequences, FiniteSets

CONSTANTS
    HoursPerDay, DaysPerMonth, Months,  \* the calendar: hours 0, 1, ...
    Scored,             \* the first scored month, which starts the fold
    FirstManaged,       \* first month whose return may enter the training
    Long,               \* hours of a contiguous run before indicators are finite
    Window,             \* days of the GEN2-002 estimator
    Target,             \* its target, over the root of the window's square sum
    MinPairs, MinNegatives,
    Unit, Quantity,
    CrossHours,         \* hours at which the two averages may change places
    MovePatterns,       \* returns of the days, one sequence of days each
    Holes               \* sets of hours the series may lack

CalendarAssumption ==
    /\ HoursPerDay \in Nat \ {0} /\ DaysPerMonth \in Nat \ {0}
    /\ 0 < FirstManaged /\ FirstManaged < Scored /\ Scored < Months
\* A window is longer than a month and than the longest average.
WindowAssumption == Window >= DaysPerMonth /\ Window * HoursPerDay >= Long

VARIABLES
    bars,       \* the hours the series has, in order
    above,      \* per hour: the short average lies above the long one
    move,       \* per day: the return of an hour of it that is held
    held,       \* per bar: the control is long, from the start of the series
    fixed,      \* the GEN2-002 plan
    expanding,  \* the two GEN2-003 plans
    i,          \* the bar the cells work on
    cells, verdict

vars == <<bars, above, move, held, fixed, expanding, i, cells, verdict>>

MonthHours == HoursPerDay * DaysPerMonth
End == Months * MonthHours
Hours == 0 .. End - 1
CalendarDays == 0 .. (Months * DaysPerMonth) - 1
MonthOf(t) == t \div MonthHours
DayOf(t) == t \div HoursPerDay
Boundary(m) == m * MonthHours
ScoredMonths == Scored .. Months - 1
Least(a, b) == IF a < b THEN a ELSE b

Conditions2 == {"CONTROL", "VOL_SCALED"}
Conditions3 == {"CONTROL_003", "TOTAL", "DOWNSIDE"}
Conditions == Conditions2 \cup Conditions3

\* The root of n, rounded down.
Root(n) == CHOOSE r \in 0 .. n : r * r <= n /\ (r + 1) * (r + 1) > n

Total(s) == LET sum[k \in 0 .. Len(s)] == IF k = 0 THEN 0 ELSE sum[k - 1] + s[k]
            IN  sum[Len(s)]
Squares(s) == Total([k \in DOMAIN s |-> s[k] * s[k]])

-----------------------------------------------------------------------------
(* The control and its returns                                               *)

Contiguous(bs, k) == k > 1 /\ bs[k] = bs[k - 1] + 1

\* Both averages of bar k are finite: the run that ends in it is long enough.
Finite(bs, k) == k >= Long /\ bs[k] - bs[k - Long + 1] = Long - 1

CrossUp(bs, k) == above[bs[k]] /\ ~above[bs[k - 1]]
CrossDown(bs, k) == ~above[bs[k]] /\ above[bs[k - 1]]
Comparable(bs, k) == k > 1 /\ Finite(bs, k) /\ Finite(bs, k - 1)

\* _control_positions: a cross takes effect with the next contiguous bar.
Positions(bs) ==
    LET p[k \in 0 .. Len(bs)] ==
            IF k = 0 THEN FALSE
            ELSE IF k > 2 /\ Contiguous(bs, k) /\ Comparable(bs, k - 1)
                 THEN IF p[k - 1] THEN ~CrossDown(bs, k - 1) ELSE CrossUp(bs, k - 1)
                 ELSE p[k - 1]
    IN  [k \in DOMAIN bs |-> p[k]]

\* _daily_control_returns: the days with every hour following its predecessor, the
\* first day of the series never among them.
FullDays(bs) ==
    {d \in CalendarDays \ {0} :
        \A t \in (d * HoursPerDay) .. (d * HoursPerDay + HoursPerDay - 1) :
            \E k \in DOMAIN bs : bs[k] = t /\ Contiguous(bs, k)}

\* The series as the estimators see it: the full days, their returns and the days
\* of _monthly_inputs on which hours are missing while the bar before them is long.
Inputs(bs, pos) ==
    [full |-> FullDays(bs),
     daily |-> [d \in CalendarDays |->
                    move[d] * Cardinality({k \in DOMAIN bs : DayOf(bs[k]) = d /\ pos[k]})],
     exposed |-> UNION {{DayOf(t) : t \in (bs[k] + 1) .. bs[k + 1]} :
                    k \in {k \in 1 .. (Len(bs) - 1) : pos[k] /\ ~Contiguous(bs, k + 1)}}]

-----------------------------------------------------------------------------
(* GEN2-002: a window of days                                                *)

WindowDays(m) == (m * DaysPerMonth - Window) .. (m * DaysPerMonth - 1)

\* _volatility_window_gaps
WindowGaps(in) == {m \in ScoredMonths : ~(WindowDays(m) \subseteq in.full)}

\* _scale_from_returns
ScaleFromReturns(in, m) ==
    LET days  == WindowDays(m)
        first == CHOOSE d \in days : \A e \in days : d <= e
        sumsq == Squares([n \in 1 .. Window |-> in.daily[first + n - 1]])
    IN  IF sumsq = 0 THEN Unit ELSE Least(Unit, (10 * Target * Unit) \div Root(100 * sumsq))

\* The gap check, then _scale_schedule.
FixedPlan(in) ==
    LET gaps == WindowGaps(in)
    IN  [invalid |-> gaps,
         scale |-> IF gaps # {} THEN <<>> ELSE [m \in ScoredMonths |-> ScaleFromReturns(in, m)]]

-----------------------------------------------------------------------------
(* GEN2-003: whole months, and an expanding training sample                  *)

MonthDays(m) == (m * DaysPerMonth) .. (m * DaysPerMonth + DaysPerMonth - 1)

\* _monthly_inputs: the returns of the valid months.
MonthlyInputs(in) ==
    LET valid == {m \in 0 .. Months - 1 :
                    MonthDays(m) \subseteq in.full /\ MonthDays(m) \cap in.exposed = {}}
    IN  [m \in valid |-> [n \in 1 .. DaysPerMonth |-> in.daily[m * DaysPerMonth + n - 1]]]

Negatives(s) == SelectSeq(s, LAMBDA r : r < 0)

\* The returns an estimator is taken over. A month short of losses borrows those
\* of the month before.
Observed(months, variant, m) ==
    LET own == Negatives(months[m])
    IN  CASE variant = "TOTAL" -> months[m]
          [] Len(own) >= MinNegatives -> own
          [] OTHER -> IF m - 1 \in DOMAIN months THEN own \o Negatives(months[m - 1]) ELSE <<>>

\* _estimators: ten times the root of the square sum; 0 where there is none.
Estimators(months, variant) ==
    [m \in -1 .. Months - 1 |->
        IF m \in DOMAIN months THEN Root(100 * Squares(Observed(months, variant, m))) ELSE 0]

\* _population_stdev, times ten and the number of values.
PopulationStdev(s) == Root(100 * (Len(s) * Squares(s) - (Total(s) * Total(s))))

\* The training sample at month t: a month enters it once it has closed, with the
\* estimator of the month before it.
TrainingMonths(months, sigma, t) ==
    {m \in FirstManaged .. (t - 1) : m \in DOMAIN months /\ sigma[m - 1] # 0}

\* The part of _schedule that turns a sample into a scale; -1 when it cannot.
FreshScale(months, sigma, t) ==
    LET training == TrainingMonths(months, sigma, t)
        size == Cardinality(training)
        month(n) == CHOOSE m \in training : Cardinality(training \cap (0 .. m)) = n
        fs == [n \in 1 .. size |-> Total(months[month(n)])]
        zs == [n \in 1 .. size |-> (100 * fs[n]) \div sigma[month(n) - 1]]
        deviation == PopulationStdev(zs)
    IN  IF sigma[t - 1] = 0 \/ size < MinPairs \/ deviation = 0 THEN -1
        ELSE Least(Unit, (100 * Unit * PopulationStdev(fs)) \div (deviation * sigma[t - 1]))

\* _schedule: a month without a fresh scale carries the one before.
Schedule(months, variant) ==
    LET sigma == Estimators(months, variant)
        fresh == [m \in ScoredMonths |-> FreshScale(months, sigma, m)]
        s[m \in (Scored - 1) .. (Months - 1)] ==
            IF m < Scored THEN Unit ELSE IF fresh[m] >= 0 THEN fresh[m] ELSE s[m - 1]
    IN  [m \in ScoredMonths |-> [new |-> fresh[m] >= 0, scale |-> s[m]]]

Variants == {"TOTAL", "DOWNSIDE"}

\* The check of run: a new scale whose boundary bar is missing, the bar before long.
BoundaryRaises(bs, pos, plans) ==
    \E v \in Variants, m \in ScoredMonths :
        /\ plans[v][m].new
        /\ \E k \in DOMAIN bs :
                bs[k] < Boundary(m) /\ (k = Len(bs) \/ Boundary(m) < bs[k + 1]) /\ pos[k]

ExpandingPlan(bs, pos) ==
    LET months == MonthlyInputs(Inputs(bs, pos))
        plans  == [v \in Variants |-> Schedule(months, v)]
    IN  [raised |-> BoundaryRaises(bs, pos, plans), plan |-> plans]

-----------------------------------------------------------------------------
(* Accounts                                                                  *)

\* _new_account
NewAccount == [quantity |-> 0, cycle |-> FALSE]

\* _buy; the callers open a cycle only when flat and resize only inside one.
Bought(a, q) == [a EXCEPT !.quantity = @ + q, !.cycle = TRUE]

\* _sell
Sold(a, q, close) == [a EXCEPT !.quantity = @ - q, !.cycle = ~close]

Both(c, a(_)) == [c EXCEPT !.base = a(@), !.stress = a(@)]

-----------------------------------------------------------------------------
(* One bar of a GEN2-002 cell                                                *)

NewCell(scale) ==
    [base |-> NewAccount, stress |-> NewAccount, logical |-> FALSE, current |-> scale,
     pending |-> -1, raised |-> FALSE, signals |-> 0, completed |-> 0, missing |-> 0,
     active |-> 0, exposure |-> 0, minimum |-> Unit, scaledEntries |-> 0, rebalances |-> 0]

\* The mark of a bar: an open position counts an hour of exposure.
Marked(c) ==
    IF ~c.logical THEN c
    ELSE [c EXCEPT !.active = @ + 1, !.exposure = @ + c.base.quantity,
                   !.minimum = Least(@, c.current)]

Enters(c, k) == Comparable(bars, k) /\ ~c.logical /\ CrossUp(bars, k)
Exits(c, k) == Comparable(bars, k) /\ c.logical /\ CrossDown(bars, k)
Signalled(c, k) == IF Enters(c, k) THEN [c EXCEPT !.signals = @ + 1] ELSE c

Entered(c, scale) ==
    [Both(c, LAMBDA a : Bought(a, Quantity * scale)) EXCEPT
        !.logical = TRUE, !.scaledEntries = IF scale < Unit THEN @ + 1 ELSE @]
Exited(c) ==
    [Both(c, LAMBDA a : Sold(a, a.quantity, TRUE)) EXCEPT
        !.logical = FALSE, !.completed = @ + 1]

Resized(c, scale) ==
    LET delta == Quantity * scale - c.base.quantity
        moved == IF delta > 0 THEN Both(c, LAMBDA a : Bought(a, delta))
                 ELSE Both(c, LAMBDA a : Sold(a, 0 - delta, FALSE))
    IN  IF delta = 0 THEN c ELSE [moved EXCEPT !.rebalances = @ + 1]

\* The next bar ends the series or is an hour late.
FillMissing(k) == k = Len(bars)
FillBroken(k) == ~FillMissing(k) /\ ~Contiguous(bars, k + 1)

\* _simulate_cell; new is the scale of a boundary bar, -1 on every other bar.
Stepped2(cell, k, new) ==
    LET c     == Marked(cell)
        s     == Signalled(c, k)
        next  == IF new >= 0 THEN new ELSE s.current
        takes(x) == [x EXCEPT !.current = next]
    IN  IF ~Comparable(bars, k) THEN c
        ELSE IF ~(Enters(s, k) \/ Exits(s, k) \/ (s.logical /\ new >= 0)) THEN takes(s)
        ELSE IF FillMissing(k) THEN [s EXCEPT !.missing = @ + 1]
        ELSE IF FillBroken(k) THEN [s EXCEPT !.raised = TRUE]
        ELSE takes(CASE Exits(s, k)  -> Exited(s)
                     [] Enters(s, k) -> Entered(s, next)
                     [] OTHER        -> Resized(s, new))

BoundaryScale2(k) ==
    IF bars[k] = Boundary(MonthOf(bars[k])) THEN fixed.scale[MonthOf(bars[k])] ELSE -1

Cell2Stepped(cond, cell, k) ==
    Stepped2(cell, k, IF cond = "VOL_SCALED" THEN BoundaryScale2(k) ELSE -1)

-----------------------------------------------------------------------------
(* One bar of a GEN2-003 cell                                                *)

Filled3(s, k, new) ==
    CASE Exits(s, k)  -> [Exited(s) EXCEPT !.pending = -1]
      [] Enters(s, k) -> [Entered(s, new) EXCEPT !.pending = -1]
      [] OTHER        -> [Resized(s, s.pending) EXCEPT !.pending = -1]

Stepped3(cell, k, boundary, scale) ==
    LET c    == Signalled(Marked(cell), k)
        new  == IF boundary THEN scale ELSE c.current
        s    == IF boundary /\ c.logical /\ new # c.current THEN [c EXCEPT !.pending = new] ELSE c
        takes(x) == [x EXCEPT !.current = new]
    IN  IF ~(Enters(s, k) \/ Exits(s, k) \/ s.pending >= 0) THEN takes(s)
        ELSE IF FillMissing(k) THEN [s EXCEPT !.missing = @ + 1]
        ELSE IF FillBroken(k) THEN [s EXCEPT !.raised = TRUE]
        ELSE takes(Filled3(s, k, new))

\* Only a decision marked new acts, and only on a bar at its boundary.
Cell3Stepped(cond, cell, k) ==
    LET m == MonthOf(bars[k])
        boundary == /\ cond # "CONTROL_003"
                    /\ bars[k] = Boundary(m) /\ expanding.plan[cond][m].new
    IN  Stepped3(cell, k, boundary, IF boundary THEN expanding.plan[cond][m].scale ELSE Unit)

-----------------------------------------------------------------------------
(* The verdicts                                                              *)

Starved(scaled, control) == control.exposure > 0 /\ 4 * scaled.exposure < control.exposure

\* The opportunity a scaled condition may not take away from its control.
OpportunityReasons(scaled, control) ==
    (IF scaled.signals # control.signals THEN {"DIRECTIONAL_ENTRY_SIGNAL_COUNT_CHANGED"} ELSE {})
    \cup (IF scaled.completed # control.completed THEN {"COMPLETED_DIRECTIONAL_TRADE_COUNT_CHANGED"} ELSE {})
    \cup (IF scaled.active < control.active THEN {"ACTIVE_EXPOSURE_HOURS_STARVED"} ELSE {})
    \cup (IF Starved(scaled, control) THEN {"NOTIONAL_EXPOSURE_STARVED"} ELSE {})

FreshMonths(cond) == {m \in ScoredMonths : expanding.plan[cond][m].new}
FractionReason(cond) ==
    IF 2 * Cardinality(FreshMonths(cond)) < Cardinality(ScoredMonths)
    THEN {"VALID_SCALE_DECISION_FRACTION_LOW"} ELSE {}

\* The gates on money are one input; those on the scaler's activity and the
\* opportunity are computed.
Verdict2(money) ==
    LET scaled  == cells["VOL_SCALED"]
        reasons == OpportunityReasons(scaled, cells["CONTROL"])
    IN  IF fixed.invalid # {} THEN [status |-> "INVALIDATED", reasons |-> {"INCOMPLETE_VOLATILITY_WINDOW"}]
        ELSE IF \E c \in Conditions2 : cells[c].raised THEN [status |-> "RAISED", reasons |-> {}]
        ELSE [reasons |-> reasons,
              status |-> IF money /\ reasons = {} /\ scaled.scaledEntries + scaled.rebalances > 0
                         THEN "PASS" ELSE "FAIL"]

\* _adjudicate: only the downside variant is judged.
Verdict3(money) ==
    LET down    == cells["DOWNSIDE"]
        reasons == OpportunityReasons(down, cells["CONTROL_003"]) \cup FractionReason("DOWNSIDE")
    IN  IF expanding.raised \/ \E c \in Conditions3 : cells[c].raised
        THEN [status |-> "RAISED", reasons |-> {}]
        ELSE [reasons |-> reasons,
              status |-> IF /\ money /\ reasons = {} /\ down.minimum < Unit
                            /\ down.scaledEntries + down.rebalances > 0
                         THEN "PASS" ELSE "FAIL"]

-----------------------------------------------------------------------------
(* The run                                                                   *)

HoursBut(hole) == SelectSeq([n \in 1 .. End |-> n - 1], LAMBDA t : t \notin hole)
FirstScoredBar(bs) == CHOOSE k \in DOMAIN bs :
                        bs[k] >= Boundary(Scored) /\ (k = 1 \/ bs[k - 1] < Boundary(Scored))

Alive2(c) == fixed.invalid = {} /\ \A x \in Conditions2 : ~c[x].raised
Alive3(c) == ~expanding.raised /\ \A x \in Conditions3 : ~c[x].raised

Init ==
    /\ \E hole \in Holes, crosses \in SUBSET CrossHours :
        /\ bars = HoursBut(hole)
        /\ above = [t \in Hours |-> Cardinality({h \in crosses : h <= t}) % 2 = 1]
    /\ move \in {[d \in CalendarDays |-> p[(d % Len(p)) + 1]] : p \in MovePatterns}
    /\ held = Positions(bars)
    /\ fixed = FixedPlan(Inputs(bars, held))
    /\ expanding = ExpandingPlan(bars, held)
    /\ i = FirstScoredBar(bars)
    /\ cells = [c \in Conditions |->
            NewCell(CASE c = "VOL_SCALED" /\ fixed.invalid = {} -> fixed.scale[Scored]
                      [] c \in {"TOTAL", "DOWNSIDE"} -> expanding.plan[c][Scored].scale
                      [] OTHER -> Unit)]
    /\ verdict = <<>>

\* A bar of every cell of a lab that has not stopped.
Step ==
    /\ i <= Len(bars)
    /\ i' = i + 1
    /\ cells' = [c \in Conditions |->
            IF c \in Conditions2
            THEN IF Alive2(cells) THEN Cell2Stepped(c, cells[c], i) ELSE cells[c]
            ELSE IF Alive3(cells) THEN Cell3Stepped(c, cells[c], i) ELSE cells[c]]
    /\ UNCHANGED <<bars, above, move, held, fixed, expanding, verdict>>

Adjudicate ==
    /\ i > Len(bars) /\ verdict = <<>>
    /\ \E money \in BOOLEAN : verdict' = <<Verdict2(money), Verdict3(money)>>
    /\ UNCHANGED <<bars, above, move, held, fixed, expanding, i, cells>>

Next == Step \/ Adjudicate
Spec == Init /\ [][Next]_vars

-----------------------------------------------------------------------------
(* Properties                                                                *)

AccountType == [quantity : 0 .. (Quantity * Unit), cycle : BOOLEAN]
TypeOK ==
    /\ i \in 1 .. (Len(bars) + 1)
    /\ \A c \in Conditions :
        /\ cells[c].base \in AccountType /\ cells[c].stress \in AccountType
        /\ cells[c].current \in 0 .. Unit /\ cells[c].pending \in -1 .. Unit
    /\ verdict = <<>> \/ Len(verdict) = 2

Earlier(t) == SelectSeq(bars, LAMBDA h : h < t)

\* No scale looks ahead: with the series cut off at a boundary, the scale of that
\* boundary comes out the same (_scale_schedule, _schedule).
ScaleSeesOnlyThePast ==
    \A m \in ScoredMonths :
        LET past == Earlier(Boundary(m))
            in   == Inputs(past, Positions(past))
        IN  verdict # <<>> =>
                /\ fixed.invalid = {} => ScaleFromReturns(in, m) = fixed.scale[m]
                /\ \A v \in Variants : Schedule(MonthlyInputs(in), v)[m] = expanding.plan[v][m]

\* Resizing never touches the direction: the cells of a lab enter and leave with
\* the same bars, and no verdict ever blames the scaler for a lost trade.
DirectionUntouched ==
    /\ Alive2(cells) => \A c \in Conditions2 :
            /\ cells[c].logical = cells["CONTROL"].logical
            /\ cells[c].completed = cells["CONTROL"].completed
            /\ cells[c].active = cells["CONTROL"].active
    /\ Alive3(cells) => \A c \in Conditions3 :
            /\ cells[c].logical = cells["CONTROL_003"].logical
            /\ cells[c].completed = cells["CONTROL_003"].completed
            /\ cells[c].active = cells["CONTROL_003"].active
    /\ \A k \in DOMAIN verdict :
            verdict[k].reasons \cap {"DIRECTIONAL_ENTRY_SIGNAL_COUNT_CHANGED",
                "COMPLETED_DIRECTIONAL_TRADE_COUNT_CHANGED", "ACTIVE_EXPOSURE_HOURS_STARVED"} = {}

\* Both accounts of a cell hold the quantity of the scale in force while the cell is
\* long and nothing otherwise, however often it was resized.
SizedByItsScale ==
    \A c \in Conditions :
        LET size == IF cells[c].logical THEN Quantity * cells[c].current ELSE 0
        IN  ~cells[c].raised =>
                /\ cells[c].base = [quantity |-> size, cycle |-> cells[c].logical]
                /\ cells[c].stress = cells[c].base

\* In a series that passes the GEN2-002 gap check, the scale in force is that of the
\* month in every month but the last: a boundary bar that is missing or whose
\* averages are not finite would leave a hole in the next month's window.
MonthsScaleInForce ==
    LET m == MonthOf(bars[i - 1])
    IN  (i > FirstScoredBar(bars) /\ Alive2(cells) /\ m < Months - 1) =>
            cells["VOL_SCALED"].current = fixed.scale[m]
==============================================================================
