------------------------------- MODULE LabCell -------------------------------
(* One cell of the historical strategy lab: one candidate, symbol and fold,   *)
(* decision by decision. HSL-001, HSL-003 and the two HSL-004 candidates      *)
(* trade without a risk overlay; HSL-002 runs every cell under the accepted   *)
(* latched tracker (REFERENCE) and under a tracker that recovers (RECOVERY).  *)
(* Prices are reduced to what an hour does to the cell: see Markets.          *)
EXTENDS Integers, Sequences, FiniteSets

CONSTANTS
    Labs,           \* subset of LabIds that is run
    Markets,        \* what one hour may bring: [fill, fresh, act, veto, mark, pnl,
                    \* volume (in fills of the fixed quantity), levels (see Levels)]
    Horizon,        \* decision events of the fold
    DayLen,         \* decision events of a UTC day
    Initial,        \* initial_equity_quote
    SessionPct, DrawdownPct, MaxLosses,     \* RiskPolicy
    Cooldown        \* cooldown_primary_decisions

VARIABLES
    lab,
    clock,          \* decision events passed
    cell,           \* fill engine, ledger and counters
    tracker,        \* risk tracker of the arm
    ended,          \* how the cell ended, if it did: see Endings
    log             \* what each observed decision saw (for the properties)

vars == <<lab, clock, cell, tracker, ended, log>>

LabIds == {"HSL-001", "REFERENCE", "RECOVERY", "HSL-003", "HSL-004A", "HSL-004B"}
Overlay == {"REFERENCE", "RECOVERY"}
MaxOf(a, b) == IF a > b THEN a ELSE b

\* A cell returns its RESULT, or raises: a stop or target of more decimals than
\* a setup takes, fills beyond the volume of their bar, trade accounting that
\* contradicts itself, or a sum of the closed trades that is not the ledger's.
Raised == {"SETUP", "VOLUME", "BOOKS", "SUM"}
Endings == {"NO", "RESULT"} \cup Raised

\* The decimals of a stop and a target, which come from an ATR of 256 digits:
\* few enough for the default context (28 digits), more, or more than the 40 a
\* price may have. Trend and breakout round to 40, momentum and volatility
\* expansion do not.
LevelKinds == {"SHORT", "LONG", "ENDLESS"}
Rounds == lab \notin {"HSL-004A", "HSL-004B"}

NewCell == [pos |-> FALSE, setup |-> FALSE, open |-> FALSE,
            realized |-> 0, closed |-> 0, long |-> FALSE, inexact |-> 0,
            decision |-> 0, missing |-> 0, stale |-> 0, signal |-> 0,
            gap |-> 0, blocked |-> 0, entry |-> 0, exit |-> 0]

Equity(x, mark) == Initial + x.realized + (IF x.pos THEN mark ELSE 0)

-----------------------------------------------------------------------------
(* Risk trackers                                                             *)

NewTracker == [day |-> -1, startEq |-> Initial, sessPnl |-> 0, peak |-> Initial,
               realized |-> 0, closed |-> 0, streak |-> 0, eligible |-> 0,
               hard |-> FALSE, block |-> FALSE, cool |-> 0, pending |-> FALSE,
               kill |-> FALSE]

SessionBreach(pnl, start) == 100 * MaxOf(-pnl, 0) >= SessionPct * start
DrawdownBreach(peak, eq) == 100 * (peak - eq) >= DrawdownPct * peak

\* A closed trade lengthens the losing streak or ends it.
Streak(n, closed, delta) == IF ~closed THEN n ELSE IF delta < 0 THEN n + 1 ELSE 0

\* _RiskTracker.observe: any breach latches the kill switch for good. A trade
\* closed in the last hour of a day is charged to that day.
ObserveReference(k, day, eq, realized, closed) ==
    LET delta   == realized - k.realized
        streak  == Streak(k.streak, closed # k.closed, delta)
        rolled  == k.day # -1 /\ day # k.day
        same    == day = k.day
        startEq == IF same THEN k.startEq ELSE eq
        sessPnl == IF same THEN k.sessPnl + delta ELSE 0
        peak    == MaxOf(k.peak, eq)
    IN  [k EXCEPT !.day = day, !.startEq = startEq, !.sessPnl = sessPnl,
                  !.peak = peak, !.realized = realized, !.closed = closed,
                  !.streak = streak, !.eligible = streak,
                  !.hard = @ \/ DrawdownBreach(peak, eq),
                  !.kill = \/ @
                           \/ rolled /\ SessionBreach(k.sessPnl + delta, k.startEq)
                           \/ DrawdownBreach(peak, eq)
                           \/ SessionBreach(sessPnl, startEq)
                           \/ streak >= MaxLosses]

\* The drawdown latch, the session block and the cooldown of one decision.
HardLatch(k, peak, eq) == k.hard \/ DrawdownBreach(peak, eq)
SessionBlock(k, same, pnl, start) == (same /\ k.block) \/ SessionBreach(pnl, start)

\* A cooldown that has run out is released when flat and otherwise unblocked.
Release(k, pos, hard, block) == k.pending /\ ~pos /\ ~hard /\ ~block

\* The decision that starts the cooldown counted as one of its decisions.
CoolAfterEager(running, trigger, cool) ==
    IF trigger THEN Cooldown - 1 ELSE IF running THEN cool - 1 ELSE cool

\* The decision that starts the cooldown is blocked but not counted.
CoolAfter(running, trigger, cool) ==
    IF trigger THEN Cooldown ELSE IF running THEN cool - 1 ELSE cool

\* _RecoveryCooldownRiskTracker.observe
ObserveRecovery(k, day, eq, realized, closed, pos) ==
    LET delta    == realized - k.realized
        same     == day = k.day
        startEq  == IF same THEN k.startEq ELSE eq
        sessPnl  == IF same THEN k.sessPnl + delta ELSE 0
        peak     == MaxOf(k.peak, eq)
        hard     == HardLatch(k, peak, eq)
        block    == SessionBlock(k, same, sessPnl, startEq)
        running  == k.cool > 0
        release  == Release(k, pos, hard, block)
        counted  == Streak(k.eligible, closed # k.closed, delta)
        eligible == IF release THEN 0 ELSE counted
        waiting  == k.pending /\ ~release
        trigger  == ~running /\ ~waiting /\ eligible >= MaxLosses
        cool     == CoolAfter(running, trigger, k.cool)
    IN  [k EXCEPT !.day = day, !.startEq = startEq, !.sessPnl = sessPnl,
                  !.peak = peak, !.realized = realized, !.closed = closed,
                  !.streak = Streak(@, closed # k.closed, delta),
                  !.eligible = eligible, !.hard = hard, !.block = block,
                  !.cool = cool,
                  !.pending = waiting \/ (running /\ cool = 0),
                  !.kill = hard \/ block \/ running \/ trigger \/ waiting]

\* _tracker_for_arm; the other labs have none.
Observe(k, day, eq, x) ==
    CASE lab = "REFERENCE" -> ObserveReference(k, day, eq, x.realized, x.closed)
      [] lab = "RECOVERY"  -> ObserveRecovery(k, day, eq, x.realized, x.closed, x.pos)
      [] OTHER             -> k

-----------------------------------------------------------------------------
(* One decision                                                              *)

\* The action the evaluator takes on a fresh snapshot.
ActionOf(x, mkt) ==
    IF ~mkt.fresh \/ ~mkt.act THEN "NO_TRADE"
    ELSE IF x.pos THEN "EXIT_LONG" ELSE "ENTER_LONG"

\* An entry must open inside its bracket and, under an arm, pass the veto.
IntentOf(action, mkt, kill) ==
    IF action = "ENTER_LONG" /\ (mkt.fill = "GAP" \/ kill \/ mkt.veto)
    THEN "HOLD" ELSE action

\* PaperFillEngine.process: [enter, leave], at most one of each in an hour.
FillsOf(x, intent, fill) ==
    [in  |-> intent = "ENTER_LONG",
     out |-> \/ intent = "EXIT_LONG"
             \/ intent = "ENTER_LONG" /\ fill = "TOUCHED"
             \/ intent = "HOLD" /\ x.pos /\ fill # "INSIDE"
             \/ intent = "NO_TRADE" /\ x.pos /\ fill # "INSIDE"]

Num(b) == IF b THEN 1 ELSE 0

\* The levels of the position after an entry are longer than 28 digits.
LongLevels(x, fills, mkt) == IF fills.in THEN mkt.levels # "SHORT" ELSE x.long

\* A protective exit is filled at a level unless the bar opens under the stop.
AtLevel(intent, mkt) ==
    intent # "EXIT_LONG" /\ (mkt.fill = "TOUCHED" \/ mkt.pnl > 0)

\* Ledger, trade accounting and counters after the fills of one decision.
ApplyFills(x, fills, intent, mkt) ==
    [x EXCEPT !.pos = (x.pos \/ fills.in) /\ ~fills.out,
              !.long = LongLevels(x, fills, mkt) /\ ~fills.out,
              !.inexact = @ + Num(/\ fills.out /\ AtLevel(intent, mkt)
                                  /\ LongLevels(x, fills, mkt)),
              !.open = (x.open \/ fills.in) /\ ~fills.out,
              !.realized = @ + (IF fills.out THEN mkt.pnl ELSE 0),
              !.closed = @ + Num(fills.out),
              !.entry = @ + Num(fills.in),
              !.exit = @ + Num(fills.out)]

\* The decision counters of an hour that has its fill candle.
Counted(x, mkt, action, kill) ==
    [x EXCEPT !.decision = @ + 1,
              !.stale = @ + Num(~mkt.fresh),
              !.signal = @ + Num(action = "ENTER_LONG"),
              !.gap = @ + Num(action = "ENTER_LONG" /\ mkt.fill = "GAP"),
              !.blocked = @ + Num(/\ action = "ENTER_LONG" /\ mkt.fill # "GAP"
                                  /\ (kill \/ mkt.veto))]

\* The labs that hand the setup of the entry back to the evaluator.
KeepsSetup == lab \in {"HSL-001", "REFERENCE", "RECOVERY", "HSL-003"}

SetupAfter(before, after, intent) ==
    after.pos /\ (before.setup \/ intent = "ENTER_LONG")

\* LongSetup refuses the levels of an entry signal.
RefusesSetup(action, mkt) ==
    action = "ENTER_LONG" /\ mkt.levels = "ENDLESS" /\ ~Rounds

\* The errors a cell raises about its own bookkeeping.
Disagrees(x, fills, after, setup) ==
    \/ fills.in /\ x.open
    \/ fills.out /\ ~x.open /\ ~fills.in
    \/ KeepsSetup /\ after.pos /\ ~setup

\* The evaluator, the fill engine and the trade accounting raise in this order;
\* an entry and its exit in the same bar need its volume twice.
Raises(action, fills, mkt, after, setup) ==
    CASE RefusesSetup(action, mkt)                   -> "SETUP"
      [] Num(fills.in) + Num(fills.out) > mkt.volume -> "VOLUME"
      [] Disagrees(cell, fills, after, setup)        -> "BOOKS"
      [] OTHER                                       -> "NO"

Decide(mkt, kill) ==
    LET action == ActionOf(cell, mkt)
        intent == IntentOf(action, mkt, kill)
        fills  == FillsOf(cell, intent, mkt.fill)
        after  == ApplyFills(Counted(cell, mkt, action, kill), fills,
                             intent, mkt)
        setup  == KeepsSetup /\ SetupAfter(cell, after, intent)
    IN  /\ ended' = Raises(action, fills, mkt, after, setup)
        /\ cell' = IF ended' = "NO" THEN [after EXCEPT !.setup = setup] ELSE cell

Running == clock < Horizon /\ ended = "NO"

\* An hour without its fill candle is no decision; HSL-001 and HSL-004 still
\* count it as one.
MissingHour ==
    /\ Running /\ \E mkt \in Markets : mkt.fill = "MISSING"
    /\ clock' = clock + 1
    /\ cell' = [cell EXCEPT !.missing = @ + 1,
                            !.decision = IF lab \in Overlay \cup {"HSL-003"}
                                         THEN @ ELSE @ + 1]
    /\ UNCHANGED <<lab, tracker, ended, log>>

\* HSL-001, HSL-003, HSL-004A and HSL-004B: no risk state.
PlainHour(ids) ==
    /\ Running /\ lab \in ids
    /\ \E mkt \in Markets : /\ mkt.fill # "MISSING" /\ ~mkt.veto
                            /\ Decide(mkt, FALSE)
    /\ clock' = clock + 1
    /\ UNCHANGED <<lab, tracker, log>>

WalkForwardHour == PlainHour({"HSL-001"})
AblationHour == PlainHour({"HSL-003"})
MomentumHour == PlainHour({"HSL-004A"})
VolatilityHour == PlainHour({"HSL-004B"})

\* HSL-002: the tracker observes the ledger at the decision, then the evaluator
\* and the veto decide, then the fills are applied.
OverlayHour ==
    /\ Running /\ lab \in Overlay
    /\ \E mkt \in Markets :
        /\ mkt.fill # "MISSING"
        /\ LET day == clock \div DayLen
               eq  == Equity(cell, mkt.mark)
               k   == Observe(tracker, day, eq, cell)
           IN  /\ tracker' = k
               /\ Decide(mkt, k.kill)
               /\ log' = Append(log, [day |-> day, eq |-> eq,
                                      realized |-> cell.realized,
                                      lost |-> cell.realized < tracker.realized,
                                      closed |-> cell.closed # tracker.closed])
    /\ clock' = clock + 1
    /\ UNCHANGED lab

\* The trades, summed in the default context of 28 digits, are the ledger's
\* realized profit, kept to 256: a single longer trade is always off, and
\* the errors of several may cancel out.
SumDisagrees ==
    CASE cell.inexact = 0 -> {FALSE}
      [] cell.inexact = 1 -> {TRUE}
      [] OTHER            -> BOOLEAN

\* The fold ends with the position marked, not closed, and the sum compared.
EndOfFold ==
    /\ clock = Horizon /\ ended = "NO"
    /\ \E off \in SumDisagrees : ended' = IF off THEN "SUM" ELSE "RESULT"
    /\ UNCHANGED <<lab, clock, cell, tracker, log>>

CellEnded == ended # "NO" /\ UNCHANGED vars

Init ==
    /\ lab \in Labs
    /\ clock = 0 /\ cell = NewCell /\ tracker = NewTracker
    /\ ended = "NO" /\ log = <<>>

Next == \/ MissingHour \/ OverlayHour \/ EndOfFold \/ CellEnded
        \/ WalkForwardHour \/ AblationHour \/ MomentumHour \/ VolatilityHour

Spec == Init /\ [][Next]_vars

-----------------------------------------------------------------------------
(* What the trackers should say, read off the whole history                  *)

N == Len(log)
Decisions == 1..N

\* The first decision of the session that decision n belongs to.
Opening(n) == CHOOSE m \in 1..n : /\ log[m].day = log[n].day
                                  /\ \A j \in 1..m - 1 : log[j].day # log[n].day
LostInSession(n) == log[Opening(n)].realized - log[n].realized
Breached(n) == 100 * LostInSession(n) >= SessionPct * log[Opening(n)].eq
PeakUpTo(n) == CHOOSE p \in {Initial} \cup {log[j].eq : j \in 1..n} :
                    \A j \in 1..n : Initial <= p /\ log[j].eq <= p
Drawn(n) == 100 * (PeakUpTo(n) - log[n].eq) >= DrawdownPct * PeakUpTo(n)

\* The closed trades seen up to n since the latest one that did not lose.
LossRun(n) ==
    Cardinality({j \in 1..n : /\ log[j].closed
                              /\ \A i \in j..n : log[i].closed => log[i].lost})

\* The kill switch of the recovering arm is active for a reason and for no
\* longer than the reason lasts: for good after a drawdown breach, for the
\* rest of a breached session, and for the decision that completes a losing
\* streak and the Cooldown decisions after it. The streak starts again after
\* each release, so the streaks are the multiples of the limit.
RecoveryKillSwitchIsExact ==
    (lab = "RECOVERY" /\ N > 0) =>
        (tracker.kill <=>
            \/ \E n \in Decisions : Drawn(n)
            \/ \E n \in Decisions : log[n].day = log[N].day /\ Breached(n)
            \/ \E n \in Decisions : /\ N - n <= Cooldown /\ log[n].closed
                                    /\ LossRun(n) > 0 /\ LossRun(n) % MaxLosses = 0)

\* The accepted arm latches on the first breach ever seen and never lets go,
\* the loss of the last hour of a day included.
ReferenceLatchIsExact ==
    (lab = "REFERENCE" /\ N > 0) =>
        (tracker.kill <=>
            \E n \in Decisions :
                \/ Drawn(n) \/ Breached(n) \/ LossRun(n) >= MaxLosses
                \/ /\ n > 1 /\ log[n].day # log[n - 1].day
                   /\ 100 * (log[Opening(n - 1)].realized - log[n].realized)
                        >= SessionPct * log[Opening(n - 1)].eq)

\* The counters of the cell balance whatever the hours bring: each signal is
\* filled, gapped away or vetoed, each exit closes one entry, and the ledger,
\* the trade accounting and the fill engine agree on the position. A cell raises
\* over what the market brought and never over its own bookkeeping; it raises
\* over the sum only if a trade was closed at a level of more than 28 digits.
CellBalances ==
    /\ ended \in Endings \ {"BOOKS"}
    /\ ended = "SETUP" => ~KeepsSetup
    /\ ended = "SUM" => cell.inexact > 0
    /\ cell.signal = cell.gap + cell.blocked + cell.entry
    /\ cell.entry = cell.exit + Num(cell.pos)
    /\ cell.closed = cell.exit /\ cell.open = cell.pos
    /\ KeepsSetup => cell.setup = cell.pos
    /\ ended \in {"SETUP", "VOLUME"} \/
       clock = cell.decision + (IF lab \in Overlay \cup {"HSL-003"}
                                THEN cell.missing ELSE 0)
==============================================================================
