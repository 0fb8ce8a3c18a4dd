---------------------------- MODULE CrisisReplay ----------------------------
(* The two replays of the crisis lab over an admitted corpus that has holes. *)
(* ReplaySpec: crisis events (replay.py) and ordinary control windows        *)
(* (controls.py), one symbol after the other, each from fresh Paper state.   *)
(* ScanSpec: the strategy-active scan (active_diagnostic.py), all symbols    *)
(* hour by hour, cut into runtime chunks and research epochs.                *)
(* Times count in units of the 15m candle; prices are abstracted to what the *)
(* market does at an hour (mkt): does the strategy act, does the risk veto   *)
(* allow it, where does the fill candle lie, does the drawdown latch.        *)
EXTENDS Integers, Sequences, FiniteSets, SequencesExt

CONSTANTS
    SymbolSeq,      \* acq.ALLOWED_SYMBOLS, in lexical order
    Dur,            \* INTERVAL_MILLISECONDS, by interval
    Horizon,        \* end of the corpus
    Gaps,           \* <<symbol, interval, open>> that the exchange may not have
    Warmup,         \* bars the strategy needs, by interval
    PoolStart, PoolEnd, ChunkLen, EpochLen,
    MaxPerEpoch, Separation, MaxEpisodes,
    GuardLen,       \* crisis_exclusion_guard_days
    Events,         \* registered crises: [pre, core, after, end, anchor]
    Controls        \* registered control windows: [acq, start, end]

VARIABLES
    data,           \* data[s][i]: open times of the candles admitted
    st,             \* _SymbolScanState, or the locals of _run_symbol
    phase, clock,   \* where the driver is; next decision time
    turn,           \* the symbol whose turn it is
    chunkEnd, epoch, selected, scannedEnd,
    jobs, reports   \* windows still to replay; results written

scanVars == <<chunkEnd, epoch, selected, scannedEnd>>
vars == <<data, st, phase, clock, turn, scanVars, jobs, reports>>

Symbols == ToSet(SymbolSeq)
Intervals == {"15m", "1h", "4h"}
Hour == Dur["1h"]
Grid(i) == {o \in 0..Horizon - 1 : o % Dur[i] = 0 /\ o + Dur[i] <= Horizon}
MaxOf(S) == CHOOSE x \in S : \A y \in S : y <= x
MinOf(S) == CHOOSE x \in S : \A y \in S : x <= y
Hours(a, b) == {h \in a..b - 1 : (h - a) % Hour = 0}

-----------------------------------------------------------------------------
(* Point-in-time snapshots of a corpus with holes                            *)

\* The candles closed before the decision, back to the latest hole.
VisibleSuffix(values, i, now) ==
    LET visible == {o \in values : o + Dur[i] <= now}
        latest  == MaxOf(visible)
        holes   == {k \in 0..latest : k % Dur[i] = 0} \ visible
    IN  IF visible = {} THEN {}
        ELSE {o \in visible : \A k \in holes : k < o}

SnapshotAt(ds, now) == [i \in Intervals |-> VisibleSuffix(ds[i], i, now)]

\* CrisisLabMarketSnapshot: each history is there, on its grid, in the past.
LegalSnapshot(snap, now) ==
    \A i \in Intervals :
        /\ snap[i] # {}
        /\ \A o \in snap[i] : o + Dur[i] <= now /\ o % Dur[i] = 0
        /\ MaxOf(snap[i]) <= (now \div Dur[i]) * Dur[i] - Dur[i]

IsFresh(snap, now) ==
    \A i \in Intervals :
        MaxOf(snap[i]) = (now \div Dur[i]) * Dur[i] - Dur[i]

-----------------------------------------------------------------------------
(* One decision of one symbol                                                *)

NoSetup == -1
NewState == [pos |-> FALSE, setup |-> NoSetup, killed |-> FALSE,
             decisions |-> 0, missing |-> 0, stale |-> 0, resets |-> 0,
             entries |-> 0, exits |-> 0, cands |-> {}, error |-> FALSE]

\* What the market may do at one hour.
Market == [act : {"NONE", "ALLOWED", "VETOED"}, latch : BOOLEAN,
           fill : {"INSIDE", "TOUCHED", "OUTSIDE"}]

\* evaluate_trend_pullback: too short a history is never a trade, and the
\* strategy can only leave a position or open one.
Evaluate(snap, pos, act) ==
    IF \/ act = "NONE"
       \/ \E i \in Intervals : Cardinality(snap[i]) < Warmup[i]
    THEN "NO_TRADE" ELSE IF pos THEN "EXIT_LONG" ELSE "ENTER_LONG"

\* The veto blocks on a latched kill switch and may block for other reasons.
IntentOf(action, killed, act) ==
    IF action = "ENTER_LONG" /\ (killed \/ act = "VETOED") THEN "HOLD" ELSE action

\* PaperFillEngine.process: entries, exits and the position left. A next open
\* outside the entry bracket is an error the replay does not catch.
FillOf(pos, intent, fill) ==
    CASE intent = "EXIT_LONG" ->
            [pos |-> FALSE, in |-> 0, out |-> 1, error |-> FALSE]
      [] intent = "ENTER_LONG" ->
            [pos |-> fill = "INSIDE",
             in  |-> IF fill = "OUTSIDE" THEN 0 ELSE 1,
             out |-> IF fill = "TOUCHED" THEN 1 ELSE 0,
             error |-> fill = "OUTSIDE"]
      [] OTHER ->
            [pos |-> pos /\ fill = "INSIDE", in |-> 0,
             out |-> IF pos /\ fill # "INSIDE" THEN 1 ELSE 0, error |-> FALSE]

Excluded(now) ==
    \E e \in Events : e.pre - GuardLen <= now /\ now < e.end + GuardLen

\* _process_event, and the loop body of _run_symbol: x is the symbol's state,
\* primary the candles fills are taken from, snap what the strategy may see.
ProcessEvent(x, primary, snap, now, mkt) ==
    LET fresh  == IsFresh(snap, now)
        killed == x.killed \/ mkt.latch
        action == IF fresh THEN Evaluate(snap, x.pos, mkt.act) ELSE "NO_TRADE"
        intent == IF action = "NO_TRADE" THEN "HOLD"
                  ELSE IntentOf(action, killed, mkt.act)
        fill   == FillOf(x.pos, intent, mkt.fill)
        setup  == IF ~fill.pos THEN NoSetup
                  ELSE IF intent = "ENTER_LONG" THEN now ELSE x.setup
        cand   == intent = "ENTER_LONG" /\ fill.pos /\ ~Excluded(now)
    IN  IF now \notin primary THEN [x EXCEPT !.missing = @ + 1]
        ELSE [x EXCEPT !.decisions = @ + 1,
                       !.killed  = killed,
                       !.stale   = IF fresh THEN @ ELSE @ + 1,
                       !.pos     = fill.pos,
                       !.setup   = setup,
                       !.entries = @ + fill.in,
                       !.exits   = @ + fill.out,
                       !.cands   = IF cand THEN @ \cup {now} ELSE @,
                       !.error   = @ \/ fill.error
                                     \/ (fill.pos /\ setup = NoSetup)]

-----------------------------------------------------------------------------
(* The strategy-active scan                                                  *)

EpochOf(now) == (now - PoolStart) \div EpochLen

\* _reset_execution_state: Paper state and risk start again, counters stay.
ResetExecutionState(x) ==
    [x EXCEPT !.pos = FALSE, !.setup = NoSetup, !.killed = FALSE,
              !.resets = @ + 1]

ChunkPrefixAtStart(s, end) ==
    [i \in Intervals |-> {o \in data[s][i] : o < end - ChunkLen}]

\* _chunk_dataset: the prefix of the corpus that opens before the chunk ends.
ChunkDataset(s, end) == [i \in Intervals |-> {o \in data[s][i] : o < end}]

\* One candidate offered to the selection, in time and then symbol order.
Offer(sel, now, s) ==
    IF \/ Len(sel) = MaxEpisodes
       \/ Cardinality({k \in DOMAIN sel : EpochOf(sel[k].at) = EpochOf(now)})
             >= MaxPerEpoch
       \/ sel # <<>> /\ now - sel[Len(sel)].at < Separation
    THEN sel ELSE Append(sel, [at |-> now, sym |-> s])

SelectAt(sel, now, hits) ==
    FoldLeft(LAMBDA acc, s : IF s \in hits THEN Offer(acc, now, s) ELSE acc,
             sel, SymbolSeq)

\* _dataset_for_symbol: the window has its warm-up and lies in the corpus.
WindowCovered(ds, start, end) ==
    /\ start >= MinOf(ds["4h"]) + Warmup["4h"] * Dur["4h"]
    /\ end <= (MinOf({MaxOf(ds[i]) + Dur[i] : i \in Intervals}) \div Hour) * Hour

AnyGaps == {[s \in Symbols |-> [i \in Intervals |->
                {o \in Grid(i) : <<s, i, o>> \notin G}]] : G \in SUBSET Gaps}

ScanInit ==
    /\ data \in AnyGaps
    /\ st = [s \in Symbols |-> NewState]
    /\ phase = IF \A s \in Symbols : WindowCovered(data[s], PoolStart, PoolEnd)
               THEN "SCAN" ELSE "FAILED"
    /\ clock = PoolStart /\ chunkEnd = PoolStart /\ epoch = 0
    /\ selected = <<>> /\ scannedEnd = PoolStart /\ turn = 0
    /\ jobs = <<>> /\ reports = <<>>

NextChunkEnd == IF chunkEnd + ChunkLen < PoolEnd
                THEN chunkEnd + ChunkLen ELSE PoolEnd

OpenChunk ==
    /\ phase = "SCAN" /\ clock = chunkEnd /\ chunkEnd < PoolEnd
    /\ chunkEnd' = NextChunkEnd
    /\ phase' = IF \E s \in Symbols, i \in Intervals :
                      ChunkDataset(s, NextChunkEnd)[i] = {}
                THEN "FAILED" ELSE "SCAN"
    /\ UNCHANGED <<data, st, clock, turn, epoch, selected, scannedEnd, jobs, reports>>

\* A new decision time: entering another epoch resets every symbol first.
BeginHour ==
    /\ phase = "SCAN" /\ clock < chunkEnd
    /\ phase' = "SYMBOLS" /\ turn' = 1
    /\ epoch' = EpochOf(clock)
    /\ st' = IF EpochOf(clock) = epoch THEN st
             ELSE [s \in Symbols |-> ResetExecutionState(st[s])]
    /\ UNCHANGED <<data, clock, chunkEnd, selected, scannedEnd, jobs, reports>>

\* The symbols decide one after the other at the same decision time.
ScanSymbol ==
    /\ phase = "SYMBOLS" /\ turn <= Len(SymbolSeq)
    /\ LET s    == SymbolSeq[turn]
           snap == SnapshotAt(ChunkDataset(s, chunkEnd), clock)
       IN  \E mkt \in Market :
            LET x == ProcessEvent(st[s], data[s]["1h"], snap, clock, mkt) IN
            IF x.error \/ ~LegalSnapshot(snap, clock)
            THEN phase' = "FAILED" /\ UNCHANGED st
            ELSE st' = [st EXCEPT ![s] = x] /\ UNCHANGED phase
    /\ turn' = turn + 1
    /\ UNCHANGED <<data, clock, scanVars, jobs, reports>>

\* Then the new candidates are offered to the selection.
SelectHour ==
    /\ phase = "SYMBOLS" /\ turn > Len(SymbolSeq)
    /\ LET hits == {s \in Symbols : clock \in st[s].cands}
           sel  == SelectAt(selected, clock, hits)
       IN  /\ selected' = sel
           /\ phase' = IF Len(sel) = MaxEpisodes THEN "TARGET_REACHED" ELSE "SCAN"
    /\ scannedEnd' = clock + Hour
    /\ clock' = clock + Hour
    /\ turn' = 0
    /\ UNCHANGED <<data, st, chunkEnd, epoch, jobs, reports>>

ExhaustPool ==
    /\ phase = "SCAN" /\ clock = PoolEnd /\ chunkEnd = PoolEnd
    /\ phase' = "POOL_EXHAUSTED"
    /\ UNCHANGED <<data, st, clock, turn, scanVars, jobs, reports>>

ScanNext == OpenChunk \/ BeginHour \/ ScanSymbol \/ SelectHour \/ ExhaustPool
ScanSpec == ScanInit /\ [][ScanNext]_vars

-----------------------------------------------------------------------------
(* Crisis events and control windows                                         *)

AlignUp(x) == ((x + Hour - 1) \div Hour) * Hour

\* _load_event_window: contiguous windows, aligned outward to the hour grid.
EventWindow(e) ==
    [kind |-> "EVENT", from |-> 0, start |-> AlignUp(e.pre),
     end |-> AlignUp(e.end),
     ok |-> /\ e.pre < e.core /\ e.core = e.anchor
            /\ e.core < e.after /\ e.after < e.end
            /\ AlignUp(e.pre) < AlignUp(e.end)]

\* load_protocol: a control window is ordered, on the grid and warmed up.
ControlWindow(c) ==
    [kind |-> "CONTROL", from |-> c.acq, start |-> c.start, end |-> c.end,
     ok |-> /\ c.acq < c.start /\ c.start < c.end
            /\ c.acq % Hour = 0 /\ c.start % Hour = 0 /\ c.end % Hour = 0
            /\ c.start - c.acq >= Warmup["4h"] * Dur["4h"]]

\* _slice_window cuts a control window out; an event keeps the whole corpus.
WindowData(w, s) ==
    IF w.kind = "EVENT" THEN data[s]
    ELSE [i \in Intervals |-> {o \in data[s][i] : w.from <= o /\ o < w.end}]

\* A slice is not empty, on the grid of its start and inside the corpus.
SliceCovered(w, s) ==
    w.kind = "CONTROL" =>
        \A i \in Intervals :
            LET slice == WindowData(w, s)[i] IN
            /\ slice # {}
            /\ \A o \in slice : (o - w.from) % Dur[i] = 0
            /\ MinOf(data[s][i]) <= w.from
            /\ w.end <= MaxOf(data[s][i]) + Dur[i]

Job == Head(jobs)
JobData == WindowData(Job.w, Job.s)

\* Admission checks of _event_for_window, _dataset_for_symbol and _run_symbol.
JobAdmitted ==
    /\ Job.w.ok
    /\ SliceCovered(Job.w, Job.s)
    /\ WindowCovered(JobData, Job.w.start, Job.w.end)
    /\ \E h \in Hours(Job.w.start, Job.w.end) : h \in JobData["1h"]

JobsOf(w) == [k \in DOMAIN SymbolSeq |-> [w |-> w, s |-> SymbolSeq[k]]]

ReplayInit ==
    /\ data \in AnyGaps
    /\ st = [s \in Symbols |-> NewState]
    /\ phase = "IDLE" /\ clock = 0
    /\ jobs = FlattenSeq([k \in DOMAIN SetToSeq(Events) |->
                             JobsOf(EventWindow(SetToSeq(Events)[k]))]
                         \o [k \in DOMAIN SetToSeq(Controls) |->
                             JobsOf(ControlWindow(SetToSeq(Controls)[k]))])
    /\ reports = <<>>
    /\ chunkEnd = 0 /\ epoch = 0 /\ selected = <<>> /\ scannedEnd = 0
    /\ turn = 0

\* Each symbol of each window starts with a new engine, ledger and tracker.
StartState(s) == [st EXCEPT ![s] = NewState]

StartJob ==
    /\ phase = "IDLE" /\ jobs # <<>>
    /\ phase' = IF JobAdmitted THEN "RUN" ELSE "FAILED"
    /\ clock' = Job.w.start
    /\ st' = StartState(Job.s)
    /\ UNCHANGED <<data, turn, scanVars, jobs, reports>>

ReplayHour ==
    /\ phase = "RUN" /\ clock < Job.w.end
    /\ LET ds   == JobData
           snap == SnapshotAt(ds, clock)
       IN
       \E mkt \in Market :
        LET x == ProcessEvent(st[Job.s], ds["1h"], snap, clock, mkt)
            bad == x.error \/ ~LegalSnapshot(snap, clock)
        IN  IF bad THEN phase' = "FAILED" /\ UNCHANGED <<st, clock>>
            ELSE /\ st' = [st EXCEPT ![Job.s] = x]
                 /\ clock' = clock + Hour /\ UNCHANGED phase
    /\ UNCHANGED <<data, turn, scanVars, jobs, reports>>

\* The symbol's result; open positions stay open and are marked.
FinishJob ==
    /\ phase = "RUN" /\ clock = Job.w.end
    /\ reports' = Append(reports, [w |-> Job.w, s |-> Job.s, x |-> st[Job.s]])
    /\ jobs' = Tail(jobs)
    /\ phase' = "IDLE"
    /\ UNCHANGED <<data, st, clock, turn, scanVars>>

ReplayNext == StartJob \/ ReplayHour \/ FinishJob
ReplaySpec == ReplayInit /\ [][ReplayNext]_vars

-----------------------------------------------------------------------------
(* Properties                                                                *)

\* The symbol state of either driver is of its type, and the scan never runs
\* past its pool.
TypeOK ==
    /\ \A s \in Symbols : /\ st[s].pos \in BOOLEAN /\ st[s].killed \in BOOLEAN
                          /\ st[s].setup \in {NoSetup} \cup 0..Horizon
                          /\ st[s].cands \subseteq 0..Horizon
    /\ phase \in {"SCAN", "SYMBOLS", "IDLE", "RUN", "FAILED", "TARGET_REACHED",
                  "POOL_EXHAUSTED"}
    /\ clock \in 0..Horizon /\ scannedEnd <= Horizon /\ chunkEnd <= PoolEnd
    /\ Len(selected) <= MaxEpisodes

\* A position and the setup it was opened with live and die together, across
\* chunks, epoch resets, stale hours and windows: _run_symbol and
\* _process_event raise when a position has lost its setup, and
\* evaluate_trend_pullback refuses a setup without a position.
PositionKeepsSetup ==
    \A s \in Symbols : st[s].pos <=> st[s].setup # NoSetup

\* Reference: some interval's last candle before h is not in the corpus.
Stale(s, h) ==
    \E i \in Intervals : (h \div Dur[i]) * Dur[i] - Dur[i] \notin data[s][i]
FillHours(s, a, b) == Hours(a, b) \cap data[s]["1h"]

\* The counters of the scan are those of the corpus without chunks, whatever
\* the chunk length: every hour up to the stop boundary decided exactly once,
\* missing fills and stale snapshots counted as on the whole corpus.
CountersIgnoreChunks ==
    phase \in {"SCAN", "TARGET_REACHED", "POOL_EXHAUSTED"} =>
        \A s \in Symbols :
            LET filled == FillHours(s, PoolStart, scannedEnd) IN
            /\ st[s].decisions = Cardinality(filled)
            /\ st[s].missing = Cardinality(Hours(PoolStart, scannedEnd) \ filled)
            /\ st[s].stale = Cardinality({h \in filled : Stale(s, h)})
            /\ st[s].resets = epoch

\* Candidates come from fresh point-in-time history, real fill candles and
\* outside every guarded crisis.
CandidatesAreAdmissible ==
    \A s \in Symbols : \A h \in st[s].cands :
        /\ h \in data[s]["1h"] /\ ~Stale(s, h)
        /\ \A e \in Events : h < e.pre - GuardLen \/ h >= e.end + GuardLen

SymbolIndex(s) == CHOOSE k \in DOMAIN SymbolSeq : SymbolSeq[k] = s
Precedes(a, b) ==
    a.at < b.at \/ (a.at = b.at /\ SymbolIndex(a.sym) < SymbolIndex(b.sym))
Candidates == {[at |-> h, sym |-> s] : s \in Symbols, h \in 0..Horizon}
Chosen == ToSet(selected)

\* The selection is the greedy one over all the candidates of the scan: one is
\* taken exactly when, among those taken before it, there are fewer than the
\* maximum, none within the separation and fewer than the limit in its epoch.
SelectionIsGreedy ==
    \A c \in {x \in Candidates : x.at < scannedEnd /\ x.at \in st[x.sym].cands} :
        LET before == {d \in Chosen : Precedes(d, c)} IN
        c \in Chosen <=>
            /\ Cardinality(before) < MaxEpisodes
            /\ \A d \in before : c.at - d.at >= Separation
            /\ Cardinality({d \in before : EpochOf(d.at) = EpochOf(c.at)})
                  < MaxPerEpoch

\* A replayed window reports what happened in it and nothing else: its fills
\* balance to the position it ends with, each hour of the window is a decision
\* or a missing fill, and cutting a control window out of the corpus changes
\* no verdict about stale history.
ReportsAreOfTheirWindow ==
    \A k \in DOMAIN reports :
        LET r == reports[k]
            hours == Hours(r.w.start, r.w.end)
            filled == hours \cap data[r.s]["1h"]
        IN  /\ r.x.entries - r.x.exits = IF r.x.pos THEN 1 ELSE 0
            /\ r.x.decisions = Cardinality(filled)
            /\ r.x.missing = Cardinality(hours \ filled)
            /\ r.x.stale = Cardinality({h \in filled : Stale(r.s, h)})
=============================================================================
