--------------------------- MODULE DashboardPublish ---------------------------
(* P7's export and P8's dashboard. Exporters put the accepted report of a     *)
(* book of trades under the source path; builders load it, check and project *)
(* it, look at the source again and publish the page. All of them write a    *)
(* temporary file first and may die at any point. A reader pages through the *)
(* table of trades. An export is named by its book and by the fault it has;  *)
(* a digest is the name it was taken of.                                     *)
EXTENDS Integers, Sequences, FiniteSets, TLC

CONSTANTS
    Exporters, Builders,
    Books,          \* sequences of trades [id, pnl, hold], in the order of their index
    Faults,         \* ways in which a body may disagree with itself
    MaxInvocations,      \* commands each process is given
    MaxCrashes,
    Tables,         \* sequences of trades to page through
    PageSizes

ASSUME PublishAssumption == MaxInvocations \in Nat /\ MaxCrashes \in Nat /\ PageSizes \subseteq (Nat \ {0})

\* The trades of a book are a list, and the id of a trade, a digest, is its own.
ASSUME BooksAssumption ==
    \A b \in Books :
        /\ Len(b) \in Nat /\ DOMAIN b = 1 .. Len(b)
        /\ \A j, k \in DOMAIN b : b[j].id = b[k].id => j = k

VARIABLES files, procs, temps, crashes, reader

publishVars == <<files, procs, temps, crashes, reader>>

Procs == Exporters \cup Builders
Paths == {"source", "page"}
Outcomes == {"ALL", "WIN", "LOSS", "BREAKEVEN"}

Total(s) == LET sum[k \in 0 .. Len(s)] == IF k = 0 THEN 0 ELSE sum[k - 1] + s[k]
            IN  sum[Len(s)]

Pnl(trades) == Total([k \in DOMAIN trades |-> trades[k].pnl])
Ids(trades) == {trades[k].id : k \in DOMAIN trades}
Outcome(pnl) == IF pnl > 0 THEN "WIN" ELSE IF pnl < 0 THEN "LOSS" ELSE "BREAKEVEN"
Count(trades, outcome) == Cardinality({k \in DOMAIN trades : Outcome(trades[k].pnl) = outcome})

-----------------------------------------------------------------------------
(* What P7 exports                                                           *)

Segment(dim, value, trades) ==
    [dim |-> dim, value |-> value, members |-> Ids(trades), pnl |-> Pnl(trades),
     wins |-> Count(trades, "WIN"), losses |-> Count(trades, "LOSS"),
     even |-> Count(trades, "BREAKEVEN")]

Dimensions == {"SYMBOL", "STRATEGY_IDENTITY", "EVIDENCE_LABEL"}

\* Every dimension has one value over all trades, or the one of an empty book.
Export(trades) ==
    [status |-> "PASS", count |-> Len(trades), trades |-> trades,
     index |-> [k \in DOMAIN trades |-> k - 1],
     segs |-> {Segment(d, IF trades = <<>> THEN "NO_COMPLETED_TRADES" ELSE "ONLY", trades) : d \in Dimensions}]

\* A body that contradicts itself under a digest of its own.
Marred(b, fault) ==
    CASE fault = "status" -> [b EXCEPT !.status = "FAIL"]
      [] fault = "count"  -> [b EXCEPT !.count = @ + 1]
      [] fault = "index"  -> [b EXCEPT !.index = [k \in DOMAIN @ |-> 0]]
      [] fault = "twin"   -> [b EXCEPT !.trades = [k \in DOMAIN @ |-> [@[k] EXCEPT !.id = b.trades[1].id]]]
      [] fault = "pnl"    -> [b EXCEPT !.segs = {IF s.dim = "SYMBOL" THEN [s EXCEPT !.pnl = @ + 1] ELSE s : s \in @}]
      [] fault = "wins"   -> [b EXCEPT !.segs = {[s EXCEPT !.wins = @ + 1] : s \in @}]
      [] fault = "member" -> [b EXCEPT !.segs = {IF s.dim = "EVIDENCE_LABEL" /\ s.members # {}
                                                 THEN [s EXCEPT !.members = @ \ {CHOOSE m \in @ : TRUE},
                                                                !.wins = 0, !.losses = 0,
                                                                !.even = Cardinality(s.members) - 1]
                                                 ELSE s : s \in @}]
      [] OTHER -> b

Names == Books \X (Faults \cup {"none"})
Body == [n \in Names |-> Marred(Export(n[1]), n[2])]

-----------------------------------------------------------------------------
(* P8: loader and projections                                                *)

ValidateQuality(b) == b.status = "PASS"

ValidateTradeMetrics(b) ==
    /\ \A k \in DOMAIN b.index : k > 1 => b.index[k] > b.index[k - 1]
    /\ Cardinality(Ids(b.trades)) = Len(b.trades)

ValidateTradeSegments(b) ==
    /\ \A s \in b.segs : s.wins + s.losses + s.even = Cardinality(s.members)
    /\ \A s, t \in b.segs : s.dim = t.dim /\ s.value = t.value => s = t

ValidateBinding(b) == b.count = Len(b.trades)

\* _verify_loaded_export: every dimension has every trade exactly once.
Conserves(b) ==
    \A d \in Dimensions :
        LET segs == {s \in b.segs : s.dim = d}
        IN  /\ UNION {s.members : s \in segs} = Ids(b.trades)
            /\ \A s, t \in segs : s = t \/ s.members \cap t.members = {}

\* _aggregate_trade_metrics
Figures(b) ==
    LET wins == Count(b.trades, "WIN")
        upto(k) == Pnl(SubSeq(b.trades, 1, k))
        falls == UNION {{upto(j) - upto(k) : j \in 0 .. k} : k \in 0 .. Len(b.trades)}
    IN  [count |-> Len(b.trades), realized |-> Pnl(b.trades), wins |-> wins,
         losses |-> Count(b.trades, "LOSS"), even |-> Count(b.trades, "BREAKEVEN"),
         drawdown |-> CHOOSE d \in falls : \A x \in falls : x <= d]

\* The symbol's segment has the symbol's name, whatever the book
ReconcileSymbolNamed(b) ==
    LET f == Figures(b)
    IN  \E s \in b.segs :
            /\ s.dim = "SYMBOL" /\ s.value = "ONLY"
            /\ s.members = Ids(b.trades) /\ s.pnl = f.realized
            /\ s.wins = f.wins /\ s.losses = f.losses /\ s.even = f.even

\* _reconcile_symbol_segment; a book without trades has a segment of its own name.
ReconcileSymbol(b) ==
    \E s \in b.segs :
        LET f == Figures(b)
        IN  /\ s.dim = "SYMBOL"
            /\ s.value = (IF b.trades = <<>> THEN "NO_COMPLETED_TRADES" ELSE "ONLY")
            /\ s.members = Ids(b.trades) /\ s.pnl = f.realized
            /\ s.wins = f.wins /\ s.losses = f.losses /\ s.even = f.even

\* The projections, each with checks of its own on what the loader handed over.
QualityView(b) == ValidateQuality(b)
Overview(b) == ValidateQuality(b) /\ b.count >= 0
TradeTable(b) == ValidateQuality(b) /\ ValidateBinding(b) /\ ValidateTradeMetrics(b)
PerformanceView(b) == TradeTable(b) /\ ValidateTradeSegments(b) /\ Conserves(b) /\ ReconcileSymbol(b)

\* load_p7_export: the file is canonical, the one asked for, and bound to its chain.
LoadP7Export(file, expected) ==
    /\ file.kind = "export" /\ file.seal = file.name /\ file.name = expected
    /\ LET b == Body[file.name]
       IN  /\ ValidateQuality(b) /\ ValidateTradeMetrics(b)
           /\ ValidateTradeSegments(b) /\ ValidateBinding(b)

\* _pipeline
Loads(file, expected) ==
    /\ LoadP7Export(file, expected)
    /\ LET b == Body[file.name]
       IN  QualityView(b) /\ Overview(b) /\ TradeTable(b) /\ PerformanceView(b)

-----------------------------------------------------------------------------
(* The commands                                                              *)

NoFile == [kind |-> "none", name |-> <<>>, seal |-> <<>>]
ExportFile(n, seal) == [kind |-> "export", name |-> n, seal |-> seal]
Page(n) == [kind |-> "page", name |-> n, seal |-> n]

Idle(n) == [pc |-> "idle", starts |-> n, out |-> "page", overwrite |-> FALSE,
            name |-> <<>>, seen |-> NoFile, result |-> "none"]

Keep(p, r) == procs' = [procs EXCEPT ![p] = r]
End(p, result) == Keep(p, [procs[p] EXCEPT !.pc = "done", !.result = result])

\* The paths compared as they were typed
SameInputOutputAsTyped(out) == FALSE

\* _same_input_output
SameInputOutput(out) == out = "source"

\* analytics_export after a gate that passed: the body is what P7 made.
StartExport(p) ==
    /\ p \in Exporters /\ procs[p].pc \in {"idle", "done"} /\ procs[p].starts < MaxInvocations
    /\ \E book \in Books, overwrite \in BOOLEAN :
        Keep(p, [Idle(procs[p].starts + 1) EXCEPT !.pc = "target", !.out = "source",
                                                  !.overwrite = overwrite, !.name = <<book, "none">>])
    /\ UNCHANGED <<files, temps, crashes, reader>>

StartBuild(p) ==
    /\ p \in Builders /\ procs[p].pc \in {"idle", "done"} /\ procs[p].starts < MaxInvocations
    /\ \E n \in Names, out \in Paths, overwrite \in BOOLEAN :
        LET r == [Idle(procs[p].starts + 1) EXCEPT !.out = out, !.overwrite = overwrite, !.name = n]
        IN  Keep(p, IF SameInputOutput(out) THEN [r EXCEPT !.pc = "done", !.result = "INVALID_REQUEST"]
                    ELSE [r EXCEPT !.pc = "load"])
    /\ UNCHANGED <<files, temps, crashes, reader>>

Load(p) ==
    /\ procs[p].pc = "load"
    /\ LET r == [procs[p] EXCEPT !.seen = files["source"]]
       IN  Keep(p, IF Loads(files["source"], r.name) THEN [r EXCEPT !.pc = "recheck"]
                   ELSE [r EXCEPT !.pc = "done", !.result = "SOURCE_REJECTED"])
    /\ UNCHANGED <<files, temps, crashes, reader>>

\* _assert_source_unchanged
Recheck(p) ==
    /\ procs[p].pc = "recheck"
    /\ IF Loads(files["source"], procs[p].name) /\ files["source"] = procs[p].seen
       THEN Keep(p, [procs[p] EXCEPT !.pc = "target"])
       ELSE End(p, "SOURCE_MUTATED")
    /\ UNCHANGED <<files, temps, crashes, reader>>

\* The first half of _atomic_publish and of _atomic_write.
Target(p) ==
    /\ procs[p].pc = "target"
    /\ IF files[procs[p].out] # NoFile /\ ~procs[p].overwrite THEN End(p, "OUTPUT_EXISTS")
       ELSE Keep(p, [procs[p] EXCEPT !.pc = "temp"])
    /\ UNCHANGED <<files, temps, crashes, reader>>

\* The temporary file is written and synced; a disk that refuses it ends the command.
WriteTemp(p) ==
    /\ procs[p].pc = "temp"
    /\ \/ Keep(p, [procs[p] EXCEPT !.pc = "publish"]) /\ temps' = temps \cup {<<p, procs[p].starts>>}
       \/ End(p, "STORAGE_ERROR") /\ UNCHANGED temps
    /\ UNCHANGED <<files, crashes, reader>>

Content(p) == IF p \in Exporters THEN ExportFile(procs[p].name, procs[p].name) ELSE Page(procs[p].name)

\* os.replace takes the name whatever it has, os.link only a free one.
Placed(p) ==
    /\ temps' = temps \ {<<p, procs[p].starts>>}
    /\ IF ~procs[p].overwrite /\ files[procs[p].out] # NoFile
       THEN End(p, "OUTPUT_EXISTS") /\ UNCHANGED files
       ELSE /\ files' = [files EXCEPT ![procs[p].out] = Content(p)]
            /\ Keep(p, IF p \in Exporters THEN [procs[p] EXCEPT !.pc = "done", !.result = "EXPORTED"]
                       ELSE [procs[p] EXCEPT !.pc = "readback"])

\* The last half of P7's _atomic_write: what it has placed it does not read again.
PublishExport(p) ==
    /\ procs[p].pc = "publish" /\ p \in Exporters /\ Placed(p)
    /\ UNCHANGED <<crashes, reader>>

PublishPage(p) ==
    /\ procs[p].pc = "publish" /\ p \in Builders /\ Placed(p)
    /\ UNCHANGED <<crashes, reader>>

\* _read_published: what stands there now must be this page.
ReadBack(p) ==
    /\ procs[p].pc = "readback"
    /\ End(p, IF files[procs[p].out] = Content(p) THEN "BUILT" ELSE "OUTPUT_MISMATCH")
    /\ UNCHANGED <<files, temps, crashes, reader>>

\* The process is killed; its temporary file stays.
Crash(p) ==
    /\ crashes < MaxCrashes /\ procs[p].pc \notin {"idle", "done"}
    /\ crashes' = crashes + 1
    /\ End(p, "KILLED")
    /\ UNCHANGED <<files, temps, reader>>

-----------------------------------------------------------------------------
(* The table of trades                                                       *)

Rows(trades) == [k \in DOMAIN trades |-> [index |-> k, id |-> trades[k].id, pnl |-> trades[k].pnl,
                                          hold |-> trades[k].hold]]

\* apply_trade_table_query: the sort is stable in both directions, so rows with an
\* equal key stay in the order of their index.
Queried(rows, q) ==
    LET kept == SelectSeq(rows, LAMBDA r : q.outcome = "ALL" \/ Outcome(r.pnl) = q.outcome)
        sign == IF q.desc THEN 0 - 1 ELSE 1
        key(r) == sign * (CASE q.sort = "NET_PNL" -> r.pnl [] q.sort = "HOLDING_TIME" -> r.hold [] OTHER -> r.index)
    IN  SortSeq(kept, LAMBDA a, b : key(a) < key(b) \/ (key(a) = key(b) /\ a.index < b.index))

Smaller(a, b) == IF a < b THEN a ELSE b

\* project_completed_trade_table
TablePage(rows, q) ==
    LET all == Queried(rows, q)
        end == Smaller(q.offset + q.size, Len(all))
    IN  [rows |-> SubSeq(all, q.offset + 1, end), more |-> end < Len(all)]

OpenTable ==
    /\ reader.pc = "closed"
    /\ \E t \in Tables, outcome \in Outcomes, size \in PageSizes, desc \in BOOLEAN,
          sort \in {"TRADE_INDEX", "NET_PNL", "HOLDING_TIME"} :
        reader' = [pc |-> "reading", table |-> t, shown |-> <<>>,
                   query |-> [outcome |-> outcome, sort |-> sort, desc |-> desc, size |-> size, offset |-> 0]]
    /\ UNCHANGED <<files, procs, temps, crashes>>

\* The next page is asked for as long as the last one said there is more.
TurnPage ==
    /\ reader.pc = "reading"
    /\ LET page == TablePage(Rows(reader.table), reader.query)
       IN  reader' = [reader EXCEPT !.shown = @ \o page.rows,
                                    !.query.offset = @ + Len(page.rows),
                                    !.pc = IF page.more THEN "reading" ELSE "read"]
    /\ UNCHANGED <<files, procs, temps, crashes>>

-----------------------------------------------------------------------------

PublishInit ==
    /\ \E n \in Names, seal \in {"own", "other", "absent"} :
        files = [p \in Paths |-> IF p = "page" \/ seal = "absent" THEN NoFile
                                 ELSE ExportFile(n, IF seal = "own" THEN n ELSE <<>>)]
    /\ procs = [p \in Procs |-> Idle(0)]
    /\ temps = {} /\ crashes = 0
    /\ reader = [pc |-> "closed"]

Command(p) ==
    \/ StartExport(p) \/ StartBuild(p) \/ Load(p) \/ Recheck(p) \/ Target(p)
    \/ WriteTemp(p) \/ PublishExport(p) \/ PublishPage(p) \/ ReadBack(p) \/ Crash(p)

Reading == OpenTable \/ TurnPage

PublishNext == (\E p \in Procs : Command(p)) \/ Reading

PublishSpec == PublishInit /\ [][PublishNext]_publishVars

-----------------------------------------------------------------------------
(* Properties                                                                *)

\* A page that stands under its path is of an export that agrees with itself: the
\* segment of its symbol carries the result of the trades it lists, and every
\* dimension has each of them (load_p7_export, _verify_loaded_export).
PageAgreesWithItself ==
    files["page"].kind = "page" =>
        LET b == Body[files["page"].name]
        IN  /\ b.status = "PASS" /\ b.count = Len(b.trades)
            /\ \A s \in b.segs : s.dim = "SYMBOL" => s.pnl = Pnl(b.trades)
            /\ \A s \in b.segs : s.members = Ids(b.trades)

\* A name that is taken changes hands only by a command told to overwrite, however
\* the commands run into each other; the export never gives way to a page
\* (_atomic_publish, _atomic_write, _same_input_output).
NoUnaskedOverwriteStep ==
    \A path \in Paths :
     (files[path] # NoFile /\ files'[path] # files[path]) =>
         \E p \in Procs : /\ procs[p].pc = "publish" /\ procs'[p].pc # "publish"
                          /\ procs[p].overwrite /\ procs[p].out = path
                          /\ path = "source" => p \in Exporters

NoUnaskedOverwrite == [][NoUnaskedOverwriteStep]_publishVars

\* A temporary file outlives its command only if the command was killed.
TempsAccountedFor ==
    Cardinality({t \in temps : procs[t[1]].starts # t[2] \/ procs[t[1]].pc # "publish"}) <= crashes

\* P8 takes whatever P7 exports: a build is turned away at the source only if
\* another export stands there, none, or one that was tampered with.
HonestExportAccepted ==
    \A p \in Builders :
        procs[p].result = "SOURCE_REJECTED" =>
            \/ procs[p].seen.kind # "export" \/ procs[p].seen.seal # procs[p].seen.name
            \/ procs[p].seen.name # procs[p].name \/ procs[p].name[2] # "none"

\* What stands under a name can be relied on: a page is of an export that agrees with
\* itself, P8 takes whatever P7 exports, and a temporary file outlives only a killed
\* command (load_p7_export, _pipeline, _atomic_publish).
PublicationIsSafe == PageAgreesWithItself /\ HonestExportAccepted /\ TempsAccountedFor

\* Turning pages until none is left shows every row of the outcome asked for once,
\* rows with equal keys in the order of their trades.
PagesCoverTable ==
    reader.pc = "read" =>
        LET rows == Rows(reader.table)
            q == reader.query
            wanted == {k \in DOMAIN rows : q.outcome = "ALL" \/ Outcome(rows[k].pnl) = q.outcome}
        IN  /\ {reader.shown[k].index : k \in DOMAIN reader.shown} = wanted
            /\ Len(reader.shown) = Cardinality(wanted)
            /\ q.sort = "NET_PNL" =>
                \A j, k \in DOMAIN reader.shown :
                    (j < k /\ reader.shown[j].pnl = reader.shown[k].pnl) =>
                        reader.shown[j].index < reader.shown[k].index
==============================================================================
