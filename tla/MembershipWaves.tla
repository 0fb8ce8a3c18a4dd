---------------------------- MODULE MembershipWaves ----------------------------
(* The universe of the factory: which symbols may be traded in which month.   *)
(* A symbol is only admitted once an independent record says that it was an   *)
(* ordinary spot product. Records are costly, so an audit names the frontier  *)
(* (the symbols that can still change some month's list), a wave of records   *)
(* is acquired for it and written as a new classification map, and the audit  *)
(* is repeated until no frontier is left. Then the monthly lists are frozen.  *)
(* Every file is written once under the digest of its content; commands run   *)
(* beside each other, are killed and are repeated.                            *)
EXTENDS Integers, FiniteSets, Sequences, Functions

CONSTANTS
    Symbols,        \* numbers: a lower number is an earlier name
    KnownLeveraged, \* symbols excluded by name
    Tables,         \* candles on offer: symbol -> day -> volume, 0 for no candle
    Delisted,       \* symbols with the day of their delisting (0: none)
    Days, MonthStarts,              \* days are 0 .. Days - 1
    HistoryDays, ContinuityDays, MaxMembers,
    Jobs, MaxWaves

ASSUME BoundsAssumption ==
    /\ Days \in Nat /\ MonthStarts \subseteq Nat /\ HistoryDays \in Nat \ {0}
    /\ MaxMembers \in Nat /\ MaxWaves \in Nat /\ ContinuityDays \in Nat \ {0}

ASSUME SymbolsAssumption ==
    IsFiniteSet(Symbols) /\ Symbols \subseteq Int /\ KnownLeveraged \subseteq Symbols

VARIABLES
    truth,      \* what each symbol really was
    bars,       \* the candles of the population
    ledgers,    \* acquisition ledgers, each [source, frontier, resolved]
    evidence,   \* evidence files on disk <<symbol, ledger>>
    maps,       \* classification maps on disk, each a set of evidence files
    preflights, \* maps an audit was written for
    freezes,    \* maps whose monthly lists were frozen
    job         \* the materializations under way

vars == <<truth, bars, ledgers, evidence, maps, preflights, freezes, job>>

-----------------------------------------------------------------------------
(* One month                                                                 *)

\* The days before the month starts: bisect_left on both ends.
DaysSeen(b, s, k) == {d \in 0 .. Days - 1 : b[s][d] > 0 /\ k - ContinuityDays <= d /\ d < k}

HasHistory(b, s, k) == \E d \in 0 .. Days - 1 : b[s][d] > 0 /\ d <= k - HistoryDays

Continuous(b, s, k) == 1000 * Cardinality(DaysSeen(b, s, k)) >= 995 * ContinuityDays

Total(volumes) == FoldFunction(LAMBDA x, y : x + y, 0, volumes)

QuoteVolume(b, s, k) == Total([d \in DaysSeen(b, s, k) |-> b[s][d]])

\* A sum of volumes is a number.
ASSUME VolumeAssumption ==
    \A b \in Tables, s \in Symbols, k \in MonthStarts : QuoteVolume(b, s, k) \in Int

\* _month_stat gives a row.
DataEligible(b, k) == {s \in Symbols : HasHistory(b, s, k) /\ Continuous(b, s, k)}

Before(b, k, s, r) ==
    \/ QuoteVolume(b, s, k) > QuoteVolume(b, r, k)
    \/ QuoteVolume(b, s, k) = QuoteVolume(b, r, k) /\ s < r

\* _rank_data_eligible and the slice that follows it: the MaxMembers most traded.
Top(b, k, set) ==
    {s \in set : Cardinality({r \in set : Before(b, k, r, s)}) < MaxMembers}

-----------------------------------------------------------------------------
(* The audit under a classification map                                      *)

Resolved(m) == {f[1] : f \in m}

Classification(m, s) ==
    IF s \in KnownLeveraged THEN "NONORDINARY"
    ELSE IF s \in Resolved(m) THEN truth[s] ELSE "UNRESOLVED"

\* The unresolved symbols of the raw top of the month.
MonthFrontierRaw(b, m, k) ==
    {s \in Top(b, k, DataEligible(b, k)) : Classification(m, s) = "UNRESOLVED"}

\* _classification_frontier: a symbol known not to be ordinary takes no slot.
MonthFrontier(b, m, k) ==
    LET open == {s \in DataEligible(b, k) : Classification(m, s) # "NONORDINARY"}
    IN  {s \in Top(b, k, open) : Classification(m, s) = "UNRESOLVED"}

Frontier(b, m) == UNION {MonthFrontier(b, m, k) : k \in MonthStarts}

\* membership_resolved, READY_FOR_PRODUCTION_BINDING
Ready(b, m) == Frontier(b, m) = {}

\* _monthly_membership; no eligible symbol makes an empty month.
Membership(b, m, k) ==
    Top(b, k, {s \in DataEligible(b, k) : Classification(m, s) = "ORDINARY"})

-----------------------------------------------------------------------------
(* The other builder, from an index with the life of every symbol            *)

\* Lifecycle.existed_at
ExistedAt(b, s, k) ==
    /\ \E d \in 0 .. k : d \in 0 .. Days - 1 /\ b[s][d] > 0
    /\ (Delisted[s] = 0 \/ k < Delisted[s])

\* _month_eligibility
MonthEligibility(b, k) ==
    {s \in Symbols : /\ truth[s] = "ORDINARY" /\ ExistedAt(b, s, k)
                     /\ HasHistory(b, s, k) /\ Continuous(b, s, k)}

\* build refuses a month without a symbol.
BuildRuns(b) == \A k \in MonthStarts : MonthEligibility(b, k) # {}

Built(b, k) == Top(b, k, MonthEligibility(b, k))

-----------------------------------------------------------------------------
(* The binding the runners use                                               *)

\* ProductionUniverseBinding.symbols_at: the last list in force at a day.
SymbolsAt(b, m, day) ==
    LET past == {k \in MonthStarts : k <= day}
    IN  IF past = {} THEN {} ELSE Membership(b, m, CHOOSE k \in past : \A j \in past : j <= k)

-----------------------------------------------------------------------------
(* Commands                                                                  *)

NoJob == [pc |-> "none"]

\* _load_base_classification_map: every entry of a base map is on disk.
Backed(m) == m \subseteq evidence

\* audit and materialize of the preflight, over the empty map or one on disk.
Audit(m) ==
    /\ Backed(m) /\ preflights' = preflights \union {m}
    /\ UNCHANGED <<truth, bars, ledgers, evidence, maps, freezes, job>>

\* The wave of a preflight and what was found for it: some symbols may stay
\* unresolved, the two parts make up the frontier.
Acquire(m) ==
    /\ ~Ready(bars, m) /\ Len(ledgers) < MaxWaves
    /\ \E found \in (SUBSET Frontier(bars, m)) \ {{}} :
        ledgers' = Append(ledgers, [source |-> m, frontier |-> Frontier(bars, m), resolved |-> found])
    /\ UNCHANGED <<truth, bars, evidence, maps, preflights, freezes, job>>

\* A symbol of the base map may not be classified again.
Overlap(n, base) == Resolved(base) \intersect ledgers[n].resolved

\* materialize up to its checks.
Materialize(j, n, base) ==
    /\ job[j].pc = "none" /\ Backed(base) /\ Overlap(n, base) = {}
    /\ job' = [job EXCEPT ![j] = [pc |-> "write", ledger |-> n, base |-> base,
                                  todo |-> ledgers[n].resolved]]
    /\ UNCHANGED <<truth, bars, ledgers, evidence, maps, preflights, freezes>>

WriteEvidence(j) ==
    /\ job[j].pc = "write" /\ job[j].todo # {}
    /\ LET s == CHOOSE x \in job[j].todo : \A y \in job[j].todo : x <= y
       IN  /\ evidence' = evidence \union {<<s, job[j].ledger>>}
           /\ job' = [job EXCEPT ![j].todo = @ \ {s}]
    /\ UNCHANGED <<truth, bars, ledgers, maps, preflights, freezes>>

NewMap(j) == job[j].base \union {<<s, job[j].ledger>> : s \in ledgers[job[j].ledger].resolved}

\* The map, once all of its evidence is there.
WriteMap(j) ==
    /\ job[j].pc = "write" /\ job[j].todo = {}
    /\ maps' = maps \union {NewMap(j)} /\ job' = [job EXCEPT ![j] = NoJob]
    /\ UNCHANGED <<truth, bars, ledgers, evidence, preflights, freezes>>

Kill(j) ==
    /\ job[j].pc = "write" /\ job' = [job EXCEPT ![j] = NoJob]
    /\ UNCHANGED <<truth, bars, ledgers, evidence, maps, preflights, freezes>>

\* _validate_ready_preflight, build_freeze
Freeze(m) ==
    /\ Ready(bars, m) /\ freezes' = freezes \union {m}
    /\ UNCHANGED <<truth, bars, ledgers, evidence, maps, preflights, job>>

Init ==
    /\ truth \in {t \in [Symbols -> {"ORDINARY", "NONORDINARY"}] :
                    \A s \in KnownLeveraged : t[s] = "NONORDINARY"}
    /\ bars \in Tables
    /\ ledgers = <<>> /\ evidence = {} /\ maps = {} /\ preflights = {} /\ freezes = {}
    /\ job = [j \in Jobs |-> NoJob]

Next ==
    \/ \E m \in (maps \union {{}}) \ preflights : Audit(m)
    \/ \E m \in preflights : Acquire(m)
    \/ \E m \in preflights \ freezes : Freeze(m)
    \/ \E j \in Jobs : \/ \E n \in DOMAIN ledgers, base \in maps \union {{}} : Materialize(j, n, base)
                       \/ WriteEvidence(j) \/ WriteMap(j) \/ Kill(j)

Spec == Init /\ [][Next]_vars

-----------------------------------------------------------------------------
(* Properties                                                                *)

\* A frozen month holds exactly the most traded ordinary symbols, as if every symbol
\* had been classified: the frontier leaves out none that matters (audit).
FrozenIsTrueTop ==
    \A m \in freezes, k \in MonthStarts :
        LET fit == {s \in DataEligible(bars, k) : truth[s] = "ORDINARY"}
        IN  Membership(bars, m, k) =
                {s \in fit : Cardinality({r \in fit : Before(bars, k, r, s)}) < MaxMembers}

\* The symbols in force on a day would be the same had no later candle been seen
\* (_month_stat, symbols_at).
NoLookahead ==
    \A m \in freezes, day \in 0 .. Days - 1 :
        LET seen == [s \in Symbols |-> [d \in 0 .. Days - 1 |-> IF d < day THEN bars[s][d] ELSE 0]]
            start == {k \in MonthStarts : k <= day}
        IN  start # {} => SymbolsAt(bars, m, day) = SymbolsAt(seen, m, day)

\* Both builders come to the same lists, unless a symbol was delisted by the first of
\* a month whose candles had still qualified it: only one of them knows of delistings.
BuildersAgree ==
    \A m \in freezes :
        (/\ BuildRuns(bars)
         /\ \A k \in MonthStarts : \A s \in DataEligible(bars, k) : Delisted[s] = 0 \/ k < Delisted[s])
            => \A k \in MonthStarts : Membership(bars, m, k) = Built(bars, k)

\* A wave never asks for a symbol its own map has: on that map it is always accepted,
\* so a resolution can go on until no frontier is left (materialize).
WaveFitsItsMap == \A n \in DOMAIN ledgers : Overlap(n, ledgers[n].source) = {}

\* Whenever a materialization dies, every map on disk has all of its evidence beside
\* it (materialize).
MapsAreBacked == \A m \in maps : Backed(m)

\* The universe the runners trade is the true one: every frozen list is the one full
\* knowledge gives, none of it comes from the future, and the waves that lead to it
\* can neither block each other nor leave a map without its evidence.
MembershipIsTrue ==
    FrozenIsTrueTop /\ NoLookahead /\ BuildersAgree /\ WaveFitsItsMap /\ MapsAreBacked
================================================================================
