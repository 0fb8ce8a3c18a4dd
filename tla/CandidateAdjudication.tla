------------------------- MODULE CandidateAdjudication -------------------------
(* The last stage of the factory. Every candidate of a frozen generation gets *)
(* one row of the result ledger; the ledger is reconciled with the freeze.    *)
(* The results are adjudicated: a passer needs stable parameter neighbours    *)
(* (F4), a Sharpe ratio that survives the number of trials and a family that  *)
(* is not overfitted (F5); passers that move together form clusters with one  *)
(* representative each (F6); a representative is frozen after the director's  *)
(* review of its family (F7).                                                 *)
EXTENDS Integers, FiniteSets, Sequences, FiniteSetsExt

CONSTANTS
    Raw,            \* candidates: numbers in the order of their ids
    Kind,           \* candidate -> "EXECUTABLE", "BLOCKED" or "INVALID"
    Family, Vector, \* candidate -> its family and its positions in the parameter domains
    Outcomes,       \* what running them gives: candidate -> [pass, stress, limit, metric]
    Rhos,           \* correlations of their returns: {i, j} -> percent
    Pbos,           \* family -> whether its split test passes
    MinNeighbors,   \* 3 in the code
    MaxRows         \* rows recorded for one candidate

BoundsAssumption == MinNeighbors \in Nat /\ MaxRows \in Nat

Executable == {c \in Raw : Kind[c] = "EXECUTABLE"}

VARIABLES
    outcome, rho, pbo,
    done,       \* executable candidates that were run
    rows,       \* candidate -> states recorded for it, in order
    ledger,     \* the reconciliation of the rows
    verdict,    \* the adjudication
    cleared,    \* families cleared by the director
    frozen      \* survivors, and representatives held

vars == <<outcome, rho, pbo, done, rows, ledger, verdict, cleared, frozen>>

Rho(i, j) == IF i = j THEN 100 ELSE rho[{i, j}]

-----------------------------------------------------------------------------
(* Neighbours                                                                *)

Abs(x) == IF x < 0 THEN -x ELSE x

\* build_neighbor_graph: one parameter moved by one place, where such a candidate is.
Neighbors(c) ==
    {d \in Executable :
        /\ Family[d] = Family[c]
        /\ \E p \in DOMAIN Vector[c], step \in {-1, 1} :
            Vector[d] = [Vector[c] EXCEPT ![p] = @ + step]}

-----------------------------------------------------------------------------
(* The ledger                                                                *)

States == {"STRUCTURALLY_INVALID", "BLOCKED_IMPLEMENTATION", "DEVELOPMENT_FAIL", "F0_F3_PASS"}

ResultState(c) == IF outcome[c].pass THEN "F0_F3_PASS" ELSE "DEVELOPMENT_FAIL"

\* make_record: a row about performance carries the candidate's own result, of that state.
RecordValid(c, state) ==
    state \in {"DEVELOPMENT_FAIL", "F0_F3_PASS"} => c \in done /\ ResultState(c) = state

\* reconcile: one row and no second one.
RowsFinal(c) == Len(rows[c]) = 1

RowFits(c) ==
    LET state == rows[c][1]
    IN  \/ Kind[c] = "INVALID" /\ state = "STRUCTURALLY_INVALID"
        \/ Kind[c] = "BLOCKED" /\ state = "BLOCKED_IMPLEMENTATION"
        \/ Kind[c] = "EXECUTABLE" /\ state \in {"DEVELOPMENT_FAIL", "F0_F3_PASS"}

Reconciliation ==
    LET complete == \A c \in Raw : RowsFinal(c) /\ RowFits(c)
    IN  [status |-> IF complete THEN "BATCH_COMPLETE" ELSE "BATCH_INVALID",
         rows |-> IF complete THEN rows ELSE <<>>,
         passers |-> IF complete THEN {c \in Raw : rows[c][1] = "F0_F3_PASS"} ELSE {}]

-----------------------------------------------------------------------------
(* Adjudication                                                              *)

Passers == {c \in Executable : outcome[c].pass}

\* Twice the median, so that a mean of the middle two stays whole.
Median2(values) ==
    LET n == Len(values)
        at(k) == CHOOSE v \in {values[i] : i \in 1 .. n} :
                    /\ Cardinality({i \in 1 .. n : values[i] < v}) < k
                    /\ Cardinality({i \in 1 .. n : values[i] <= v}) >= k
    IN  at((n + 1) \div 2) + at(n \div 2 + 1)

StressOf(set) ==
    LET seq == CHOOSE s \in [1 .. Cardinality(set) -> set] : {s[i] : i \in DOMAIN s} = set
    IN  [i \in DOMAIN seq |-> outcome[seq[i]].stress]

\* neighbor_stability
F4(c) ==
    LET near == Neighbors(c)
    IN  /\ Cardinality(near) >= MinNeighbors
        /\ 2 * Cardinality(near \intersect Passers) >= Cardinality(near)
        /\ near # {} /\ Median2(StressOf(near)) > 0

\* effective_trial_count in hundredths: n^2 over the sum of the squared correlations.
EffectiveTrials(set) ==
    LET n == Cardinality(set)
        squares == MapThenSumSet(LAMBDA p : Rho(p[1], p[2]) * Rho(p[1], p[2]), set \X set)
    IN  (1000000 * n * n) \div squares

\* TrialAccounting.validate: the effective count lies between one and the raw count.
AccountingValid(set) == EffectiveTrials(set) \in 100 .. 100 * Cardinality(set)

\* deflated_sharpe: the more trials, the higher the ratio has to be.
Dsr(c, trials) == trials <= outcome[c].limit

\* cscv_pbo needs two passers of the family.
PboPasses(f) == Cardinality({c \in Passers : Family[c] = f}) >= 2 /\ pbo[f]

\* statistical_gate over the trials of the whole generation and of the family.
F5(c) ==
    LET all == EffectiveTrials(Executable)
        family == EffectiveTrials({d \in Executable : Family[d] = Family[c]})
    IN  Dsr(c, IF all >= family THEN all ELSE family) /\ PboPasses(Family[c])

F4Passers == {c \in Passers : F4(c)}
F5Passers == {c \in F4Passers : F5(c)}

Edge(i, j) == Abs(Rho(i, j)) >= 80

\* Root of a candidate in the forest of parents.
RECURSIVE Find(_, _)
Find(parent, x) == IF parent[x] = x THEN x ELSE Find(parent, parent[x])

\* The two ends joined without going to their roots.
UnionEnds(parent, i, j) == [parent EXCEPT ![j] = i]

\* union: the later root under the earlier one.
Union(parent, i, j) ==
    LET a == Find(parent, i)
        b == Find(parent, j)
    IN  IF a = b THEN parent
        ELSE [parent EXCEPT ![IF a < b THEN b ELSE a] = IF a < b THEN a ELSE b]

\* The pairs in the order of the two loops.
RECURSIVE Joined(_, _)
Joined(parent, pairs) ==
    IF pairs = {} THEN parent
    ELSE LET p == CHOOSE x \in pairs : \A y \in pairs : x[1] < y[1] \/ (x[1] = y[1] /\ x[2] <= y[2])
         IN  Joined(IF Edge(p[1], p[2]) THEN Union(parent, p[1], p[2]) ELSE parent, pairs \ {p})

\* common_factor_clusters
Clusters(set) ==
    LET parent == Joined([c \in set |-> c], {p \in set \X set : p[1] < p[2]})
    IN  {{d \in set : Find(parent, d) = Find(parent, c)} : c \in set}

\* select_representative: the best metric, then the earlier id.
Representative(cluster) ==
    {c \in cluster : \A d \in cluster : \/ outcome[c].metric > outcome[d].metric
                                        \/ outcome[c].metric = outcome[d].metric /\ c <= d}

Representatives == UNION {Representative(k) : k \in Clusters(F5Passers)}

-----------------------------------------------------------------------------
(* Steps                                                                     *)

\* run_candidate: the same result however often it is run.
Run(c) ==
    /\ done' = done \union {c}
    /\ UNCHANGED <<outcome, rho, pbo, rows, ledger, verdict, cleared, frozen>>

\* make_record for a candidate, right or wrong.
Record(c, state) ==
    /\ ledger.status = "OPEN" /\ Len(rows[c]) < MaxRows /\ RecordValid(c, state)
    /\ rows' = [rows EXCEPT ![c] = Append(@, state)]
    /\ UNCHANGED <<outcome, rho, pbo, done, ledger, verdict, cleared, frozen>>

Reconcile ==
    /\ ledger.status = "OPEN" /\ ledger' = Reconciliation
    /\ UNCHANGED <<outcome, rho, pbo, done, rows, verdict, cleared, frozen>>

\* adjudicate, once there is a result of every executable candidate; it does not look
\* at the ledger.
Adjudicate ==
    /\ done = Executable /\ verdict.state = "NONE"
    /\ AccountingValid(Executable)
    /\ verdict' = [state |-> IF Representatives = {} THEN "ZERO_SURVIVOR_VALID" ELSE "PENDING_REVIEW",
                   passers |-> Passers, f5 |-> F5Passers, representatives |-> Representatives]
    /\ UNCHANGED <<outcome, rho, pbo, done, rows, ledger, cleared, frozen>>

Review(f) ==
    /\ verdict.state = "PENDING_REVIEW" /\ f \notin cleared /\ cleared' = cleared \union {f}
    /\ UNCHANGED <<outcome, rho, pbo, done, rows, ledger, verdict, frozen>>

\* freeze_survivor: frozen when the family is cleared, held otherwise.
FreezeSurvivor(c) ==
    /\ verdict.state = "PENDING_REVIEW" /\ c \in verdict.representatives
    /\ frozen' = frozen \union {[id |-> c, state |-> IF Family[c] \in cleared THEN "FROZEN" ELSE "HELD"]}
    /\ UNCHANGED <<outcome, rho, pbo, done, rows, ledger, verdict, cleared>>

Init ==
    /\ outcome \in Outcomes /\ rho \in Rhos /\ pbo \in Pbos
    /\ done = {} /\ rows = [c \in Raw |-> <<>>]
    /\ ledger = [status |-> "OPEN", rows |-> <<>>, passers |-> {}]
    /\ verdict = [state |-> "NONE", passers |-> {}, f5 |-> {}, representatives |-> {}]
    /\ cleared = {} /\ frozen = {}

Next ==
    \/ \E c \in Executable \ done : Run(c)
    \/ \E c \in Raw, state \in States : Record(c, state)
    \/ Reconcile \/ Adjudicate
    \/ \E f \in {Family[c] : c \in Raw} : Review(f)
    \/ \E c \in Executable : FreezeSurvivor(c)

Spec == Init /\ [][Next]_vars

-----------------------------------------------------------------------------
(* Properties                                                                *)

\* The neighbours a passer was judged by are all the candidates one step away in one
\* parameter, on either side of it, around the gaps of the grid: none that vouches for
\* it is missing, and each is judged by it in turn (build_neighbor_graph).
NeighborsMutual ==
    \A c \in verdict.passers, d \in Executable :
        (d \in Neighbors(c)) <=>
            /\ Family[c] = Family[d]
            /\ MapThenSumSet(LAMBDA p : Abs(Vector[c][p] - Vector[d][p]), DOMAIN Vector[c]) = 1

\* A complete ledger and the verdict count the same passers, and every candidate of
\* the generation has had exactly one word said about it (make_record, reconcile).
LedgerMatchesVerdict ==
    (verdict.state # "NONE" /\ ledger.status = "BATCH_COMPLETE") =>
        /\ ledger.passers = verdict.passers
        /\ \A c \in Raw : Len(ledger.rows[c]) = 1

Linked(set) ==
    LET RECURSIVE Reach(_)
        Reach(s) == LET more == s \union {d \in set : \E c \in s : Edge(c, d)}
                    IN  IF more = s THEN s ELSE Reach(more)
    IN  [c \in set |-> Reach({c})]

\* Survivors are different bets: no chain of correlated passers leads from one
\* representative to another, and every passer has one at the end of a chain
\* (common_factor_clusters, select_representative).
OneBetPerCluster ==
    verdict.state # "NONE" =>
        LET linked == Linked(verdict.f5)
        IN  \A c \in verdict.f5 : Cardinality(linked[c] \intersect verdict.representatives) = 1
================================================================================
