------------------------- MODULE MembershipWavesProofs -------------------------
(***************************************************************************)
(* The universe of the factory is the true one for any candles, symbols,   *)
(* months, waves of evidence and number of commands.  The heart of it is   *)
(* TopOfPart: a part of a set that holds the set's top has the same top.   *)
(* A frontier that is empty says that the top of the symbols not ruled out *)
(* is classified, so the ordinary ones have that very top.                 *)
(***************************************************************************)
EXTENDS MembershipWaves, FiniteSetTheorems, WellFoundedInduction, TLAPS

-----------------------------------------------------------------------------
(* Numbers                                                                   *)

(* A nonempty set of natural numbers has a least one. *)
LEMMA LeastNumber ==
    ASSUME NEW S \in SUBSET Nat, S # {}
    PROVE  \E x \in S : \A y \in S : x <= y
  <1>1. PICK x \in S : \A y \in S : ~(<<y, x>> \in OpToRel(<, Nat))
    BY WFMin, NatLessThanWellFounded
  <1>2. \A y \in S : ~(y < x)
    BY <1>1 DEF OpToRel
  <1> QED
    BY <1>2

(* A nonempty set of natural numbers up to a day has a greatest one. *)
LEMMA GreatestNumber ==
    ASSUME NEW S \in SUBSET Nat, S # {}, NEW day \in Nat, \A x \in S : x <= day
    PROVE  \E x \in S : \A y \in S : y <= x
  <1> DEFINE T == {day - x : x \in S}
  <1>1. T \in SUBSET Nat /\ T # {}
    <2>1. \A x \in S : day - x \in Nat
      OBVIOUS
    <2> QED
      BY <2>1
  <1>2. PICK t \in T : \A u \in T : t <= u
    <2> HIDE DEF T
    <2> QED
      BY <1>1, LeastNumber
  <1>3. PICK x \in S : t = day - x
    OBVIOUS
  <1>4. ASSUME NEW y \in S PROVE y <= x
    <2>1. day - y \in T
      OBVIOUS
    <2>2. day - x <= day - y
      BY <1>2, <1>3, <2>1
    <2> QED
      BY <2>2
  <1> QED
    BY <1>4

-----------------------------------------------------------------------------
(* The top of a set                                                          *)

Ahead(b, k, set, s) == {r \in set : Before(b, k, r, s)}

(* Before orders the symbols strictly and totally. *)
LEMMA BeforeIsTotal ==
    ASSUME NEW b \in Tables, NEW k \in MonthStarts
    PROVE  /\ \A s \in Symbols : ~Before(b, k, s, s)
           /\ \A s, r \in Symbols : s = r \/ Before(b, k, s, r) \/ Before(b, k, r, s)
           /\ \A s, r, q \in Symbols :
                Before(b, k, s, r) /\ Before(b, k, r, q) => Before(b, k, s, q)
  <1> DEFINE V(s) == QuoteVolume(b, s, k)
  <1>1. \A s \in Symbols : V(s) \in Int /\ s \in Int
    BY VolumeAssumption, SymbolsAssumption
  <1>2. \A s, r : Before(b, k, s, r) <=> (V(s) > V(r) \/ (V(s) = V(r) /\ s < r))
    BY DEF Before
  <1> HIDE DEF V
  <1>3. \A s \in Symbols : ~Before(b, k, s, s)
    BY <1>1, <1>2
  <1>4. \A s, r \in Symbols : s = r \/ Before(b, k, s, r) \/ Before(b, k, r, s)
    BY <1>1, <1>2
  <1>5. \A s, r, q \in Symbols :
            Before(b, k, s, r) /\ Before(b, k, r, q) => Before(b, k, s, q)
    BY <1>1, <1>2
  <1> QED
    BY <1>3, <1>4, <1>5

LEMMA AheadIsFinite ==
    ASSUME NEW b, NEW k, NEW set \in SUBSET Symbols, NEW s
    PROVE  /\ IsFiniteSet(Ahead(b, k, set, s))
           /\ Cardinality(Ahead(b, k, set, s)) \in Nat
  <1>1. Ahead(b, k, set, s) \subseteq Symbols
    BY DEF Ahead
  <1> QED
    BY <1>1, SymbolsAssumption, FS_Subset, FS_CardinalityType

(* Some symbol a set leaves out of its top comes right behind the top. *)
LEMMA FirstOutside ==
    ASSUME NEW b \in Tables, NEW k \in MonthStarts, NEW set \in SUBSET Symbols,
           NEW s \in set, s \notin Top(b, k, set)
    PROVE  \E x \in set : /\ x \notin Top(b, k, set)
                          /\ Ahead(b, k, set, x) \subseteq Top(b, k, set)
                          /\ x = s \/ Before(b, k, x, s)
  <1> DEFINE out == set \ Top(b, k, set)
             C(x) == Cardinality(Ahead(b, k, set, x))
             N == {C(x) : x \in out}
  <1>1. N \in SUBSET Nat /\ N # {}
    BY AheadIsFinite
  <1>2. PICK n \in N : \A u \in N : n <= u
    <2> HIDE DEF N
    <2> QED
      BY <1>1, LeastNumber
  <1>3. PICK x \in out : n = C(x)
    OBVIOUS
  <1>4. \A y \in out : C(x) <= C(y)
    BY <1>2, <1>3
  <1>5. ASSUME NEW y \in out PROVE ~Before(b, k, y, x)
    <2> SUFFICES ASSUME Before(b, k, y, x) PROVE FALSE
      OBVIOUS
    <2>1. Ahead(b, k, set, y) \subseteq Ahead(b, k, set, x)
      BY BeforeIsTotal DEF Ahead
    <2>2. y \in Ahead(b, k, set, x) /\ y \notin Ahead(b, k, set, y)
      BY BeforeIsTotal DEF Ahead
    <2>3. C(y) <= C(x) /\ C(y) # C(x) /\ C(x) \in Nat /\ C(y) \in Nat
      BY <2>1, <2>2, AheadIsFinite, FS_Subset
    <2> HIDE DEF C
    <2> QED
      BY <1>4, <2>3
  <1>6. Ahead(b, k, set, x) \subseteq Top(b, k, set)
    BY <1>5 DEF Ahead
  <1>7. x = s \/ Before(b, k, x, s)
    BY <1>5, BeforeIsTotal
  <1> QED
    BY <1>6, <1>7

(* A part of a set that holds the top of the set has the same top. *)
LEMMA TopOfPart ==
    ASSUME NEW b \in Tables, NEW k \in MonthStarts, NEW set \in SUBSET Symbols,
           NEW part \in SUBSET set, Top(b, k, set) \subseteq part
    PROVE  Top(b, k, part) = Top(b, k, set)
  <1>1. ASSUME NEW s \in Top(b, k, set) PROVE s \in Top(b, k, part)
    <2>1. Ahead(b, k, part, s) \subseteq Ahead(b, k, set, s)
      BY DEF Ahead
    <2>2. /\ Cardinality(Ahead(b, k, part, s)) <= Cardinality(Ahead(b, k, set, s))
          /\ Cardinality(Ahead(b, k, part, s)) \in Nat /\ Cardinality(Ahead(b, k, set, s)) \in Nat
      BY <2>1, AheadIsFinite, FS_Subset
    <2>3. Cardinality(Ahead(b, k, set, s)) < MaxMembers
      BY DEF Top, Ahead
    <2>4. Cardinality(Ahead(b, k, part, s)) < MaxMembers
      BY <2>2, <2>3, BoundsAssumption
    <2> QED
      BY <2>4 DEF Top, Ahead
  <1>2. ASSUME NEW s \in Top(b, k, part), s \notin Top(b, k, set) PROVE FALSE
    <2>1. s \in part /\ s \in set /\ Cardinality(Ahead(b, k, part, s)) < MaxMembers
      BY DEF Top, Ahead
    <2>2. PICK x \in set : /\ x \notin Top(b, k, set)
                           /\ Ahead(b, k, set, x) \subseteq Top(b, k, set)
                           /\ x = s \/ Before(b, k, x, s)
      BY <1>2, <2>1, FirstOutside
    <2>3. Ahead(b, k, set, x) \subseteq Ahead(b, k, part, s)
      BY <2>1, <2>2, BeforeIsTotal DEF Ahead
    <2>4. /\ Cardinality(Ahead(b, k, set, x)) <= Cardinality(Ahead(b, k, part, s))
          /\ Cardinality(Ahead(b, k, part, s)) \in Nat /\ Cardinality(Ahead(b, k, set, x)) \in Nat
      BY <2>3, AheadIsFinite, FS_Subset
    <2>5. Cardinality(Ahead(b, k, set, x)) < MaxMembers
      BY <2>1, <2>4, BoundsAssumption
    <2> QED
      BY <2>2, <2>5 DEF Top, Ahead
  <1> QED
    BY <1>1, <1>2

-----------------------------------------------------------------------------
(* The invariant                                                             *)

Entries == Symbols \X Nat

Ledgers == [source : SUBSET Entries, frontier : SUBSET Symbols, resolved : SUBSET Symbols]

JobStates ==
    {NoJob} \cup [pc : {"write"}, ledger : Nat, base : SUBSET Entries, todo : SUBSET Symbols]

TypeOK ==
    /\ truth \in [Symbols -> {"ORDINARY", "NONORDINARY"}]
    /\ bars \in Tables
    /\ ledgers \in Seq(Ledgers)
    /\ maps \subseteq SUBSET Entries /\ preflights \subseteq SUBSET Entries
    /\ job \in [Jobs -> JobStates]

(* What was excluded by name was no ordinary product. *)
NamesAreTrue == \A s \in KnownLeveraged : truth[s] = "NONORDINARY"

FrozenIsReady == \A m \in freezes : Ready(bars, m)

(* A materialization: the base it checked is still on disk, and everything   *)
(* that is no longer to be written has been written.                         *)
JobsAreBacked ==
    \A j \in Jobs : job[j].pc = "write" =>
        /\ job[j].ledger \in DOMAIN ledgers /\ job[j].base \subseteq evidence
        /\ \A s \in ledgers[job[j].ledger].resolved \ job[j].todo :
              <<s, job[j].ledger>> \in evidence

WaveInv ==
    /\ TypeOK /\ NamesAreTrue /\ FrozenIsReady
    /\ WaveFitsItsMap /\ JobsAreBacked /\ MapsAreBacked

LEMMA WaveInit == Init => WaveInv
  <1> SUFFICES ASSUME Init PROVE WaveInv
    OBVIOUS
  <1>1. TypeOK
    BY DEF Init, TypeOK, JobStates
  <1>2. NamesAreTrue /\ FrozenIsReady /\ WaveFitsItsMap /\ MapsAreBacked
    BY DEF Init, NamesAreTrue, FrozenIsReady, WaveFitsItsMap, MapsAreBacked
  <1>3. JobsAreBacked
    BY DEF Init, JobsAreBacked, NoJob
  <1> QED
    BY <1>1, <1>2, <1>3 DEF WaveInv

(* The frontier of a map holds no symbol the map has a record of. *)
LEMMA FrontierIsOpen ==
    ASSUME NEW b, NEW m
    PROVE  /\ Frontier(b, m) \subseteq Symbols
           /\ Frontier(b, m) \cap Resolved(m) = {} \/ \E s \in Symbols : truth[s] = "UNRESOLVED"
  <1>1. ASSUME NEW s \in Frontier(b, m)
        PROVE  s \in Symbols /\ Classification(m, s) = "UNRESOLVED"
    BY DEF Frontier, MonthFrontier, Top, DataEligible
  <1> QED
    BY <1>1 DEF Classification

(* Whether a map is ready depends on the world and on the map. *)
LEMMA SameWorld ==
    ASSUME UNCHANGED <<truth, bars>>
    PROVE  \A m : Ready(bars, m)' <=> Ready(bars, m)
  BY DEF Ready, Frontier, MonthFrontier, Classification

LEMMA AuditStep ==
    ASSUME WaveInv, NEW m \in maps \cup {{}}, Audit(m)
    PROVE  WaveInv'
  <1>0. UNCHANGED <<truth, bars, ledgers, evidence, maps, freezes, job>>
        /\ preflights' = preflights \cup {m}
    BY DEF Audit
  <1>1. TypeOK'
    BY <1>0 DEF WaveInv, TypeOK
  <1>2. FrozenIsReady'
    BY <1>0, SameWorld DEF WaveInv, FrozenIsReady
  <1> QED
    BY <1>0, <1>1, <1>2 DEF WaveInv, NamesAreTrue, WaveFitsItsMap, Overlap, JobsAreBacked,
        MapsAreBacked, Backed

LEMMA FreezeStep ==
    ASSUME WaveInv, NEW m \in preflights, Freeze(m)
    PROVE  WaveInv'
  <1>0. /\ UNCHANGED <<truth, bars, ledgers, evidence, maps, preflights, job>>
        /\ freezes' = freezes \cup {m} /\ Ready(bars, m)
    BY DEF Freeze
  <1>1. FrozenIsReady'
    BY <1>0, SameWorld DEF WaveInv, FrozenIsReady
  <1> QED
    BY <1>0, <1>1 DEF WaveInv, TypeOK, NamesAreTrue, WaveFitsItsMap, Overlap, JobsAreBacked,
        MapsAreBacked, Backed

LEMMA AcquireStep ==
    ASSUME WaveInv, NEW m \in preflights, Acquire(m)
    PROVE  WaveInv'
  <1>0. UNCHANGED <<truth, bars, evidence, maps, preflights, freezes, job>>
    BY DEF Acquire
  <1>1. PICK found \in SUBSET Frontier(bars, m) :
            ledgers' = Append(ledgers, [source |-> m, frontier |-> Frontier(bars, m),
                                        resolved |-> found])
    BY DEF Acquire
  <1> DEFINE new == [source |-> m, frontier |-> Frontier(bars, m), resolved |-> found]
  <1>2. Frontier(bars, m) \subseteq Symbols /\ Frontier(bars, m) \cap Resolved(m) = {}
    BY FrontierIsOpen DEF WaveInv, TypeOK
  <1>3. new \in Ledgers /\ new.source = m /\ new.resolved = found
    BY <1>2 DEF WaveInv, TypeOK, Ledgers
  <1>4. ledgers' = Append(ledgers, new) /\ ledgers \in Seq(Ledgers)
    BY <1>1 DEF WaveInv, TypeOK
  <1> HIDE DEF new
  <1>5. /\ ledgers' \in Seq(Ledgers) /\ Len(ledgers) \in Nat
        /\ DOMAIN ledgers' = DOMAIN ledgers \cup {Len(ledgers) + 1}
        /\ \A n \in DOMAIN ledgers : ledgers'[n] = ledgers[n]
        /\ ledgers'[Len(ledgers) + 1] = new
    BY <1>3, <1>4
  <1>6. TypeOK'
    BY <1>0, <1>5 DEF WaveInv, TypeOK
  <1>7. WaveFitsItsMap'
    BY <1>2, <1>3, <1>5 DEF WaveInv, WaveFitsItsMap, Overlap
  <1>8. JobsAreBacked'
    BY <1>0, <1>5 DEF WaveInv, JobsAreBacked
  <1>9. FrozenIsReady'
    BY <1>0, SameWorld DEF WaveInv, FrozenIsReady
  <1> QED
    BY <1>0, <1>6, <1>7, <1>8, <1>9 DEF WaveInv, NamesAreTrue, MapsAreBacked, Backed

(* A command of the materialization. *)
LEMMA JobStep ==
    ASSUME WaveInv, NEW j \in Jobs, NEW new \in JobStates, job' = [job EXCEPT ![j] = new],
           UNCHANGED <<truth, bars, ledgers, preflights, freezes>>,
           evidence \subseteq evidence',
           new.pc = "write" =>
               /\ new.ledger \in DOMAIN ledgers /\ new.base \subseteq evidence'
               /\ \A s \in ledgers[new.ledger].resolved \ new.todo :
                     <<s, new.ledger>> \in evidence',
           maps' \subseteq SUBSET Entries, \A m \in maps' : m \subseteq evidence'
    PROVE  WaveInv'
  <1>1. TypeOK'
    BY DEF WaveInv, TypeOK
  <1>2. JobsAreBacked'
    <2> SUFFICES ASSUME NEW i \in Jobs, job'[i].pc = "write"
                 PROVE  /\ job'[i].ledger \in DOMAIN ledgers /\ job'[i].base \subseteq evidence'
                        /\ \A s \in ledgers[job'[i].ledger].resolved \ job'[i].todo :
                              <<s, job'[i].ledger>> \in evidence'
      BY DEF JobsAreBacked
    <2>1. CASE i = j
      <3>1. job'[i] = new
        BY <2>1 DEF WaveInv, TypeOK
      <3> QED
        BY <3>1
    <2>2. CASE i # j
      <3>1. job'[i] = job[i]
        BY <2>2 DEF WaveInv, TypeOK
      <3> QED
        BY <3>1 DEF WaveInv, JobsAreBacked
    <2> QED
      BY <2>1, <2>2
  <1>3. FrozenIsReady' /\ NamesAreTrue' /\ WaveFitsItsMap'
    BY SameWorld DEF WaveInv, NamesAreTrue, FrozenIsReady, WaveFitsItsMap, Overlap
  <1>4. MapsAreBacked'
    BY DEF MapsAreBacked, Backed
  <1> QED
    BY <1>1, <1>2, <1>3, <1>4 DEF WaveInv

LEMMA MaterializeStep ==
    ASSUME WaveInv, NEW j \in Jobs, NEW n \in DOMAIN ledgers, NEW base \in maps \cup {{}},
           Materialize(j, n, base)
    PROVE  WaveInv'
  <1> DEFINE new == [pc |-> "write", ledger |-> n, base |-> base, todo |-> ledgers[n].resolved]
  <1>1. ledgers[n] \in Ledgers /\ n \in Nat
    BY DEF WaveInv, TypeOK
  <1>2. /\ new \in JobStates /\ new.ledger = n /\ new.base = base
        /\ new.todo = ledgers[n].resolved
    BY <1>1 DEF WaveInv, TypeOK, JobStates, Ledgers
  <1>3. job' = [job EXCEPT ![j] = new] /\ base \subseteq evidence
    BY DEF Materialize, Backed
  <1> HIDE DEF new
  <1>4. maps' \subseteq SUBSET Entries /\ \A m \in maps' : m \subseteq evidence'
    BY DEF Materialize, WaveInv, TypeOK, MapsAreBacked, Backed
  <1>5. UNCHANGED <<truth, bars, ledgers, evidence, preflights, freezes>>
    BY DEF Materialize
  <1>6. evidence \subseteq evidence'
    BY <1>5
  <1>7. /\ new.ledger \in DOMAIN ledgers /\ new.base \subseteq evidence'
        /\ \A s \in ledgers[new.ledger].resolved \ new.todo : <<s, new.ledger>> \in evidence'
    BY <1>2, <1>3, <1>5
  <1> QED
    BY <1>2, <1>3, <1>4, <1>5, <1>6, <1>7, JobStep

LEMMA WriteEvidenceStep ==
    ASSUME WaveInv, NEW j \in Jobs, WriteEvidence(j)
    PROVE  WaveInv'
  <1>0. /\ job[j] \in JobStates /\ job[j].pc = "write"
        /\ job[j].ledger \in DOMAIN ledgers /\ job[j].base \subseteq evidence
        /\ \A s \in ledgers[job[j].ledger].resolved \ job[j].todo :
              <<s, job[j].ledger>> \in evidence
    BY DEF WriteEvidence, WaveInv, TypeOK, JobsAreBacked
  <1>1. PICK s : /\ evidence' = evidence \cup {<<s, job[j].ledger>>}
                 /\ job' = [job EXCEPT ![j].todo = @ \ {s}]
    BY DEF WriteEvidence
  <1> DEFINE new == [job[j] EXCEPT !.todo = @ \ {s}]
  <1>2. job[j] \in [pc : {"write"}, ledger : Nat, base : SUBSET Entries, todo : SUBSET Symbols]
    BY <1>0 DEF JobStates, NoJob
  <1>3. /\ new \in JobStates /\ new.ledger = job[j].ledger /\ new.base = job[j].base
        /\ new.todo = job[j].todo \ {s}
    BY <1>2 DEF JobStates
  <1>4. job' = [job EXCEPT ![j] = new]
    BY <1>1 DEF WaveInv, TypeOK
  <1> HIDE DEF new
  <1>5. UNCHANGED <<truth, bars, ledgers, maps, preflights, freezes>>
    BY DEF WriteEvidence
  <1>6. evidence \subseteq evidence'
    BY <1>1
  <1>7. /\ new.ledger \in DOMAIN ledgers /\ new.base \subseteq evidence'
        /\ \A x \in ledgers[new.ledger].resolved \ new.todo : <<x, new.ledger>> \in evidence'
    BY <1>0, <1>1, <1>3
  <1>8. maps' \subseteq SUBSET Entries /\ \A m \in maps' : m \subseteq evidence'
    BY <1>5, <1>6 DEF WaveInv, TypeOK, MapsAreBacked, Backed
  <1> QED
    BY <1>3, <1>4, <1>5, <1>6, <1>7, <1>8, JobStep

LEMMA EndStep ==
    ASSUME WaveInv, NEW j \in Jobs, WriteMap(j) \/ Kill(j)
    PROVE  WaveInv'
  <1>0. /\ job[j] \in JobStates /\ job[j].pc = "write"
        /\ job[j].ledger \in DOMAIN ledgers /\ job[j].base \subseteq evidence
        /\ \A s \in ledgers[job[j].ledger].resolved \ job[j].todo :
              <<s, job[j].ledger>> \in evidence
    BY DEF WriteMap, Kill, WaveInv, TypeOK, JobsAreBacked
  <1>1. job[j] \in [pc : {"write"}, ledger : Nat, base : SUBSET Entries, todo : SUBSET Symbols]
    BY <1>0 DEF JobStates, NoJob
  <1>2. ledgers[job[j].ledger] \in Ledgers
    BY <1>0 DEF WaveInv, TypeOK
  <1>3. NewMap(j) \in SUBSET Entries
    BY <1>1, <1>2 DEF NewMap, Ledgers, Entries
  <1>4. job[j].todo = {} => NewMap(j) \subseteq evidence
    BY <1>0 DEF NewMap
  <1>5. /\ UNCHANGED <<truth, bars, ledgers, evidence, preflights, freezes>>
        /\ job' = [job EXCEPT ![j] = NoJob]
        /\ maps' = maps \/ (job[j].todo = {} /\ maps' = maps \cup {NewMap(j)})
    BY DEF WriteMap, Kill
  <1>6. maps' \subseteq SUBSET Entries /\ \A m \in maps' : m \subseteq evidence'
    BY <1>3, <1>4, <1>5 DEF WaveInv, TypeOK, MapsAreBacked, Backed
  <1>7. NoJob \in JobStates /\ NoJob.pc # "write"
    BY DEF JobStates, NoJob
  <1> QED
    BY <1>5, <1>6, <1>7, JobStep

LEMMA WaveNext == WaveInv /\ [Next]_vars => WaveInv'
  <1> SUFFICES ASSUME WaveInv, [Next]_vars PROVE WaveInv'
    OBVIOUS
  <1>1. ASSUME NEW m \in maps \cup {{}}, Audit(m) PROVE WaveInv'
    BY <1>1, AuditStep
  <1>2. ASSUME NEW m \in preflights, Acquire(m) \/ Freeze(m) PROVE WaveInv'
    BY <1>2, AcquireStep, FreezeStep
  <1>3. ASSUME NEW j \in Jobs, NEW n \in DOMAIN ledgers, NEW base \in maps \cup {{}},
               Materialize(j, n, base)
        PROVE  WaveInv'
    BY <1>3, MaterializeStep
  <1>4. ASSUME NEW j \in Jobs, WriteEvidence(j) \/ WriteMap(j) \/ Kill(j) PROVE WaveInv'
    BY <1>4, WriteEvidenceStep, EndStep
  <1>5. CASE UNCHANGED vars
    <2>1. FrozenIsReady'
      BY <1>5, SameWorld DEF vars, WaveInv, FrozenIsReady
    <2> QED
      BY <1>5, <2>1 DEF vars, WaveInv, TypeOK, NamesAreTrue, WaveFitsItsMap, Overlap,
          JobsAreBacked, MapsAreBacked, Backed
  <1> QED
    BY <1>1, <1>2, <1>3, <1>4, <1>5 DEF Next

-----------------------------------------------------------------------------
(* The lists                                                                 *)

(* A ready map gives every month the list full knowledge would give. *)
LEMMA ReadyIsTrueTop ==
    ASSUME WaveInv, NEW m, Ready(bars, m), NEW k \in MonthStarts
    PROVE  Membership(bars, m, k) =
               Top(bars, k, {s \in DataEligible(bars, k) : truth[s] = "ORDINARY"})
  <1> DEFINE E == DataEligible(bars, k)
             open == {s \in E : Classification(m, s) # "NONORDINARY"}
             known == {s \in E : Classification(m, s) = "ORDINARY"}
             fit == {s \in E : truth[s] = "ORDINARY"}
  <1>0. bars \in Tables /\ E \subseteq Symbols
    BY DEF WaveInv, TypeOK, DataEligible
  <1>1. \A s \in E : truth[s] \in {"ORDINARY", "NONORDINARY"}
    BY <1>0 DEF WaveInv, TypeOK
  <1>2. \A s \in KnownLeveraged : truth[s] = "NONORDINARY"
    BY DEF WaveInv, NamesAreTrue
  <1>3. known \subseteq fit /\ fit \subseteq open
    BY <1>1, <1>2 DEF Classification
  <1>4. MonthFrontier(bars, m, k) = {}
    BY DEF Ready, Frontier
  <1>5. Top(bars, k, open) \subseteq known
    <2>1. ASSUME NEW s \in Top(bars, k, open) PROVE Classification(m, s) = "ORDINARY"
      <3>1. s \in open
        BY DEF Top
      <3>2. Classification(m, s) # "UNRESOLVED"
        BY <1>4 DEF MonthFrontier
      <3> QED
        BY <1>1, <3>1, <3>2 DEF Classification
    <2> QED
      BY <2>1 DEF Top
  <1> HIDE DEF E, open, known, fit
  <1>6. known \in SUBSET open /\ fit \in SUBSET open /\ open \in SUBSET Symbols
    BY <1>0, <1>3 DEF open
  <1>7. Top(bars, k, known) = Top(bars, k, open)
    BY <1>0, <1>5, <1>6, TopOfPart
  <1>8. Top(bars, k, fit) = Top(bars, k, open)
    BY <1>0, <1>3, <1>5, <1>6, TopOfPart
  <1> QED
    BY <1>7, <1>8 DEF Membership, E, known, fit

LEMMA TrueTop == WaveInv => FrozenIsTrueTop
  BY ReadyIsTrueTop DEF WaveInv, FrozenIsReady, FrozenIsTrueTop, Top

(* A month reads no candle from its start on. *)
LEMMA MonthReadsThePast ==
    ASSUME NEW b, NEW c, NEW m, NEW k \in MonthStarts,
           \A s \in Symbols, d \in 0 .. Days - 1 : d < k => b[s][d] = c[s][d]
    PROVE  Membership(b, m, k) = Membership(c, m, k)
  <1>0. k \in Nat /\ HistoryDays \in Nat \ {0} /\ Days \in Nat
    BY BoundsAssumption
  <1>1. \A s \in Symbols : DaysSeen(b, s, k) = DaysSeen(c, s, k)
    BY <1>0 DEF DaysSeen
  <1>2. \A s \in Symbols : HasHistory(b, s, k) <=> HasHistory(c, s, k)
    <2>1. \A d \in 0 .. Days - 1 : d <= k - HistoryDays => d < k
      BY <1>0
    <2> QED
      BY <2>1 DEF HasHistory
  <1>3. DataEligible(b, k) = DataEligible(c, k)
    BY <1>1, <1>2 DEF DataEligible, Continuous
  <1>4. \A s \in Symbols : QuoteVolume(b, s, k) = QuoteVolume(c, s, k)
    <2> SUFFICES ASSUME NEW s \in Symbols
                 PROVE  [d \in DaysSeen(b, s, k) |-> b[s][d]] = [d \in DaysSeen(c, s, k) |-> c[s][d]]
      BY DEF QuoteVolume
    <2>1. \A d \in DaysSeen(b, s, k) : b[s][d] = c[s][d]
      BY DEF DaysSeen
    <2> QED
      BY <1>1, <2>1
  <1>5. \A s, r \in Symbols : Before(b, k, s, r) <=> Before(c, k, s, r)
    BY <1>4 DEF Before
  <1>6. ASSUME NEW set \in SUBSET Symbols PROVE Top(b, k, set) = Top(c, k, set)
    <2>1. \A s \in set : {r \in set : Before(b, k, r, s)} = {r \in set : Before(c, k, r, s)}
      BY <1>5
    <2> QED
      BY <2>1 DEF Top
  <1> DEFINE fit == {s \in DataEligible(b, k) : Classification(m, s) = "ORDINARY"}
  <1>7. fit \in SUBSET Symbols
    BY DEF DataEligible
  <1>8. Membership(b, m, k) = Top(b, k, fit) /\ Membership(c, m, k) = Top(c, k, fit)
    BY <1>3 DEF Membership
  <1> HIDE DEF fit
  <1> QED
    BY <1>6, <1>7, <1>8

LEMMA PastOnly == NoLookahead
  <1> SUFFICES ASSUME NEW m \in freezes, NEW day \in 0 .. Days - 1,
                      {k \in MonthStarts : k <= day} # {}
               PROVE  LET seen == [s \in Symbols |-> [d \in 0 .. Days - 1 |->
                                        IF d < day THEN bars[s][d] ELSE 0]]
                      IN  SymbolsAt(bars, m, day) = SymbolsAt(seen, m, day)
    BY DEF NoLookahead
  <1> DEFINE past == {k \in MonthStarts : k <= day}
             last == CHOOSE k \in past : \A j \in past : j <= k
             seen == [s \in Symbols |-> [d \in 0 .. Days - 1 |->
                        IF d < day THEN bars[s][d] ELSE 0]]
  <1>0. day \in Nat /\ Days \in Nat /\ MonthStarts \subseteq Nat
    BY BoundsAssumption
  <1>1. \E k \in past : \A j \in past : j <= k
    <2>1. past \in SUBSET Nat /\ past # {} /\ \A x \in past : x <= day
      BY <1>0
    <2> HIDE DEF past
    <2> QED
      BY <1>0, <2>1, GreatestNumber
  <1>2. last \in past
    <2> HIDE DEF past
    <2> QED
      BY <1>1
  <1>3. last \in MonthStarts /\ last <= day
    BY <1>2
  <1>4. /\ SymbolsAt(bars, m, day) = Membership(bars, m, last)
        /\ SymbolsAt(seen, m, day) = Membership(seen, m, last)
    BY DEF SymbolsAt
  <1> HIDE DEF last
  <1>5. \A s \in Symbols, d \in 0 .. Days - 1 : d < last => bars[s][d] = seen[s][d]
    BY <1>0, <1>3
  <1> HIDE DEF seen
  <1>6. Membership(bars, m, last) = Membership(seen, m, last)
    BY <1>3, <1>5, MonthReadsThePast
  <1> QED
    BY <1>4, <1>6 DEF seen

LEMMA SameLists == WaveInv => BuildersAgree
  <1> SUFFICES ASSUME WaveInv, NEW m \in freezes, NEW k \in MonthStarts,
                      \A s \in DataEligible(bars, k) : Delisted[s] = 0 \/ k < Delisted[s]
               PROVE  Membership(bars, m, k) = Built(bars, k)
    BY DEF BuildersAgree
  <1>0. k \in Nat /\ HistoryDays \in Nat /\ Days \in Nat
    BY BoundsAssumption
  <1>1. ASSUME NEW s \in DataEligible(bars, k) PROVE ExistedAt(bars, s, k)
    <2>1. PICK d \in 0 .. Days - 1 : bars[s][d] > 0 /\ d <= k - HistoryDays
      BY DEF DataEligible, HasHistory
    <2>2. d \in 0 .. k
      BY <1>0, <2>1
    <2> QED
      BY <2>1, <2>2 DEF ExistedAt
  <1>2. MonthEligibility(bars, k) = {s \in DataEligible(bars, k) : truth[s] = "ORDINARY"}
    BY <1>1 DEF MonthEligibility, DataEligible
  <1>3. Ready(bars, m)
    BY DEF WaveInv, FrozenIsReady
  <1> QED
    BY <1>2, <1>3, ReadyIsTrueTop DEF Built

-----------------------------------------------------------------------------
(* The universe the runners trade is the true one (MembershipIsTrue): a      *)
(* frozen list is the one full knowledge gives and uses no later candle, the *)
(* two builders agree, a wave fits the map it was made for, and no kill of a *)
(* materialization leaves a map without its evidence.                        *)
THEOREM MembershipTheorem == Spec => []MembershipIsTrue
  <1>1. Spec => []WaveInv
    BY WaveInit, WaveNext, PTL DEF Spec
  <1>2. WaveInv => MembershipIsTrue
    BY TrueTop, PastOnly, SameLists DEF WaveInv, MembershipIsTrue
  <1> QED
    BY <1>1, <1>2, PTL
=============================================================================
