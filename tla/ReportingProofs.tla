----------------------------- MODULE ReportingProofs ----------------------------
(***************************************************************************)
(* What is shown of the trading can be relied on: the trace journal of P6  *)
(* for any commands, evidence, answers of the model and times, and the     *)
(* pages of the dashboard for any exporters, builders, books and faults.   *)
(*                                                                         *)
(* The journal: a row is a function of the two files of its command        *)
(* (Trace), so everything a row promises is a fact about Trace alone, and  *)
(* two rows of one request and answer are equal.  The inductive invariant  *)
(* is therefore small: the journal is a sequence of traces without two of  *)
(* one validation, what a command is about to record is the trace of its   *)
(* files, and a command that ended without one had an answer nobody can    *)
(* read or was killed (Accounted).                                         *)
(*                                                                         *)
(* The dashboard: what a builder has checked it may still rely on when it  *)
(* publishes, because a body never changes under its digest (Reliable). A  *)
(* body that passed the pipeline has one segment of each dimension         *)
(* whatever its fault (MarredSegments), so the checks that speak of some   *)
(* segment speak of the segment (CheckedAgrees); and the counts of an      *)
(* honest export add up because ids are digests (HonestAccepted). The      *)
(* files left behind are counted against the deaths (Orphans).             *)
(***************************************************************************)
EXTENDS AnalystTrace, DashboardPublish, FiniteSetTheorems, WellFoundedInduction, TLAPS

-----------------------------------------------------------------------------
(* The journal of P6                                                         *)

Readable == {a \in Answers : a.form \notin DOMAIN Unreadable}

Traces == {Trace(b, a) : b \in Specs, a \in Readable}

Refusals == {"INVALID_INPUT", "RECURSION_ERROR"}

Cmds ==
    {Free} \cup [pc : {"ground"}, bundle : Specs, answer : Answers]
           \cup [pc : {"record"}, bundle : Specs, answer : Readable, trace : Traces]
           \cup [pc : {"end"}, bundle : Specs, answer : Answers, trace : Traces \cup {<<>>},
                 result : {"RECORDED", "KILLED"} \cup Refusals]

(* What a command is about to record is the trace of its files, what it has  *)
(* recorded is in the journal, and what it refused cannot be read.           *)
Accounted(r, rows) ==
    /\ r.pc = "record" => r.trace = Trace(r.bundle, r.answer)
    /\ r.pc = "end" /\ r.result = "RECORDED" =>
          r.answer \in Readable /\ \E k \in DOMAIN rows : rows[k] = Trace(r.bundle, r.answer)
    /\ r.pc = "end" /\ r.result \in Refusals => r.answer \notin Readable

OneRowEach ==
    \A j, k \in DOMAIN journal : ValidationId(journal[j]) = ValidationId(journal[k]) => j = k

TraceInv ==
    /\ cmd \in [Commands -> Cmds]
    /\ journal \in Seq(Traces)
    /\ OneRowEach
    /\ \A c \in Commands : Accounted(cmd[c], journal)

-----------------------------------------------------------------------------
(* What a trace promises                                                     *)

(* A nonempty set of natural numbers has a least one. *)
LEMMA LeastNumber ==
    ASSUME NEW S \in SUBSET Nat, S # {}
    PROVE  \E x \in S : \A y \in S : x <= y
  <1>1. PICK x \in S : \A y \in S : ~(<<y, x>> \in OpToRel(<, Nat))
    BY WFMin, NatLessThanWellFounded
  <1>2. \A y \in S : ~(y < x)
    BY <1>1 DEF OpToRel
  <1> QED
    BY <1>2

(* A grounded answer was accepted, and every claim of it is grounded: the    *)
(* first claim that fails decides, so no failing claim hides behind another. *)
LEMMA GroundedFacts ==
    ASSUME NEW b, NEW a \in Answers, GroundingCode(b, a) = "GROUNDED"
    PROVE  /\ ResponseCode(a) = "ACCEPTED"
           /\ \A k \in DOMAIN a.claims : ClaimCode(b, a.claims[k]) = "GROUNDED"
  <1> DEFINE bad == {k \in DOMAIN a.claims : ClaimCode(b, a.claims[k]) # "GROUNDED"}
  <1>1. ResponseCode(a) = "ACCEPTED"
    BY DEF GroundingCode
  <1>2. bad = {}
    <2> SUFFICES ASSUME bad # {} PROVE FALSE
      OBVIOUS
    <2> DEFINE first == CHOOSE k \in bad : \A j \in bad : k <= j
    <2>1. bad \subseteq Nat
      BY AnswersAssumption
    <2>2. \E k \in bad : \A j \in bad : k <= j
      <3> HIDE DEF bad
      <3> QED
        BY <2>1, LeastNumber
    <2>3. first \in bad
      <3> HIDE DEF bad
      <3> QED
        BY <2>2
    <2>4. GroundingCode(b, a) = ClaimCode(b, a.claims[first])
      BY <1>1 DEF GroundingCode
    <2> QED
      BY <2>3, <2>4
  <1> QED
    BY <1>1, <1>2

LEMMA AcceptedFacts ==
    ASSUME NEW a \in Answers, ResponseCode(a) = "ACCEPTED"
    PROVE  /\ a.claims # <<>> /\ HasUncertainty(a.claims)
           /\ Disposition(a.claims)[1] = "REVIEW"
  <1>1. a.form = "OBJECT"
    BY AnswersAssumption DEF ResponseCode, Forms, Unreadable
  <1>2. ParseClaims(a.claims)
    BY <1>1 DEF ResponseCode
  <1> QED
    BY <1>2 DEF ParseClaims, Disposition

(* What AcceptedIsBacked asks of one row. *)
RowBacked(t) ==
    t.accepted =>
        /\ HasUncertainty(t.claims) /\ t.disposition[1] = "REVIEW"
        /\ \A j \in DOMAIN t.claims :
            LET c == t.claims[j]
            IN  /\ c.id \in DOMAIN Rules /\ c.text = "rule"
                /\ \A l \in c.evidence :
                    LET e == t.bundle.evidence[l]
                    IN  /\ l = Rules[c.id].layer /\ PayloadValid(e) /\ e.symbol = t.bundle.symbol
                        /\ e.observed <= t.bundle.decision /\ t.bundle.decision <= e.until

LEMMA ClaimBacked ==
    ASSUME NEW b \in Specs, NEW c, ClaimCode(b, c) = "GROUNDED"
    PROVE  /\ c.id \in DOMAIN Rules /\ c.text = "rule"
           /\ \A l \in c.evidence :
                LET e == b.evidence[l]
                IN  /\ l = Rules[c.id].layer /\ PayloadValid(e) /\ e.symbol = b.symbol
                    /\ e.observed <= b.decision /\ e.until >= b.decision
  <1>1. /\ c.id \in DOMAIN Rules /\ c.text = "rule"
        /\ c.evidence = {Rules[c.id].layer}
        /\ EvidenceState(b, b.evidence[Rules[c.id].layer])
    BY DEF ClaimCode
  <1> QED
    BY <1>1 DEF EvidenceState

LEMMA TraceFields ==
    ASSUME NEW b, NEW a
    PROVE  LET t == Trace(b, a)
           IN  /\ t.bundle = b /\ t.answer = a /\ t.response = ResponseCode(a)
               /\ t.code = GroundingCode(b, a) /\ t.accepted = (t.code = "GROUNDED")
               /\ t.claims = (IF t.code = "GROUNDED" THEN a.claims ELSE <<>>)
               /\ t.disposition = Disposition(t.claims)
  BY DEF Trace, Row

(* A trace is a function of the request and the answer it names. *)
LEMMA TraceIsItsFiles ==
    ASSUME NEW t \in Traces, NEW u \in Traces, ValidationId(u) = ValidationId(t)
    PROVE  u = t
  <1>1. PICK b \in Specs, a \in Readable : t = Trace(b, a)
    BY DEF Traces
  <1>2. PICK d \in Specs, e \in Readable : u = Trace(d, e)
    BY DEF Traces
  <1>3. t.bundle = b /\ t.answer = a /\ u.bundle = d /\ u.answer = e
    BY <1>1, <1>2, TraceFields
  <1>4. t.bundle = u.bundle /\ t.answer = u.answer
    BY DEF ValidationId
  <1> QED
    BY <1>1, <1>2, <1>3, <1>4

LEMMA TraceFacts ==
    ASSUME NEW t \in Traces
    PROVE  /\ RecordValid(t) /\ RowBacked(t)
           /\ \A u \in Traces : ValidationId(u) = ValidationId(t) => u = t
  <1>1. PICK b \in Specs, a \in Answers : t = Trace(b, a)
    BY DEF Traces, Readable
  <1>2. /\ t.bundle = b /\ t.answer = a
        /\ t.code = GroundingCode(b, a) /\ t.accepted = (t.code = "GROUNDED")
        /\ t.claims = (IF t.code = "GROUNDED" THEN a.claims ELSE <<>>)
        /\ t.disposition = Disposition(t.claims)
    BY <1>1, TraceFields
  <1>3. CASE t.code = "GROUNDED"
    <2>1. /\ t.claims = a.claims /\ a.claims # <<>> /\ HasUncertainty(a.claims)
          /\ t.disposition[1] = "REVIEW"
          /\ \A k \in DOMAIN a.claims : ClaimCode(b, a.claims[k]) = "GROUNDED"
      <3>1. t.claims = a.claims /\ GroundingCode(b, a) = "GROUNDED"
        BY <1>2, <1>3
      <3>2. /\ ResponseCode(a) = "ACCEPTED"
            /\ \A k \in DOMAIN a.claims : ClaimCode(b, a.claims[k]) = "GROUNDED"
        BY <3>1, GroundedFacts
      <3>3. /\ a.claims # <<>> /\ HasUncertainty(a.claims)
            /\ Disposition(a.claims)[1] = "REVIEW"
        BY <3>2, AcceptedFacts
      <3>4. t.disposition = Disposition(a.claims)
        BY <1>2, <3>1
      <3> QED
        BY <3>1, <3>2, <3>3, <3>4
    <2>2. RecordValid(t)
      BY <1>2, <1>3, <2>1 DEF RecordValid
    <2>3. ASSUME NEW j \in DOMAIN t.claims
          PROVE  LET c == t.claims[j]
                 IN  /\ c.id \in DOMAIN Rules /\ c.text = "rule"
                     /\ \A l \in c.evidence :
                         LET e == t.bundle.evidence[l]
                         IN  /\ l = Rules[c.id].layer /\ PayloadValid(e)
                             /\ e.symbol = t.bundle.symbol
                             /\ e.observed <= t.bundle.decision /\ t.bundle.decision <= e.until
      <3>1. ClaimCode(b, t.claims[j]) = "GROUNDED"
        BY <2>1, <2>3
      <3> QED
        BY <1>2, <3>1, ClaimBacked
    <2>4. RowBacked(t)
      BY <2>1, <2>3 DEF RowBacked
    <2> QED
      BY <1>1, <2>2, <2>4, TraceIsItsFiles
  <1>4. CASE t.code # "GROUNDED"
    <2>1. t.claims = <<>> /\ t.disposition[2] = "NO_USABLE_CLAIMS" /\ ~t.accepted
      <3>1. t.claims = <<>>
        BY <1>2, <1>4
      <3>2. t.disposition = Disposition(<<>>)
        BY <1>2, <3>1
      <3>3. t.disposition[2] = "NO_USABLE_CLAIMS"
        BY <3>2 DEF Disposition
      <3>4. ~t.accepted
        BY <1>2, <1>4
      <3> QED
        BY <3>1, <3>3, <3>4
    <2> QED
      BY <1>1, <1>4, <2>1, TraceIsItsFiles DEF RecordValid, RowBacked
  <1> QED
    BY <1>3, <1>4

-----------------------------------------------------------------------------
(* The invariant                                                             *)

LEMMA TraceInit == Init => TraceInv
  BY DEF Init, TraceInv, Cmds, Free, OneRowEach, Accounted

(* A step that leaves the journal alone and moves one command. *)
LEMMA CommandStep ==
    ASSUME TraceInv, NEW c \in Commands, NEW new \in Cmds, Accounted(new, journal),
           cmd' = [cmd EXCEPT ![c] = new], UNCHANGED journal
    PROVE  TraceInv'
  <1>1. cmd' \in [Commands -> Cmds] /\ journal' = journal /\ OneRowEach'
    BY DEF TraceInv, OneRowEach
  <1>2. \A d \in Commands : cmd'[d] = new \/ cmd'[d] = cmd[d]
    BY DEF TraceInv
  <1>3. \A d \in Commands : Accounted(cmd'[d], journal)
    BY <1>2 DEF TraceInv
  <1> QED
    BY <1>1, <1>3 DEF TraceInv

(* What a command is once it has read its files. *)
LEMMA ReadFacts ==
    ASSUME NEW b \in Specs, NEW a \in Answers, NEW rows
    PROVE  Read(b, a) \in Cmds /\ Accounted(Read(b, a), rows)
  <1>1. CASE a.form = "UNDECODABLE"
    <2> DEFINE new == [pc |-> "end", bundle |-> b, answer |-> a, trace |-> <<>>,
                       result |-> "INVALID_INPUT"]
    <2>1. Read(b, a) = new /\ a \notin Readable
      BY <1>1 DEF Read, WithoutTrace, Unreadable, Readable
    <2>2. new \in Cmds
      BY DEF Cmds, Refusals
    <2>3. new.pc = "end" /\ new.answer = a /\ new.result = "INVALID_INPUT"
      OBVIOUS
    <2> HIDE DEF new
    <2> QED
      BY <2>1, <2>2, <2>3 DEF Accounted
  <1>2. CASE a.form # "UNDECODABLE"
    <2> DEFINE new == [pc |-> "ground", bundle |-> b, answer |-> a]
    <2>1. Read(b, a) = new
      BY <1>2 DEF Read
    <2>2. new \in Cmds /\ new.pc = "ground"
      BY DEF Cmds
    <2> HIDE DEF new
    <2> QED
      BY <2>1, <2>2 DEF Accounted
  <1> QED
    BY <1>1, <1>2

LEMMA OpenStep ==
    ASSUME TraceInv, NEW c \in Commands, Open(c)
    PROVE  TraceInv'
  <1>1. PICK b \in Specs :
            \/ cmd' = [cmd EXCEPT ![c] = Free]
            \/ \E a \in Answers : cmd' = [cmd EXCEPT ![c] = Read(b, a)]
    BY DEF Open
  <1>2. CASE cmd' = [cmd EXCEPT ![c] = Free]
    <2>1. Free \in Cmds /\ Accounted(Free, journal)
      BY DEF Cmds, Accounted, Free
    <2> QED
      BY <1>2, <2>1, CommandStep DEF Open
  <1>3. ASSUME NEW a \in Answers, cmd' = [cmd EXCEPT ![c] = Read(b, a)]
        PROVE  TraceInv'
    <2>1. Read(b, a) \in Cmds /\ Accounted(Read(b, a), journal)
      BY ReadFacts
    <2> QED
      BY <1>3, <2>1, CommandStep DEF Open
  <1> QED
    BY <1>1, <1>2, <1>3

(* The files of a command that has opened its bundle. *)
LEMMA CommandFacts ==
    ASSUME TraceInv, NEW c \in Commands, cmd[c].pc \in {"ground", "record", "end"}
    PROVE  /\ cmd[c].bundle \in Specs /\ cmd[c].answer \in Answers
           /\ cmd[c].pc = "record" => cmd[c].trace \in Traces /\ cmd[c].answer \in Readable
  <1>1. cmd[c] \in Cmds
    BY DEF TraceInv
  <1> QED
    BY <1>1 DEF Cmds, Free, Readable

LEMMA RunStep ==
    ASSUME TraceInv, NEW c \in Commands, Repeat(c) \/ Ground(c) \/ Die(c)
    PROVE  TraceInv'
  <1> DEFINE b == cmd[c].bundle
             a == cmd[c].answer
  <1>0. b \in Specs /\ a \in Answers
    BY CommandFacts DEF Repeat, Ground, Die
  <1>1. CASE Repeat(c)
    <2>1. Read(b, a) \in Cmds /\ Accounted(Read(b, a), journal)
      BY <1>0, ReadFacts
    <2> QED
      BY <1>1, <2>1, CommandStep DEF Repeat
  <1>2. CASE Ground(c) /\ a \in Readable
    <2> DEFINE new == [pc |-> "record", bundle |-> b, answer |-> a, trace |-> Trace(b, a)]
    <2>1. Trace(b, a) \in Traces
      BY <1>0, <1>2 DEF Traces
    <2>2. new \in Cmds
      BY <1>0, <1>2, <2>1 DEF Cmds
    <2>3. cmd' = [cmd EXCEPT ![c] = new] /\ UNCHANGED journal
      BY <1>2 DEF Ground, TraceInv, Readable
    <2>4. Accounted(new, journal)
      BY DEF Accounted
    <2> HIDE DEF new
    <2> QED
      BY <2>2, <2>3, <2>4, CommandStep
  <1>3. CASE Ground(c) /\ a \notin Readable
    <2> DEFINE new == [pc |-> "end", bundle |-> b, answer |-> a, trace |-> <<>>,
                       result |-> Unreadable[a.form]]
    <2>1. a.form \in DOMAIN Unreadable
      BY <1>0, <1>3 DEF Readable
    <2>2. Unreadable[a.form] \in Refusals
      BY <2>1 DEF Unreadable, Refusals
    <2>3. new \in Cmds
      BY <1>0, <2>2 DEF Cmds
    <2>4. cmd' = [cmd EXCEPT ![c] = new] /\ UNCHANGED journal
      BY <1>3, <2>1 DEF Ground, TraceInv, WithoutTrace
    <2>5. new.pc = "end" /\ new.answer = a /\ new.result # "RECORDED"
      BY <2>2 DEF Refusals
    <2> HIDE DEF new
    <2>6. Accounted(new, journal)
      BY <1>3, <2>5 DEF Accounted
    <2> QED
      BY <2>3, <2>4, <2>6, CommandStep
  <1>4. CASE Die(c)
    <2> DEFINE new == [pc |-> "end", bundle |-> b, answer |-> a, trace |-> <<>>,
                       result |-> "KILLED"]
    <2>1. new \in Cmds
      BY <1>0 DEF Cmds
    <2>2. cmd' = [cmd EXCEPT ![c] = new] /\ UNCHANGED journal
      BY <1>4 DEF Die, TraceInv, WithoutTrace
    <2>3. Accounted(new, journal)
      BY DEF Accounted, Refusals
    <2> HIDE DEF new
    <2> QED
      BY <2>1, <2>2, <2>3, CommandStep
  <1> QED
    BY <1>1, <1>2, <1>3, <1>4

(* record inserts a row no other row of the journal is a validation of, and  *)
(* a row it finds there is the very trace it was about to insert.            *)
LEMMA RecordStep ==
    ASSUME TraceInv, NEW c \in Commands, Record(c)
    PROVE  TraceInv' /\ JournalKeepsRowsStep
  <1> DEFINE row == cmd[c].trace
             old == Existing(ValidationId(row))
             new == [pc |-> "end", bundle |-> cmd[c].bundle, answer |-> cmd[c].answer,
                     trace |-> row, result |-> "RECORDED"]
  <1>0. /\ cmd[c].bundle \in Specs /\ cmd[c].answer \in Answers /\ row \in Traces
        /\ journal \in Seq(Traces) /\ OneRowEach /\ cmd[c].answer \in Readable
        /\ row = Trace(cmd[c].bundle, cmd[c].answer)
    <2>1. cmd[c].pc = "record"
      BY DEF Record
    <2> QED
      BY <2>1, CommandFacts DEF TraceInv, Accounted
  <1>1. RecordValid(row) /\ \A u \in Traces : ValidationId(u) = ValidationId(row) => u = row
    BY <1>0, TraceFacts
  <1>2. \A k \in old : journal[k] = row
    BY <1>0, <1>1 DEF Existing
  <1>3. /\ journal' = IF old = {} THEN Append(journal, row) ELSE journal
        /\ cmd' = [cmd EXCEPT ![c] = new]
    BY <1>1, <1>2 DEF Record, Ended
  <1>4. new \in Cmds
    BY <1>0 DEF Cmds
  <1>5. /\ new.pc = "end" /\ new.result = "RECORDED" /\ new.answer \in Readable
        /\ row = Trace(new.bundle, new.answer)
    BY <1>0
  <1> HIDE DEF new
  <1>6. cmd' \in [Commands -> Cmds] /\ \A d \in Commands : cmd'[d] = new \/ cmd'[d] = cmd[d]
    BY <1>3, <1>4 DEF TraceInv
  <1>7. CASE old # {}
    <2>1. journal' = journal
      BY <1>3, <1>7
    <2>2. \E k \in DOMAIN journal : journal[k] = row
      BY <1>2, <1>7 DEF Existing
    <2>3. Accounted(new, journal)
      BY <1>5, <2>2 DEF Accounted, Refusals
    <2>4. \A d \in Commands : Accounted(cmd'[d], journal)
      BY <1>6, <2>3 DEF TraceInv
    <2> QED
      BY <1>0, <1>6, <2>1, <2>4 DEF TraceInv, OneRowEach, JournalKeepsRowsStep
  <1>8. CASE old = {}
    <2>1. journal' = Append(journal, row)
      BY <1>3, <1>8
    <2>2. \A k \in DOMAIN journal : ValidationId(journal[k]) # ValidationId(row)
      BY <1>8 DEF Existing
    <2> HIDE DEF row
    <2>3. /\ journal' \in Seq(Traces) /\ Len(journal') = Len(journal) + 1
          /\ DOMAIN journal' = DOMAIN journal \cup {Len(journal) + 1}
          /\ \A k \in DOMAIN journal : journal'[k] = journal[k]
          /\ journal'[Len(journal) + 1] = row
          /\ Len(journal) \in Nat
      BY <1>0, <2>1
    <2>4. \A j, k \in DOMAIN journal' :
             ValidationId(journal'[j]) = ValidationId(journal'[k]) => j = k
      BY <1>0, <2>2, <2>3 DEF OneRowEach
    <2>5. Accounted(new, journal')
      BY <1>5, <2>3 DEF Accounted, Refusals
    <2>6. \A d \in Commands : Accounted(cmd[d], journal')
      <3> SUFFICES ASSUME NEW d \in Commands
                   PROVE  Accounted(cmd[d], journal')
        OBVIOUS
      <3>1. Accounted(cmd[d], journal)
        BY DEF TraceInv
      <3> QED
        BY <2>3, <3>1 DEF Accounted
    <2>7. \A d \in Commands : Accounted(cmd'[d], journal')
      BY <1>6, <2>5, <2>6
    <2> QED
      BY <1>6, <2>3, <2>4, <2>7 DEF TraceInv, OneRowEach, JournalKeepsRowsStep
  <1> QED
    BY <1>7, <1>8

LEMMA SameJournal ==
    ASSUME TraceInv, UNCHANGED journal
    PROVE  JournalKeepsRowsStep
  BY DEF TraceInv, OneRowEach, JournalKeepsRowsStep

LEMMA TraceNext == TraceInv /\ [Next]_vars => TraceInv' /\ (JournalKeepsRowsStep \/ UNCHANGED vars)
  <1> SUFFICES ASSUME TraceInv, [Next]_vars
               PROVE  TraceInv' /\ (JournalKeepsRowsStep \/ UNCHANGED vars)
    OBVIOUS
  <1>1. ASSUME NEW c \in Commands, Open(c) PROVE TraceInv' /\ JournalKeepsRowsStep
    BY <1>1, OpenStep, SameJournal DEF Open
  <1>2. ASSUME NEW c \in Commands, Repeat(c) \/ Ground(c) \/ Die(c)
        PROVE  TraceInv' /\ JournalKeepsRowsStep
    BY <1>2, RunStep, SameJournal DEF Repeat, Ground, Die
  <1>3. ASSUME NEW c \in Commands, Record(c) PROVE TraceInv' /\ JournalKeepsRowsStep
    BY <1>3, RecordStep
  <1>4. CASE Tick
    BY <1>4, SameJournal DEF Tick, TraceInv, OneRowEach
  <1>5. CASE UNCHANGED vars
    BY <1>5 DEF vars, TraceInv, OneRowEach
  <1> QED
    BY <1>1, <1>2, <1>3, <1>4, <1>5 DEF Next

LEMMA InvIsSound == TraceInv => JournalIsSound
  <1> SUFFICES ASSUME TraceInv PROVE JournalIsSound
    OBVIOUS
  <1>1. AcceptedIsBacked
    <2>1. \A k \in DOMAIN journal : journal[k] \in Traces
      BY DEF TraceInv
    <2>2. \A k \in DOMAIN journal : RowBacked(journal[k])
      BY <2>1, TraceFacts
    <2> QED
      BY <2>2 DEF AcceptedIsBacked, RowBacked
  <1>2. \A c \in Commands :
           cmd[c].pc = "end" => cmd[c].result \in {"RECORDED", "KILLED"} \cup Refusals
    <2>1. \A c \in Commands : cmd[c] \in Cmds
      BY DEF TraceInv
    <2> QED
      BY <2>1 DEF Cmds, Free
  <1>3. \A k \in DOMAIN journal : journal[k].answer \in Readable
    <2>1. \A k \in DOMAIN journal : journal[k] \in Traces
      BY DEF TraceInv
    <2>2. \A t \in Traces : t.answer \in Readable
      BY TraceFields DEF Traces
    <2> QED
      BY <2>1, <2>2
  <1>4. ASSUME NEW c \in Commands, cmd[c].pc = "end", cmd[c].result # "KILLED"
        PROVE  OnRecord(c) <=> cmd[c].answer.form \notin DOMAIN Unreadable
    <2>0. Accounted(cmd[c], journal) /\ cmd[c].answer \in Answers
      BY <1>4, CommandFacts DEF TraceInv
    <2>1. cmd[c].answer \in Readable <=> cmd[c].answer.form \notin DOMAIN Unreadable
      BY <2>0 DEF Readable
    <2>2. CASE cmd[c].result = "RECORDED"
      <3>1. cmd[c].answer \in Readable
            /\ \E k \in DOMAIN journal : journal[k] = Trace(cmd[c].bundle, cmd[c].answer)
        BY <1>4, <2>0, <2>2 DEF Accounted
      <3>2. OnRecord(c)
        BY <3>1, TraceFields DEF OnRecord
      <3> QED
        BY <2>1, <3>1, <3>2
    <2>3. CASE cmd[c].result \in Refusals
      <3>1. cmd[c].answer \notin Readable
        BY <1>4, <2>0, <2>3 DEF Accounted
      <3>2. ~OnRecord(c)
        BY <1>3, <3>1 DEF OnRecord
      <3> QED
        BY <2>1, <3>1, <3>2
    <2> QED
      BY <1>2, <1>4, <2>2, <2>3
  <1> QED
    BY <1>1, <1>2, <1>4 DEF JournalIsSound, EveryAnswerRecordable, RepeatNeverConflicts, Refusals

-----------------------------------------------------------------------------
(* The journal is sound (JournalIsSound): whatever a model answered, an       *)
(* accepted trace is backed claim by claim with evidence in force at the      *)
(* decision, a command that is not killed leaves a valid record exactly of    *)
(* the answers that can be decoded and parsed, and a repeated command finds   *)
(* its own trace.                                                             *)
THEOREM JournalTheorem == Spec => []JournalIsSound
  <1>1. Spec => []TraceInv
    BY TraceInit, TraceNext, PTL DEF Spec
  <1> QED
    BY <1>1, InvIsSound, PTL

(* The journal only grows and holds one row for an answer to a request        *)
(* (JournalKeepsRows), whatever commands record beside each other.            *)
THEOREM JournalRowsTheorem == Spec => JournalKeepsRows
  <1>1. Spec => []TraceInv
    BY TraceInit, TraceNext, PTL DEF Spec
  <1>2. TraceInv /\ [Next]_vars => [JournalKeepsRowsStep]_vars
    BY TraceNext
  <1> QED
    BY <1>1, <1>2, PTL DEF Spec, JournalKeepsRows

-----------------------------------------------------------------------------
(* What the dashboard publishes                                              *)

Sources == {NoFile} \cup {Page(n) : n \in Names}
                    \cup [kind : {"export"}, name : Names, seal : Names \cup {<<>>}]

Steps == {"idle", "load", "recheck", "target", "temp", "publish", "readback", "done"}

Results == {"none", "INVALID_REQUEST", "SOURCE_REJECTED", "SOURCE_MUTATED", "OUTPUT_EXISTS",
            "STORAGE_ERROR", "EXPORTED", "BUILT", "OUTPUT_MISMATCH", "KILLED"}

Processes ==
    [pc : Steps, starts : Nat, out : Paths, overwrite : BOOLEAN,
     name : Names \cup {<<>>}, seen : Sources, result : Results]

\* The body went through the whole pipeline.
Checked(n) == n \in Names /\ PerformanceView(Body[n])

\* What a process relies on between two of its steps: a builder past its load has a
\* body that was checked and does not write over the source, and a build that was
\* turned away at the source had a reason.
Reliable(p, r) ==
    /\ r.pc \in {"load", "recheck", "target", "temp", "publish", "readback"} => r.name \in Names
    /\ r.pc = "load" => r.out = "page"
    /\ (p \notin Exporters /\ r.pc \in {"recheck", "target", "temp", "publish", "readback"}) =>
            r.out = "page" /\ Checked(r.name)
    /\ r.result = "SOURCE_REJECTED" =>
            r.pc = "done" /\ r.name \in Names /\ ~Loads(r.seen, r.name)

\* Temporary files nobody is about to publish.
Orphans == {t \in temps : procs[t[1]].starts # t[2] \/ procs[t[1]].pc # "publish"}

PublishInv ==
    /\ files \in [Paths -> Sources]
    /\ procs \in [Procs -> Processes]
    /\ temps \in SUBSET (Procs \X Nat) /\ IsFiniteSet(temps)
    /\ crashes \in Nat
    /\ \A p \in Procs : Reliable(p, procs[p])
    /\ files["page"].kind = "page" => Checked(files["page"].name)
    /\ Cardinality(Orphans) <= crashes

-----------------------------------------------------------------------------
(* Bodies                                                                    *)

OneEach(segs) ==
    /\ \A s \in segs : s.dim \in Dimensions
    /\ \A s, t \in segs : s.dim = t.dim => s = t

LEMMA ExportSegments ==
    ASSUME NEW trades PROVE OneEach(Export(trades).segs)
  <1>1. PICK v : Export(trades).segs = {Segment(d, v, trades) : d \in Dimensions}
    BY DEF Export
  <1>2. \A d \in Dimensions : Segment(d, v, trades).dim = d
    BY DEF Segment
  <1> QED
    BY <1>1, <1>2 DEF OneEach

(* A fault changes a segment in place: it never adds one of a dimension. *)
LEMMA MarredSegments ==
    ASSUME NEW trades, NEW fault
    PROVE  OneEach(Marred(Export(trades), fault).segs)
  <1> DEFINE b == Export(trades)
             segs == b.segs
             v == IF trades = <<>> THEN "NO_COMPLETED_TRADES" ELSE "ONLY"
  <1>1. OneEach(segs)
    BY ExportSegments
  <1>2. \A s \in segs : \E d \in Dimensions : s = Segment(d, v, trades)
    BY DEF Export
  <1>3. CASE fault = "pnl"
    <2> DEFINE F(s) == IF s.dim = "SYMBOL" THEN [s EXCEPT !.pnl = @ + 1] ELSE s
    <2>1. \A s \in segs : F(s).dim = s.dim
      BY <1>2 DEF Segment
    <2>2. OneEach({F(s) : s \in segs})
      <3> HIDE DEF segs, F
      <3> QED
        BY <1>1, <2>1 DEF OneEach
    <2>3. Marred(b, fault).segs = {F(s) : s \in segs}
      BY <1>3 DEF Marred, Export
    <2> QED
      BY <2>2, <2>3
  <1>4. CASE fault = "wins"
    <2> DEFINE F(s) == [s EXCEPT !.wins = @ + 1]
    <2>1. \A s \in segs : F(s).dim = s.dim
      BY <1>2 DEF Segment
    <2>2. OneEach({F(s) : s \in segs})
      <3> HIDE DEF segs, F
      <3> QED
        BY <1>1, <2>1 DEF OneEach
    <2>3. Marred(b, fault).segs = {F(s) : s \in segs}
      BY <1>4 DEF Marred, Export
    <2> QED
      BY <2>2, <2>3
  <1>5. CASE fault = "member"
    <2> DEFINE F(s) == IF s.dim = "EVIDENCE_LABEL" /\ s.members # {}
                       THEN [s EXCEPT !.members = @ \ {CHOOSE m \in @ : TRUE},
                                      !.wins = 0, !.losses = 0,
                                      !.even = Cardinality(s.members) - 1]
                       ELSE s
    <2>1. \A s \in segs : F(s).dim = s.dim
      BY <1>2 DEF Segment
    <2>2. OneEach({F(s) : s \in segs})
      <3> HIDE DEF segs, F
      <3> QED
        BY <1>1, <2>1 DEF OneEach
    <2>3. Marred(b, fault).segs = {F(s) : s \in segs}
      BY <1>5 DEF Marred, Export
    <2> QED
      BY <2>2, <2>3
  <1>6. CASE fault \notin {"pnl", "wins", "member"}
    <2>1. Marred(b, fault).segs = segs
      BY <1>6 DEF Marred, Export
    <2> QED
      BY <1>1, <2>1
  <1> QED
    BY <1>3, <1>4, <1>5, <1>6

(* What the pipeline let through agrees with itself. *)
LEMMA CheckedAgrees ==
    ASSUME NEW n, Checked(n)
    PROVE  LET b == Body[n]
           IN  /\ b.status = "PASS" /\ b.count = Len(b.trades)
               /\ \A s \in b.segs : s.dim = "SYMBOL" => s.pnl = Pnl(b.trades)
               /\ \A s \in b.segs : s.members = Ids(b.trades)
  <1> DEFINE b == Body[n]
  <1>1. n \in Names /\ PerformanceView(b)
    BY DEF Checked
  <1>2. OneEach(b.segs)
    BY <1>1, MarredSegments DEF Body
  <1> HIDE DEF b
  <1>3. ValidateQuality(b) /\ ValidateBinding(b) /\ Conserves(b) /\ ReconcileSymbol(b)
    BY <1>1 DEF PerformanceView, TradeTable
  <1>4. b.status = "PASS" /\ b.count = Len(b.trades)
    BY <1>3 DEF ValidateQuality, ValidateBinding
  <1>5. ASSUME NEW s \in b.segs
        PROVE  s.members = Ids(b.trades)
    <2>1. s.dim \in Dimensions /\ {t \in b.segs : t.dim = s.dim} = {s}
      BY <1>2 DEF OneEach
    <2>2. UNION {t.members : t \in {u \in b.segs : u.dim = s.dim}} = Ids(b.trades)
      BY <1>3, <2>1 DEF Conserves
    <2> QED
      BY <2>1, <2>2
  <1>6. ASSUME NEW s \in b.segs, s.dim = "SYMBOL"
        PROVE  s.pnl = Pnl(b.trades)
    <2>1. PICK t \in b.segs : t.dim = "SYMBOL" /\ t.pnl = Figures(b).realized
      BY <1>3 DEF ReconcileSymbol
    <2>2. s = t
      BY <1>2, <1>6, <2>1 DEF OneEach
    <2>3. Figures(b).realized = Pnl(b.trades)
      BY DEF Figures
    <2> QED
      BY <2>1, <2>2, <2>3
  <1> QED
    BY <1>4, <1>5, <1>6 DEF b

LEMMA LoadsChecked ==
    ASSUME NEW f, NEW n \in Names, Loads(f, n)
    PROVE  Checked(n)
  BY DEF Loads, LoadP7Export, Checked

-----------------------------------------------------------------------------
(* An export of P7 passes the checks of P8                                   *)

LEMMA IdsCounted ==
    ASSUME NEW book \in Books
    PROVE  /\ IsFiniteSet(DOMAIN book)
           /\ Cardinality(DOMAIN book) = Len(book)
           /\ Cardinality(Ids(book)) = Len(book)
  <1>1. Len(book) \in Nat /\ DOMAIN book = 1 .. Len(book)
        /\ \A j, k \in DOMAIN book : book[j].id = book[k].id => j = k
    BY BooksAssumption
  <1>2. IsFiniteSet(1 .. Len(book)) /\ Cardinality(1 .. Len(book)) = Len(book)
    BY <1>1, FS_Interval
  <1> DEFINE S == DOMAIN book
             T == Ids(book)
             f == [k \in S |-> book[k].id]
  <1>3. f \in Bijection(S, T)
    <2>1. f \in [S -> T]
      BY DEF Ids
    <2>2. \A a, b \in S : f[a] = f[b] => a = b
      BY <1>1
    <2>3. \A t \in T : \E s \in S : f[s] = t
      BY DEF Ids
    <2> HIDE DEF S, T, f
    <2> QED
      BY <2>1, <2>2, <2>3 DEF Bijection, Injection, Surjection, IsInjective
  <1>4. IsFiniteSet(S) /\ Cardinality(S) = Len(book)
    BY <1>1, <1>2
  <1>5. Cardinality(S) = Cardinality(T)
    <2> HIDE DEF S, T, f
    <2> QED
      BY <1>3, <1>4, FS_Bijection DEF ExistsBijection
  <1> QED
    BY <1>4, <1>5

(* Every trade is won, lost or even. *)
LEMMA OutcomesCounted ==
    ASSUME NEW book \in Books
    PROVE  Count(book, "WIN") + Count(book, "LOSS") + Count(book, "BREAKEVEN") = Len(book)
  <1> DEFINE S == DOMAIN book
             W == {k \in S : Outcome(book[k].pnl) = "WIN"}
             L == {k \in S : Outcome(book[k].pnl) = "LOSS"}
             B == {k \in S : Outcome(book[k].pnl) = "BREAKEVEN"}
  <1>1. IsFiniteSet(S) /\ Cardinality(S) = Len(book)
    BY IdsCounted
  <1>2. \A k \in S : Outcome(book[k].pnl) \in {"WIN", "LOSS", "BREAKEVEN"}
    BY DEF Outcome
  <1>3. S = (W \cup L) \cup B
    <2> HIDE DEF S
    <2> QED
      BY <1>2
  <1>4. W \cap L = {} /\ (W \cup L) \cap B = {}
    <2> HIDE DEF S
    <2> QED
      OBVIOUS
  <1>5. W \subseteq S /\ L \subseteq S /\ B \subseteq S
    OBVIOUS
  <1>6. Count(book, "WIN") = Cardinality(W) /\ Count(book, "LOSS") = Cardinality(L)
        /\ Count(book, "BREAKEVEN") = Cardinality(B)
    BY DEF Count
  <1> HIDE DEF S, W, L, B
  <1>7. IsFiniteSet(W) /\ IsFiniteSet(L) /\ IsFiniteSet(B)
    BY <1>1, <1>5, FS_Subset
  <1>8. IsFiniteSet(W \cup L)
        /\ Cardinality(W \cup L) = Cardinality(W) + Cardinality(L) - Cardinality({})
    BY <1>4, <1>7, FS_Union
  <1>9. Cardinality(S) = Cardinality(W \cup L) + Cardinality(B) - Cardinality({})
    BY <1>3, <1>4, <1>7, <1>8, FS_Union
  <1>10. Cardinality({}) = 0
    BY FS_EmptySet
  <1>11. Cardinality(W) \in Nat /\ Cardinality(L) \in Nat /\ Cardinality(B) \in Nat
    BY <1>7, FS_CardinalityType
  <1> QED
    BY <1>1, <1>6, <1>8, <1>9, <1>10, <1>11

LEMMA HonestAccepted ==
    ASSUME NEW book \in Books
    PROVE  LET b == Export(book)
           IN  /\ ValidateQuality(b) /\ ValidateTradeMetrics(b) /\ ValidateTradeSegments(b)
               /\ ValidateBinding(b) /\ Overview(b) /\ PerformanceView(b)
  <1> DEFINE b == Export(book)
             v == IF book = <<>> THEN "NO_COMPLETED_TRADES" ELSE "ONLY"
  <1>1. /\ b.status = "PASS" /\ b.count = Len(book) /\ b.trades = book
        /\ b.index = [k \in DOMAIN book |-> k - 1]
        /\ b.segs = {Segment(d, v, book) : d \in Dimensions}
    BY DEF Export
  <1>2. \A d \in Dimensions :
            LET s == Segment(d, v, book)
            IN  /\ s.dim = d /\ s.value = v /\ s.members = Ids(book) /\ s.pnl = Pnl(book)
                /\ s.wins = Count(book, "WIN") /\ s.losses = Count(book, "LOSS")
                /\ s.even = Count(book, "BREAKEVEN")
    BY DEF Segment
  <1>3. Len(book) \in Nat /\ DOMAIN book = 1 .. Len(book)
    BY BooksAssumption
  <1>4. Cardinality(Ids(book)) = Len(book)
    BY IdsCounted
  <1>5. Count(book, "WIN") + Count(book, "LOSS") + Count(book, "BREAKEVEN") = Len(book)
    BY OutcomesCounted
  <1>6. OneEach(b.segs)
    BY ExportSegments
  <1> HIDE DEF b
  <1>7. ValidateQuality(b) /\ ValidateBinding(b) /\ Overview(b)
    BY <1>1, <1>3 DEF ValidateQuality, ValidateBinding, Overview
  <1>8. ValidateTradeMetrics(b)
    BY <1>1, <1>3, <1>4 DEF ValidateTradeMetrics
  <1>9. \A s \in b.segs : /\ s.members = Ids(book) /\ s.wins = Count(book, "WIN")
                          /\ s.losses = Count(book, "LOSS") /\ s.even = Count(book, "BREAKEVEN")
    BY <1>1, <1>2
  <1>10. ValidateTradeSegments(b)
    BY <1>4, <1>5, <1>6, <1>9 DEF ValidateTradeSegments, OneEach
  <1>11. Conserves(b)
    <2> SUFFICES ASSUME NEW d \in Dimensions
                 PROVE  /\ UNION {s.members : s \in {t \in b.segs : t.dim = d}} = Ids(b.trades)
                        /\ \A s, t \in {u \in b.segs : u.dim = d} :
                                s = t \/ s.members \cap t.members = {}
      BY DEF Conserves
    <2>1. PICK one \in b.segs : one.dim = d
      BY <1>1, <1>2
    <2>2. {t \in b.segs : t.dim = d} = {one}
      BY <1>6, <2>1 DEF OneEach
    <2>3. one.members = Ids(b.trades)
      BY <1>1, <1>9
    <2> QED
      BY <2>2, <2>3
  <1>12. ReconcileSymbol(b)
    <2> DEFINE s == Segment("SYMBOL", v, book)
               f == Figures(b)
    <2>1. s \in b.segs
      BY <1>1 DEF Dimensions
    <2>2. f.realized = Pnl(book) /\ f.wins = Count(book, "WIN")
          /\ f.losses = Count(book, "LOSS") /\ f.even = Count(book, "BREAKEVEN")
      BY <1>1 DEF Figures
    <2>3. /\ s.dim = "SYMBOL" /\ s.value = v /\ s.members = Ids(book) /\ s.pnl = Pnl(book)
          /\ s.wins = Count(book, "WIN") /\ s.losses = Count(book, "LOSS")
          /\ s.even = Count(book, "BREAKEVEN")
      BY <1>2 DEF Dimensions
    <2>4. \E t \in b.segs :
            /\ t.dim = "SYMBOL"
            /\ t.value = (IF b.trades = <<>> THEN "NO_COMPLETED_TRADES" ELSE "ONLY")
            /\ t.members = Ids(b.trades) /\ t.pnl = f.realized
            /\ t.wins = f.wins /\ t.losses = f.losses /\ t.even = f.even
      <3> HIDE DEF f
      <3> QED
        BY <1>1, <2>1, <2>2, <2>3
    <2> QED
      BY <2>4 DEF ReconcileSymbol
  <1>13. PerformanceView(b)
    BY <1>7, <1>8, <1>10, <1>11, <1>12 DEF PerformanceView, TradeTable
  <1> QED
    BY <1>7, <1>8, <1>10, <1>13 DEF b

LEMMA HonestLoads ==
    ASSUME NEW n \in Names, n[2] = "none",
           NEW f, f.kind = "export", f.seal = f.name, f.name = n
    PROVE  Loads(f, n)
  <1>1. n[1] \in Books
    BY DEF Names
  <1>2. Body[n] = Export(n[1])
    BY DEF Body, Marred
  <1> DEFINE b == Body[n]
  <1>3. /\ ValidateQuality(b) /\ ValidateTradeMetrics(b) /\ ValidateTradeSegments(b)
        /\ ValidateBinding(b) /\ Overview(b) /\ PerformanceView(b)
    BY <1>1, <1>2, HonestAccepted
  <1> HIDE DEF b
  <1>4. TradeTable(b) /\ QualityView(b)
    BY <1>3 DEF PerformanceView, QualityView
  <1> QED
    BY <1>3, <1>4 DEF Loads, LoadP7Export, b

-----------------------------------------------------------------------------
(* The commands                                                              *)

Moves(p, r) ==
    /\ p \in Procs /\ r \in Processes /\ Reliable(p, r)
    /\ procs' = [procs EXCEPT ![p] = r]

\* A step of a process that has no temporary file to publish, before or after.
Quiet(p, r) ==
    /\ Moves(p, r) /\ procs[p].pc # "publish" /\ r.pc # "publish"
    /\ UNCHANGED <<files, temps, crashes>>

Writes(p, r) ==
    /\ Moves(p, r) /\ procs[p].pc # "publish" /\ r.pc = "publish"
    /\ r.starts = procs[p].starts
    /\ temps' = temps \cup {<<p, procs[p].starts>>} /\ UNCHANGED <<files, crashes>>

\* The name is taken, or it was left to whom it belongs.
Places(p, r) ==
    /\ Moves(p, r) /\ procs[p].pc = "publish" /\ r.pc # "publish"
    /\ r.starts = procs[p].starts
    /\ temps' = temps \ {<<p, procs[p].starts>>} /\ UNCHANGED crashes
    /\ \/ UNCHANGED files
       \/ /\ files' = [files EXCEPT ![procs[p].out] = Content(p)]
          /\ files[procs[p].out] = NoFile \/ procs[p].overwrite

Dies(p, r) ==
    /\ Moves(p, r) /\ r.pc # "publish" /\ r.starts = procs[p].starts
    /\ UNCHANGED <<files, temps>> /\ crashes' = crashes + 1

LEMMA TurnedTo ==
    ASSUME NEW q \in Processes, NEW pc \in Steps
    PROVE  LET r == [q EXCEPT !.pc = pc]
           IN  /\ r \in Processes /\ r.pc = pc /\ r.starts = q.starts /\ r.out = q.out
               /\ r.overwrite = q.overwrite /\ r.name = q.name /\ r.seen = q.seen
               /\ r.result = q.result
  BY DEF Processes

LEMMA EndedWith ==
    ASSUME NEW q \in Processes, NEW result \in Results
    PROVE  LET r == [q EXCEPT !.pc = "done", !.result = result]
           IN  /\ r \in Processes /\ r.pc = "done" /\ r.starts = q.starts /\ r.out = q.out
               /\ r.overwrite = q.overwrite /\ r.name = q.name /\ r.seen = q.seen
               /\ r.result = result
  BY DEF Processes, Steps

\* An end that gives no reason about the source.
LEMMA Ends ==
    ASSUME NEW p \in Procs, procs[p] \in Processes,
           NEW result \in Results \ {"SOURCE_REJECTED"}, End(p, result)
    PROVE  \E r : /\ Moves(p, r) /\ r.pc = "done" /\ r.starts = procs[p].starts
                  /\ r.result = result
  <1> DEFINE q == procs[p]
             r == [q EXCEPT !.pc = "done", !.result = result]
  <1>1. r \in Processes /\ r.pc = "done" /\ r.starts = q.starts /\ r.result = result
    <2> HIDE DEF q
    <2> q \in Processes
      BY DEF q
    <2> QED
      BY EndedWith
  <1>2. procs' = [procs EXCEPT ![p] = r]
    BY DEF End, Keep
  <1> HIDE DEF r
  <1>3. Reliable(p, r)
    BY <1>1 DEF Reliable
  <1> QED
    BY <1>1, <1>2, <1>3 DEF Moves

LEMMA StartStep ==
    ASSUME PublishInv, NEW p \in Procs, StartExport(p) \/ StartBuild(p)
    PROVE  \E r : Quiet(p, r)
  <1> DEFINE q == procs[p]
  <1>1. q \in Processes /\ q.starts + 1 \in Nat /\ q.pc # "publish"
    <2>1. q \in Processes
      BY DEF PublishInv
    <2>2. q.starts \in Nat
      BY <2>1 DEF Processes
    <2>3. q.pc \in {"idle", "done"}
      BY DEF StartExport, StartBuild
    <2> QED
      BY <2>1, <2>2, <2>3
  <1>2. CASE StartExport(p)
    <2>1. PICK book \in Books, overwrite \in BOOLEAN :
             Keep(p, [Idle(q.starts + 1) EXCEPT !.pc = "target", !.out = "source",
                                                !.overwrite = overwrite, !.name = <<book, "none">>])
      BY <1>2 DEF StartExport
    <2> DEFINE i == Idle(q.starts + 1)
               r == [i EXCEPT !.pc = "target", !.out = "source", !.overwrite = overwrite,
                              !.name = <<book, "none">>]
    <2>2. i \in Processes /\ i.result = "none"
      BY <1>1 DEF Idle, Processes, Steps, Paths, Sources, Results
    <2>3. <<book, "none">> \in Names
      BY DEF Names
    <2>4. r \in Processes /\ r.pc = "target" /\ r.result = "none" /\ r.name \in Names
      <3> HIDE DEF i
      <3> QED
        BY <2>2, <2>3 DEF Processes, Steps, Paths
    <2>5. procs' = [procs EXCEPT ![p] = r]
      BY <2>1 DEF Keep
    <2> HIDE DEF r
    <2>6. Reliable(p, r)
      BY <1>2, <2>4 DEF Reliable, StartExport
    <2> QED
      BY <1>1, <1>2, <2>4, <2>5, <2>6 DEF Quiet, Moves, StartExport
  <1>3. CASE StartBuild(p)
    <2> DEFINE Given(n, out, overwrite) ==
                  [pc |-> "load", starts |-> q.starts + 1, out |-> out, overwrite |-> overwrite,
                   name |-> n, seen |-> NoFile, result |-> "none"]
               Refused(n, out, overwrite) ==
                  [pc |-> "done", starts |-> q.starts + 1, out |-> out, overwrite |-> overwrite,
                   name |-> n, seen |-> NoFile, result |-> "INVALID_REQUEST"]
    <2>1. PICK n \in Names, out \in Paths, overwrite \in BOOLEAN :
             Keep(p, IF out = "source" THEN Refused(n, out, overwrite) ELSE Given(n, out, overwrite))
      BY <1>3 DEF StartBuild, Idle, SameInputOutput
    <2>2. Refused(n, out, overwrite) \in Processes /\ Given(n, out, overwrite) \in Processes
      BY <1>1 DEF Processes, Steps, Sources, Results
    <2>3. Reliable(p, Refused(n, out, overwrite))
      BY DEF Reliable
    <2>4. out # "source" => Reliable(p, Given(n, out, overwrite))
      BY DEF Reliable, Paths
    <2> DEFINE r == IF out = "source" THEN Refused(n, out, overwrite) ELSE Given(n, out, overwrite)
    <2>5. r \in Processes /\ Reliable(p, r) /\ r.pc # "publish"
      BY <2>2, <2>3, <2>4
    <2> HIDE DEF r
    <2>6. procs' = [procs EXCEPT ![p] = r]
      BY <2>1 DEF Keep, r
    <2> QED
      BY <1>1, <1>3, <2>5, <2>6 DEF Quiet, Moves, StartBuild
  <1> QED
    BY <1>2, <1>3

LEMMA LoadStep ==
    ASSUME PublishInv, NEW p \in Procs, Load(p)
    PROVE  \E r : Quiet(p, r)
  <1> DEFINE q == procs[p]
             f == files["source"]
             s == [q EXCEPT !.seen = f]
  <1>1. q \in Processes /\ q.pc = "load" /\ q.name \in Names /\ q.out = "page" /\ f \in Sources
    BY DEF PublishInv, Load, Reliable, Paths
  <1>2. s \in Processes /\ s.pc = "load" /\ s.name = q.name /\ s.out = q.out /\ s.seen = f
        /\ s.starts = q.starts /\ s.result = q.result
    <2> HIDE DEF q, f
    <2> QED
      BY <1>1 DEF Processes
  <1>3. q.result # "SOURCE_REJECTED"
    BY DEF PublishInv, Reliable, Load
  <1> DEFINE on == [s EXCEPT !.pc = "recheck"]
             off == [s EXCEPT !.pc = "done", !.result = "SOURCE_REJECTED"]
  <1>4. Keep(p, IF Loads(f, s.name) THEN on ELSE off)
    BY DEF Load
  <1>5. UNCHANGED <<files, temps, crashes>>
    BY DEF Load
  <1> HIDE DEF q, f, s
  <1>6. on \in Processes /\ on.pc = "recheck" /\ on.name = q.name /\ on.out = "page" /\ on.seen = f
        /\ on.result = q.result
    BY <1>1, <1>2, TurnedTo DEF Steps
  <1>7. off \in Processes /\ off.pc = "done" /\ off.name = q.name /\ off.seen = f
    <2>1. "SOURCE_REJECTED" \in Results
      BY DEF Results
    <2> QED
      BY <1>2, <2>1, EndedWith
  <1> HIDE DEF on, off
  <1>8. ASSUME Loads(f, q.name) PROVE Reliable(p, on)
    <2>1. Checked(q.name)
      BY <1>1, <1>8, LoadsChecked
    <2> QED
      BY <1>1, <1>3, <1>6, <2>1 DEF Reliable
  <1>9. ASSUME ~Loads(f, q.name) PROVE Reliable(p, off)
    BY <1>1, <1>7, <1>9 DEF Reliable
  <1> QED
    BY <1>1, <1>2, <1>4, <1>5, <1>6, <1>7, <1>8, <1>9 DEF Quiet, Moves, Keep, q

LEMMA RecheckStep ==
    ASSUME PublishInv, NEW p \in Procs, Recheck(p)
    PROVE  \E r : Quiet(p, r)
  <1> DEFINE q == procs[p]
             on == [q EXCEPT !.pc = "target"]
  <1>1. q \in Processes /\ q.pc = "recheck" /\ q.name \in Names
        /\ (p \notin Exporters => q.out = "page" /\ Checked(q.name))
        /\ q.result # "SOURCE_REJECTED"
    BY DEF PublishInv, Recheck, Reliable
  <1>2. UNCHANGED <<files, temps, crashes>> /\ (Keep(p, on) \/ End(p, "SOURCE_MUTATED"))
    BY DEF Recheck
  <1>3. CASE Keep(p, on)
    <2>1. procs' = [procs EXCEPT ![p] = on]
      BY <1>3 DEF Keep
    <2> "target" \in Steps
      BY DEF Steps
    <2>2. on \in Processes /\ on.pc = "target" /\ on.out = q.out /\ on.name = q.name
          /\ on.result = q.result
      <3> HIDE DEF q
      <3> QED
        BY <1>1, TurnedTo
    <2> HIDE DEF on
    <2>3. Reliable(p, on)
      BY <1>1, <2>2 DEF Reliable
    <2> QED
      BY <1>1, <1>2, <2>1, <2>2, <2>3 DEF Quiet, Moves
  <1>4. CASE End(p, "SOURCE_MUTATED")
    <2>1. PICK r : Moves(p, r) /\ r.pc = "done"
      BY <1>1, <1>4, Ends DEF Results
    <2> QED
      BY <1>1, <1>2, <2>1 DEF Quiet
  <1> QED
    BY <1>2, <1>3, <1>4

LEMMA TargetStep ==
    ASSUME PublishInv, NEW p \in Procs, Target(p)
    PROVE  \E r : Quiet(p, r)
  <1> DEFINE q == procs[p]
             on == [q EXCEPT !.pc = "temp"]
  <1>1. q \in Processes /\ q.pc = "target" /\ q.name \in Names
        /\ (p \notin Exporters => q.out = "page" /\ Checked(q.name))
        /\ q.result # "SOURCE_REJECTED"
    BY DEF PublishInv, Target, Reliable
  <1>2. UNCHANGED <<files, temps, crashes>> /\ (Keep(p, on) \/ End(p, "OUTPUT_EXISTS"))
    BY DEF Target
  <1>3. CASE Keep(p, on)
    <2>1. procs' = [procs EXCEPT ![p] = on]
      BY <1>3 DEF Keep
    <2> "temp" \in Steps
      BY DEF Steps
    <2>2. on \in Processes /\ on.pc = "temp" /\ on.out = q.out /\ on.name = q.name
          /\ on.result = q.result
      <3> HIDE DEF q
      <3> QED
        BY <1>1, TurnedTo
    <2> HIDE DEF on
    <2>3. Reliable(p, on)
      BY <1>1, <2>2 DEF Reliable
    <2> QED
      BY <1>1, <1>2, <2>1, <2>2, <2>3 DEF Quiet, Moves
  <1>4. CASE End(p, "OUTPUT_EXISTS")
    <2>1. PICK r : Moves(p, r) /\ r.pc = "done"
      BY <1>1, <1>4, Ends DEF Results
    <2> QED
      BY <1>1, <1>2, <2>1 DEF Quiet
  <1> QED
    BY <1>2, <1>3, <1>4

LEMMA WriteTempStep ==
    ASSUME PublishInv, NEW p \in Procs, WriteTemp(p)
    PROVE  \E r : Quiet(p, r) \/ Writes(p, r)
  <1> DEFINE q == procs[p]
             on == [q EXCEPT !.pc = "publish"]
  <1>1. q \in Processes /\ q.pc = "temp" /\ q.name \in Names
        /\ (p \notin Exporters => q.out = "page" /\ Checked(q.name))
        /\ q.result # "SOURCE_REJECTED"
    BY DEF PublishInv, WriteTemp, Reliable
  <1>2. UNCHANGED <<files, crashes>>
    BY DEF WriteTemp
  <1>3. CASE Keep(p, on) /\ temps' = temps \cup {<<p, q.starts>>}
    <2>1. procs' = [procs EXCEPT ![p] = on]
      BY <1>3 DEF Keep
    <2> "publish" \in Steps
      BY DEF Steps
    <2>2. on \in Processes /\ on.pc = "publish" /\ on.out = q.out /\ on.name = q.name
          /\ on.result = q.result /\ on.starts = q.starts
      <3> HIDE DEF q
      <3> QED
        BY <1>1, TurnedTo
    <2> HIDE DEF on
    <2>3. Reliable(p, on)
      BY <1>1, <2>2 DEF Reliable
    <2> QED
      BY <1>1, <1>2, <1>3, <2>1, <2>2, <2>3 DEF Writes, Moves
  <1>4. CASE End(p, "STORAGE_ERROR") /\ UNCHANGED temps
    <2>1. PICK r : Moves(p, r) /\ r.pc = "done"
      BY <1>1, <1>4, Ends DEF Results
    <2> QED
      BY <1>1, <1>2, <1>4, <2>1 DEF Quiet
  <1> QED
    BY <1>3, <1>4 DEF WriteTemp

LEMMA PlacedStep ==
    ASSUME PublishInv, NEW p \in Procs, PublishExport(p) \/ PublishPage(p)
    PROVE  \E r : Places(p, r)
  <1> DEFINE q == procs[p]
             read == [q EXCEPT !.pc = "readback"]
             taken == ~q.overwrite /\ files[q.out] # NoFile
  <1>1. q \in Processes /\ q.pc = "publish" /\ q.name \in Names
        /\ (p \notin Exporters => q.out = "page" /\ Checked(q.name))
        /\ q.result # "SOURCE_REJECTED"
    BY DEF PublishInv, PublishExport, PublishPage, Reliable
  <1>2. Placed(p) /\ UNCHANGED crashes
    BY DEF PublishExport, PublishPage
  <1>3. temps' = temps \ {<<p, q.starts>>}
    BY <1>2 DEF Placed
  <1>4. CASE taken
    <2>1. End(p, "OUTPUT_EXISTS") /\ UNCHANGED files
      BY <1>2, <1>4 DEF Placed
    <2>2. PICK r : Moves(p, r) /\ r.pc = "done" /\ r.starts = q.starts
      BY <1>1, <2>1, Ends DEF Results
    <2> QED
      BY <1>1, <1>2, <1>3, <2>1, <2>2 DEF Places
  <1>5. CASE ~taken
    <2>1. files' = [files EXCEPT ![q.out] = Content(p)] /\ (files[q.out] = NoFile \/ q.overwrite)
      BY <1>2, <1>5 DEF Placed
    <2>2. CASE p \in Exporters
      <3>1. End(p, "EXPORTED")
        BY <1>2, <1>5, <2>2 DEF Placed, End
      <3>2. PICK r : Moves(p, r) /\ r.pc = "done" /\ r.starts = q.starts
        BY <1>1, <3>1, Ends DEF Results
      <3> QED
        BY <1>1, <1>2, <1>3, <2>1, <3>2 DEF Places
    <2>3. CASE p \notin Exporters
      <3>1. procs' = [procs EXCEPT ![p] = read]
        BY <1>2, <1>5, <2>3 DEF Placed, Keep
      <3> "readback" \in Steps
        BY DEF Steps
      <3>2. read \in Processes /\ read.pc = "readback" /\ read.out = q.out /\ read.name = q.name
            /\ read.result = q.result /\ read.starts = q.starts
        <4> HIDE DEF q
        <4> QED
          BY <1>1, TurnedTo
      <3> HIDE DEF read
      <3>3. Reliable(p, read)
        BY <1>1, <3>2 DEF Reliable
      <3> QED
        BY <1>1, <1>2, <1>3, <2>1, <3>1, <3>2, <3>3 DEF Places, Moves
    <2> QED
      BY <2>2, <2>3
  <1> QED
    BY <1>4, <1>5

LEMMA ReadBackStep ==
    ASSUME PublishInv, NEW p \in Procs, ReadBack(p)
    PROVE  \E r : Quiet(p, r)
  <1>1. procs[p] \in Processes /\ procs[p].pc = "readback" /\ UNCHANGED <<files, temps, crashes>>
    BY DEF PublishInv, ReadBack
  <1>2. PICK result \in {"BUILT", "OUTPUT_MISMATCH"} : End(p, result)
    BY DEF ReadBack
  <1>3. PICK r : Moves(p, r) /\ r.pc = "done"
    BY <1>1, <1>2, Ends DEF Results
  <1> QED
    BY <1>1, <1>3 DEF Quiet

LEMMA CrashStep ==
    ASSUME PublishInv, NEW p \in Procs, Crash(p)
    PROVE  \E r : Dies(p, r)
  <1>1. procs[p] \in Processes
    BY DEF PublishInv
  <1>2. PICK r : Moves(p, r) /\ r.pc = "done" /\ r.starts = procs[p].starts
    BY <1>1, Ends DEF Crash, Results
  <1> QED
    BY <1>2 DEF Dies, Crash

LEMMA CommandSteps ==
    ASSUME PublishInv, NEW p \in Procs, Command(p)
    PROVE  \E r : Quiet(p, r) \/ Writes(p, r) \/ Places(p, r) \/ Dies(p, r)
  BY StartStep, LoadStep, RecheckStep, TargetStep, WriteTempStep, PlacedStep, ReadBackStep,
     CrashStep DEF Command

-----------------------------------------------------------------------------
(* The invariant                                                             *)

LEMMA MovesFacts ==
    ASSUME PublishInv, NEW p, NEW r, Moves(p, r)
    PROVE  /\ procs' \in [Procs -> Processes]
           /\ procs'[p] = r /\ \A q \in Procs : q # p => procs'[q] = procs[q]
           /\ \A q \in Procs : Reliable(q, procs'[q])
  <1>1. /\ procs' \in [Procs -> Processes]
        /\ procs'[p] = r /\ \A q \in Procs : q # p => procs'[q] = procs[q]
    BY DEF PublishInv, Moves
  <1>2. \A q \in Procs : Reliable(q, procs'[q])
    BY <1>1 DEF PublishInv, Moves
  <1> QED
    BY <1>1, <1>2

(* No step makes an orphan but the death of a process, which makes one.     *)
LEMMA OrphansFacts ==
    ASSUME PublishInv, NEW p, NEW r, Quiet(p, r) \/ Writes(p, r) \/ Places(p, r) \/ Dies(p, r)
    PROVE  /\ temps' \in SUBSET (Procs \X Nat) /\ IsFiniteSet(temps')
           /\ crashes' \in Nat /\ Cardinality(Orphans') <= crashes'
  <1> DEFINE own == <<p, procs[p].starts>>
             left == {t \in temps' : procs'[t[1]].starts # t[2] \/ procs'[t[1]].pc # "publish"}
  <1>1. /\ temps \in SUBSET (Procs \X Nat) /\ IsFiniteSet(temps)
        /\ crashes \in Nat /\ Cardinality(Orphans) <= crashes
        /\ p \in Procs /\ procs[p].starts \in Nat
    <2>1. p \in Procs
      BY DEF Quiet, Writes, Places, Dies, Moves
    <2>2. procs[p] \in Processes
      BY <2>1 DEF PublishInv
    <2> QED
      BY <2>1, <2>2 DEF PublishInv, Processes
  <1>2. own \in Procs \X Nat /\ own[1] = p /\ own[2] = procs[p].starts
    BY <1>1
  <1>3. /\ procs'[p] = r /\ \A q \in Procs : q # p => procs'[q] = procs[q]
    BY MovesFacts DEF Quiet, Writes, Places, Dies
  <1>4. \A t \in temps : t[1] \in Procs /\ (t[1] = p /\ t[2] = procs[p].starts => t = own)
    BY <1>1
  <1>5. Orphans' = left
    BY DEF Orphans
  <1> HIDE DEF own
  <1>6. IsFiniteSet(Orphans) /\ Orphans \subseteq temps
    <2>1. Orphans \subseteq temps
      BY DEF Orphans
    <2> QED
      BY <1>1, <2>1, FS_Subset
  <1>7. CASE Quiet(p, r)
    <2>1. temps' = temps /\ crashes' = crashes /\ procs[p].pc # "publish"
      BY <1>7 DEF Quiet
    <2>2. left \subseteq Orphans
      BY <1>3, <1>4, <2>1 DEF Orphans
    <2>3. Cardinality(left) <= Cardinality(Orphans)
      <3> HIDE DEF left
      <3> QED
        BY <1>6, <2>2, FS_Subset
    <2>4. Cardinality(left) \in Nat /\ Cardinality(Orphans) \in Nat
      <3> HIDE DEF left
      <3> QED
        BY <1>6, <2>2, FS_Subset, FS_CardinalityType
    <2> HIDE DEF left
    <2> QED
      BY <1>1, <1>5, <2>1, <2>3, <2>4
  <1>8. CASE Writes(p, r)
    <2>1. temps' = temps \cup {own} /\ crashes' = crashes /\ procs[p].pc # "publish"
          /\ r.pc = "publish" /\ r.starts = procs[p].starts
      BY <1>8 DEF Writes, own
    <2>2. left \subseteq Orphans
      BY <1>2, <1>3, <1>4, <2>1 DEF Orphans
    <2>3. Cardinality(left) <= Cardinality(Orphans)
      <3> HIDE DEF left
      <3> QED
        BY <1>6, <2>2, FS_Subset
    <2>4. Cardinality(left) \in Nat /\ Cardinality(Orphans) \in Nat
      <3> HIDE DEF left
      <3> QED
        BY <1>6, <2>2, FS_Subset, FS_CardinalityType
    <2>5. temps' \in SUBSET (Procs \X Nat) /\ IsFiniteSet(temps')
      BY <1>1, <1>2, <2>1, FS_AddElement
    <2> HIDE DEF left
    <2> QED
      BY <1>1, <1>5, <2>1, <2>3, <2>4, <2>5
  <1>9. CASE Places(p, r)
    <2>1. temps' = temps \ {own} /\ crashes' = crashes
          /\ r.pc # "publish" /\ r.starts = procs[p].starts
      BY <1>9 DEF Places, own
    <2>2. left \subseteq Orphans
      BY <1>2, <1>3, <1>4, <2>1 DEF Orphans
    <2>3. Cardinality(left) <= Cardinality(Orphans)
      <3> HIDE DEF left
      <3> QED
        BY <1>6, <2>2, FS_Subset
    <2>4. Cardinality(left) \in Nat /\ Cardinality(Orphans) \in Nat
      <3> HIDE DEF left
      <3> QED
        BY <1>6, <2>2, FS_Subset, FS_CardinalityType
    <2>5. temps' \in SUBSET (Procs \X Nat) /\ IsFiniteSet(temps')
      BY <1>1, <2>1, FS_Subset
    <2> HIDE DEF left
    <2> QED
      BY <1>1, <1>5, <2>1, <2>3, <2>4, <2>5
  <1>10. CASE Dies(p, r)
    <2>1. temps' = temps /\ crashes' = crashes + 1
          /\ r.pc # "publish" /\ r.starts = procs[p].starts
      BY <1>10 DEF Dies
    <2>2. left \subseteq Orphans \cup {own}
      BY <1>2, <1>3, <1>4, <2>1 DEF Orphans
    <2>3. IsFiniteSet(Orphans \cup {own})
          /\ Cardinality(Orphans \cup {own}) <= Cardinality(Orphans) + 1
      <3>1. Cardinality(Orphans) \in Nat
        BY <1>6, FS_CardinalityType
      <3> QED
        BY <1>6, <3>1, FS_AddElement
    <2>4. IsFiniteSet(left) /\ Cardinality(left) <= Cardinality(Orphans \cup {own})
      <3> HIDE DEF left
      <3> QED
        BY <2>2, <2>3, FS_Subset
    <2>5. Cardinality(left) \in Nat /\ Cardinality(Orphans) \in Nat
          /\ Cardinality(Orphans \cup {own}) \in Nat
      BY <1>6, <2>3, <2>4, FS_CardinalityType
    <2> HIDE DEF left
    <2> QED
      BY <1>1, <1>5, <2>1, <2>3, <2>4, <2>5
  <1> QED
    BY <1>7, <1>8, <1>9, <1>10

(* A page that is put in place was checked, and goes to the page's own name.  *)
LEMMA FilesFacts ==
    ASSUME PublishInv, NEW p, NEW r, Quiet(p, r) \/ Writes(p, r) \/ Places(p, r) \/ Dies(p, r)
    PROVE  /\ files' \in [Paths -> Sources]
           /\ files'["page"].kind = "page" => Checked(files'["page"].name)
           /\ \A path \in Paths :
                (files[path] # NoFile /\ files'[path] # files[path]) =>
                    /\ procs[p].pc = "publish" /\ procs'[p].pc # "publish"
                    /\ procs[p].overwrite /\ procs[p].out = path
                    /\ path = "source" => p \in Exporters
  <1> DEFINE q == procs[p]
  <1>1. files \in [Paths -> Sources]
        /\ (files["page"].kind = "page" => Checked(files["page"].name))
    BY DEF PublishInv
  <1>2. CASE UNCHANGED files
    BY <1>1, <1>2
  <1>3. CASE ~ UNCHANGED files
    <2>1. Places(p, r) /\ files' = [files EXCEPT ![q.out] = Content(p)]
          /\ (files[q.out] = NoFile \/ q.overwrite)
      BY <1>3 DEF Quiet, Writes, Places, Dies
    <2>2. p \in Procs /\ q.pc = "publish" /\ r.pc # "publish" /\ procs'[p] = r
      BY <2>1, MovesFacts DEF Places, Moves
    <2>3. q.out \in Paths /\ q.name \in Names
          /\ (p \notin Exporters => q.out = "page" /\ Checked(q.name))
      <3>1. q \in Processes /\ Reliable(p, q)
        BY <2>2 DEF PublishInv
      <3>2. q.out \in Paths
        BY <3>1 DEF Processes
      <3> QED
        BY <2>2, <3>1, <3>2 DEF Reliable
    <2>4. Content(p) \in Sources /\ (Content(p).kind = "page" => p \notin Exporters)
          /\ Content(p).name = q.name
      BY <2>3 DEF Content, ExportFile, Page, Sources
    <2>5. files' \in [Paths -> Sources]
      BY <1>1, <2>1, <2>3, <2>4
    <2>6. "page" \in Paths
      BY DEF Paths
    <2>7. \A path \in Paths : files'[path] = IF path = q.out THEN Content(p) ELSE files[path]
      BY <1>1, <2>1
    <2>8. files'["page"].kind = "page" => Checked(files'["page"].name)
      BY <1>1, <2>3, <2>4, <2>6, <2>7
    <2> QED
      BY <2>1, <2>2, <2>3, <2>5, <2>7, <2>8
  <1> QED
    BY <1>2, <1>3

LEMMA PublishInitial == PublishInit => PublishInv
  <1> SUFFICES ASSUME PublishInit PROVE PublishInv
    OBVIOUS
  <1>1. PICK n \in Names, seal \in {"own", "other", "absent"} :
            files = [p \in Paths |-> IF p = "page" \/ seal = "absent" THEN NoFile
                                     ELSE ExportFile(n, IF seal = "own" THEN n ELSE <<>>)]
    BY DEF PublishInit
  <1>2. files \in [Paths -> Sources] /\ files["page"] = NoFile
    BY <1>1 DEF Paths, Sources, ExportFile
  <1>3. procs \in [Procs -> Processes] /\ \A p \in Procs : Reliable(p, procs[p])
    <2>1. Idle(0) \in Processes /\ \A p \in Procs : Reliable(p, Idle(0))
      BY DEF Idle, Processes, Steps, Paths, Sources, Results, Reliable
    <2> QED
      BY <2>1 DEF PublishInit
  <1>4. temps = {} /\ crashes = 0 /\ Orphans = {}
    BY DEF PublishInit, Orphans
  <1> QED
    BY <1>2, <1>3, <1>4, FS_EmptySet DEF PublishInv, NoFile

LEMMA PublishStep ==
    PublishInv /\ [PublishNext]_publishVars =>
        PublishInv' /\ (NoUnaskedOverwriteStep \/ UNCHANGED publishVars)
  <1> SUFFICES ASSUME PublishInv, [PublishNext]_publishVars
               PROVE  PublishInv' /\ (NoUnaskedOverwriteStep \/ UNCHANGED publishVars)
    OBVIOUS
  <1>1. ASSUME NEW p \in Procs, Command(p)
        PROVE  PublishInv' /\ NoUnaskedOverwriteStep
    <2>1. PICK r : Quiet(p, r) \/ Writes(p, r) \/ Places(p, r) \/ Dies(p, r)
      BY <1>1, CommandSteps
    <2>2. Moves(p, r)
      BY <2>1 DEF Quiet, Writes, Places, Dies
    <2>3. procs' \in [Procs -> Processes] /\ \A q \in Procs : Reliable(q, procs'[q])
      BY <2>2, MovesFacts
    <2>4. /\ temps' \in SUBSET (Procs \X Nat) /\ IsFiniteSet(temps')
          /\ crashes' \in Nat /\ Cardinality(Orphans') <= crashes'
      BY <2>1, OrphansFacts
    <2>5. PublishInv'
      BY <2>1, <2>3, <2>4, FilesFacts DEF PublishInv
    <2>6. NoUnaskedOverwriteStep
      BY <1>1, <2>1, FilesFacts DEF NoUnaskedOverwriteStep
    <2> QED
      BY <2>5, <2>6
  <1>2. ASSUME UNCHANGED <<files, procs, temps, crashes>>
        PROVE  PublishInv' /\ NoUnaskedOverwriteStep
    BY <1>2 DEF PublishInv, Orphans, NoUnaskedOverwriteStep
  <1>3. Reading => UNCHANGED <<files, procs, temps, crashes>>
    BY DEF Reading, OpenTable, TurnPage
  <1> QED
    BY <1>1, <1>2, <1>3 DEF PublishNext, publishVars

LEMMA PublishInvIsSafe == PublishInv => PublicationIsSafe
  <1> SUFFICES ASSUME PublishInv PROVE PublicationIsSafe
    OBVIOUS
  <1>1. PageAgreesWithItself
    BY CheckedAgrees DEF PublishInv, PageAgreesWithItself
  <1>2. HonestExportAccepted
    <2> SUFFICES ASSUME NEW p \in Builders, procs[p].result = "SOURCE_REJECTED",
                        procs[p].seen.kind = "export",
                        procs[p].seen.seal = procs[p].seen.name,
                        procs[p].seen.name = procs[p].name, procs[p].name[2] = "none"
                 PROVE  FALSE
      BY DEF HonestExportAccepted
    <2>1. procs[p].name \in Names /\ ~Loads(procs[p].seen, procs[p].name)
      BY DEF PublishInv, Reliable, Procs
    <2> QED
      BY <2>1, HonestLoads
  <1>3. TempsAccountedFor
    BY DEF PublishInv, TempsAccountedFor, Orphans
  <1> QED
    BY <1>1, <1>2, <1>3 DEF PublicationIsSafe

(* A page that stands under its path agrees with itself, P8 takes whatever   *)
(* P7 exports and a temporary file outlives only a killed command, however   *)
(* many exporters and builders run beside each other over whatever books.    *)
THEOREM PublicationTheorem == PublishSpec => []PublicationIsSafe
  <1>1. PublishInit => PublishInv
    BY PublishInitial
  <1>2. PublishInv /\ [PublishNext]_publishVars => PublishInv'
    BY PublishStep
  <1>3. PublishInv => PublicationIsSafe
    BY PublishInvIsSafe
  <1> QED
    BY <1>1, <1>2, <1>3, PTL DEF PublishSpec

(* A name that is taken changes hands only by a command told to overwrite,   *)
(* and the export never gives way to a page.                                 *)
THEOREM OverwriteTheorem == PublishSpec => NoUnaskedOverwrite
  <1>1. PublishInit => PublishInv
    BY PublishInitial
  <1>2. PublishInv /\ [PublishNext]_publishVars =>
            PublishInv' /\ (NoUnaskedOverwriteStep \/ UNCHANGED publishVars)
    BY PublishStep
  <1>3. PublishInv /\ [PublishNext]_publishVars => [NoUnaskedOverwriteStep]_publishVars
    BY <1>2
  <1> QED
    BY <1>1, <1>2, <1>3, PTL DEF PublishSpec, NoUnaskedOverwrite
================================================================================
