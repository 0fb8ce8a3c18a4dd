----------------------------- MODULE AnalystTrace -----------------------------
(* P6: one command takes four pieces of evidence frozen at a decision time,   *)
(* the answer of a model and the journal. It builds the bundle and the        *)
(* request, validates the answer, grounds every claim on the evidence and     *)
(* records the trace. Commands run beside each other, are repeated at later   *)
(* times and die before or after the commit. An answer is untrusted: it may   *)
(* say anything out of Answers.                                               *)
EXTENDS Integers, Sequences, FiniteSets

CONSTANTS
    Commands,       \* processes running the command
    Artifacts,      \* evidence on offer [layer, symbol, observed, until, payload]
    Answers,        \* answers of the model [form, forbidden, claims]
    Symbol,
    MaxClock, MaxStarts

ASSUME BoundsAssumption == MaxClock \in Nat /\ MaxStarts \in Nat

\* What no verdict is given on: bytes that are no UTF-8, an oversize answer cut inside a
\* character included; numbers longer than the interpreter converts, nesting deeper than
\* it follows. The first two end the command as invalid input, the last with a traceback.
Unreadable == [UNDECODABLE |-> "INVALID_INPUT", HUGE_NUMBER |-> "INVALID_INPUT",
               TOO_DEEP |-> "RECURSION_ERROR"]

\* What an answer is: a JSON object, or the reason it is none.
Forms == {"OBJECT", "RESPONSE_TYPE", "RESPONSE_TOO_LARGE", "DUPLICATE_JSON_KEY",
          "MALFORMED_JSON", "SCHEMA_REJECTED"} \cup DOMAIN Unreadable

\* The claims of an answer are a list.
ASSUME AnswersAssumption ==
    \A a \in Answers : /\ a.form \in Forms
                       /\ Len(a.claims) \in Nat /\ DOMAIN a.claims = 1 .. Len(a.claims)

VARIABLES
    clock,
    cmd,        \* the state of each command
    journal,    \* rows, in the order of their commits
    starts

vars == <<clock, cmd, journal, starts>>

Layers == {"P1", "P3", "P4", "P5"}

-----------------------------------------------------------------------------
(* Evidence                                                                  *)

\* Candles of closed hours that were accepted.
ValidateP1(r) == r.accepted /\ r.closed >= 0

\* The strategy evidence stays insufficient: nothing may upgrade it.
ValidateP3(r) == r.accepted /\ r.strategy = "INSUFFICIENT_EVIDENCE"

\* Risk passed, and gives away no authority over quantity or authorization.
ValidateP4(r) == r.accepted /\ r.status = "PASS" /\ ~r.authority

\* Safety passed: paper only, lock off, no permission, credential or payload.
ValidateP5(r) == r.accepted /\ r.status = "PASS" /\ ~r.permission

PayloadValid(a) ==
    \/ a.layer = "P1" /\ ValidateP1(a.payload)
    \/ a.layer = "P3" /\ ValidateP3(a.payload)
    \/ a.layer = "P4" /\ ValidateP4(a.payload)
    \/ a.layer = "P5" /\ ValidateP5(a.payload)

\* One artifact as it is built: its payload is of its layer, and the market data in
\* it are no newer than the artifact.
LayerEvidence(a) ==
    /\ a.until >= a.observed /\ PayloadValid(a)
    /\ a.layer = "P1" => a.payload.closed <= a.observed

\* AnalystInput: references of the symbol, none of the future.
AnalystInput(b) ==
    \A l \in Layers : b.evidence[l].symbol = b.symbol /\ b.evidence[l].observed <= b.decision

\* PointInTimeEvidenceBundle: one artifact of each layer, of the symbol, neither of
\* the future nor stale at the decision.
BundleValid(b) ==
    /\ DOMAIN b.evidence = Layers /\ AnalystInput(b)
    /\ \A l \in Layers : LET a == b.evidence[l]
                         IN  /\ a.layer = l /\ LayerEvidence(a) /\ a.until >= b.decision
                             /\ l = "P1" => a.payload.closed <= b.decision

Specs == [symbol : {Symbol}, decision : 0 .. MaxClock,
          evidence : {e \in [Layers -> Artifacts] : \A l \in Layers : e[l].layer = l}]

-----------------------------------------------------------------------------
(* The answer                                                                *)

Kinds == {"FACT", "DERIVED_OBSERVATION", "UNCERTAINTY"}
HasUncertainty(claims) == \E k \in DOMAIN claims : claims[k].kind = "UNCERTAINTY"

\* A fact or an observation names its evidence.
AnalystClaim(c) == c.kind \in {"FACT", "DERIVED_OBSERVATION"} => c.evidence # {}

\* _parse_claims: ids in order and only once, an uncertainty among them.
ParseClaims(claims) ==
    /\ claims # <<>>
    /\ \A k \in DOMAIN claims : claims[k].kind \in Kinds /\ AnalystClaim(claims[k])
    /\ \A k \in DOMAIN claims : k > 1 => claims[k - 1].rank < claims[k].rank
    /\ HasUncertainty(claims)

\* AnalystReport: the evidence named is in the bundle.
ReportValid(claims) == \A k \in DOMAIN claims : claims[k].evidence \subseteq Layers

Disposition(claims) ==
    IF claims = <<>> THEN <<"INSUFFICIENT_DATA", "NO_USABLE_CLAIMS">>
    ELSE IF HasUncertainty(claims) THEN <<"REVIEW", "UNCERTAINTY_PRESENT">>
    ELSE <<"NO_TRADE", "ANALYSIS_ONLY">>

\* A key or a text that smells of an order, an address or a credential.
ForbiddenContent(answer) == answer.forbidden

\* validate_model_response, in the order of its refusals.
ResponseCode(answer) ==
    IF answer.form # "OBJECT" THEN answer.form
    ELSE IF ForbiddenContent(answer) THEN "FORBIDDEN_CONTENT"
    ELSE IF ~ParseClaims(answer.claims) THEN "SCHEMA_REJECTED"
    ELSE IF ~ReportValid(answer.claims) \/ Disposition(answer.claims)[1] # "REVIEW"
    THEN "CONTRACT_REJECTED" ELSE "ACCEPTED"

-----------------------------------------------------------------------------
(* Grounding                                                                 *)

\* The five statements a model may make, each on its layer.
Rules ==
    [MODEL_FACT_MARKET          |-> [kind |-> "FACT", layer |-> "P1"],
     MODEL_FACT_RISK            |-> [kind |-> "FACT", layer |-> "P4"],
     MODEL_FACT_SAFETY          |-> [kind |-> "FACT", layer |-> "P5"],
     MODEL_OBSERVATION_STRATEGY |-> [kind |-> "DERIVED_OBSERVATION", layer |-> "P3"],
     MODEL_UNCERTAINTY_STRATEGY |-> [kind |-> "UNCERTAINTY", layer |-> "P3"]]

\* _evidence_state_valid: whether it held at the decision.
EvidenceState(b, a) ==
    /\ a.symbol = b.symbol /\ a.observed <= b.decision /\ a.until >= b.decision
    /\ PayloadValid(a) /\ (a.layer = "P1" => a.payload.closed <= b.decision)

ClaimCode(b, c) ==
    IF c.text = "contradiction" THEN "CONTRADICTION"
    ELSE IF c.id \notin DOMAIN Rules THEN "UNSUPPORTED_CLAIM"
    ELSE IF c.kind # Rules[c.id].kind \/ c.text # "rule" \/ Cardinality(c.evidence) # 1
    THEN "CLAIM_SHAPE_MISMATCH"
    ELSE IF c.evidence # {Rules[c.id].layer} THEN "EVIDENCE_REFERENCE_MISMATCH"
    ELSE IF ~EvidenceState(b, b.evidence[Rules[c.id].layer]) THEN "EVIDENCE_STATE_INVALID"
    ELSE "GROUNDED"

\* _evaluate: the first claim that fails decides.
GroundingCode(b, answer) ==
    IF ResponseCode(answer) # "ACCEPTED" THEN "UPSTREAM_REJECTED"
    ELSE LET bad == {k \in DOMAIN answer.claims : ClaimCode(b, answer.claims[k]) # "GROUNDED"}
         IN  IF bad = {} THEN "GROUNDED"
             ELSE ClaimCode(b, answer.claims[CHOOSE k \in bad : \A j \in bad : k <= j])

Row(b, answer, code, claims) ==
    [bundle |-> b, answer |-> answer, response |-> ResponseCode(answer), code |-> code,
     accepted |-> code = "GROUNDED", claims |-> claims, disposition |-> Disposition(claims)]

\* What the model said is kept although it was turned away.
TraceKeepingClaims(b, answer) == Row(b, answer, GroundingCode(b, answer), answer.claims)

\* from_grounding: a rejected answer leaves its digest and an empty report.
Trace(b, answer) ==
    LET code == GroundingCode(b, answer)
    IN  Row(b, answer, code, IF code = "GROUNDED" THEN answer.claims ELSE <<>>)

\* AnalystTraceRecord: accepted with claims and a review, or rejected without a word
\* of the model. P7 asks the same of every row it reads.
RecordValid(t) ==
    IF t.accepted THEN t.code = "GROUNDED" /\ t.claims # <<>> /\ t.disposition[1] = "REVIEW"
    ELSE t.code # "GROUNDED" /\ t.claims = <<>> /\ t.disposition[2] = "NO_USABLE_CLAIMS"

\* response_validation_sha256: the request, the answer and what came of it.
ValidationId(row) == <<row.bundle, row.answer, row.response>>

-----------------------------------------------------------------------------
(* The command                                                               *)

Free == [pc |-> "free"]

WithoutTrace(b, a, result) ==
    [pc |-> "end", bundle |-> b, answer |-> a, trace |-> <<>>, result |-> result]

\* _read_response_text
Read(b, a) ==
    IF a.form = "UNDECODABLE" THEN WithoutTrace(b, a, Unreadable[a.form])
    ELSE [pc |-> "ground", bundle |-> b, answer |-> a]

\* load_bundle_spec and build_model_request; a spec that is no bundle ends there.
Open(c) ==
    /\ cmd[c].pc \in {"free", "end"} /\ starts < MaxStarts /\ starts' = starts + 1
    /\ \E b \in Specs :
        \/ ~BundleValid(b) /\ cmd' = [cmd EXCEPT ![c] = Free]
        \/ BundleValid(b) /\ \E a \in Answers : cmd' = [cmd EXCEPT ![c] = Read(b, a)]
    /\ UNCHANGED <<clock, journal>>

\* The same files given again, after an end or a death.
Repeat(c) ==
    /\ cmd[c].pc = "end" /\ starts < MaxStarts /\ starts' = starts + 1
    /\ cmd' = [cmd EXCEPT ![c] = Read(cmd[c].bundle, cmd[c].answer)]
    /\ UNCHANGED <<clock, journal>>

\* validate_model_response catches what is no JSON, not what json gives up on.
Ground(c) ==
    LET b == cmd[c].bundle
        a == cmd[c].answer
    IN  /\ cmd[c].pc = "ground"
        /\ cmd' = [cmd EXCEPT ![c] =
                     IF a.form \in DOMAIN Unreadable THEN WithoutTrace(b, a, Unreadable[a.form])
                     ELSE [pc |-> "record", bundle |-> b, answer |-> a, trace |-> Trace(b, a)]]
        /\ UNCHANGED <<clock, journal, starts>>

Ended(c, result) ==
    [cmd EXCEPT ![c] = [pc |-> "end", bundle |-> cmd[c].bundle, answer |-> cmd[c].answer,
                        trace |-> cmd[c].trace, result |-> result]]

Existing(id) == {k \in DOMAIN journal : ValidationId(journal[k]) = id}

\* A row for every command, whether or not the answer has one.
RecordBlind(c) ==
    /\ cmd[c].pc = "record"
    /\ journal' = Append(journal, cmd[c].trace) /\ cmd' = Ended(c, "RECORDED")
    /\ UNCHANGED <<clock, starts>>

\* record, one immediate transaction: insert, find the identical row, or conflict. A
\* trace that is not a valid record never gets that far.
Record(c) ==
    /\ cmd[c].pc = "record"
    /\ LET row == cmd[c].trace
           old == Existing(ValidationId(row))
           new == RecordValid(row) /\ old = {}
       IN  /\ journal' = IF new THEN Append(journal, row) ELSE journal
           /\ cmd' = Ended(c, IF ~RecordValid(row) THEN "INVALID"
                              ELSE IF \A k \in old : journal[k] = row THEN "RECORDED" ELSE "CONFLICT")
    /\ UNCHANGED <<clock, starts>>

\* Killed before the commit, or after it and before the answer is printed.
Die(c) ==
    /\ cmd[c].pc \in {"ground", "record"}
    /\ cmd' = [cmd EXCEPT ![c] = WithoutTrace(@.bundle, @.answer, "KILLED")]
    /\ UNCHANGED <<clock, journal, starts>>

Tick == clock < MaxClock /\ clock' = clock + 1 /\ UNCHANGED <<cmd, journal, starts>>

Init ==
    /\ clock = 0 /\ journal = <<>> /\ starts = 0
    /\ cmd = [c \in Commands |-> Free]

Next ==
    \/ \E c \in Commands : Open(c) \/ Repeat(c) \/ Ground(c) \/ Record(c) \/ Die(c)
    \/ Tick

Spec == Init /\ [][Next]_vars

-----------------------------------------------------------------------------
(* Properties                                                                *)

\* Whatever the model said, an accepted trace holds nothing but the known
\* statements, each on a piece of evidence of its own layer that was in force at
\* the decision, with the uncertainty among them (_evaluate).
AcceptedIsBacked ==
    \A k \in DOMAIN journal :
        LET t == journal[k]
        IN  t.accepted =>
                /\ HasUncertainty(t.claims) /\ t.disposition[1] = "REVIEW"
                /\ \A j \in DOMAIN t.claims :
                    LET c == t.claims[j]
                    IN  /\ c.id \in DOMAIN Rules /\ c.text = "rule"
                        /\ \A l \in c.evidence :
                            LET a == t.bundle.evidence[l]
                            IN  /\ l = Rules[c.id].layer /\ PayloadValid(a) /\ a.symbol = t.bundle.symbol
                                /\ a.observed <= t.bundle.decision /\ t.bundle.decision <= a.until

\* The answer a command has is on record.
OnRecord(c) ==
    \E k \in DOMAIN journal :
        journal[k].bundle = cmd[c].bundle /\ journal[k].answer = cmd[c].answer

\* A command that is not killed leaves a trace of every answer that can be decoded and
\* parsed, however wrong it is: its refusal is on record, in a row the journal takes and
\* P7 can read. Of an answer that cannot be read at all there is no row
\* (_read_response_text, from_grounding, AnalystTraceRecord).
EveryAnswerRecordable ==
    \A c \in Commands : cmd[c].pc = "end" /\ cmd[c].result # "KILLED" =>
        (OnRecord(c) <=> cmd[c].answer.form \notin DOMAIN Unreadable)

\* A command run again, at any later time and beside any other, finds the trace it
\* made before: the verdict depends on its two files alone (record).
RepeatNeverConflicts == \A c \in Commands : cmd[c].pc = "end" => cmd[c].result # "CONFLICT"

\* The journal is sound: what it accepted is backed by evidence, every answer that can
\* be read leaves its trace, and a command that is repeated never contradicts what is on
\* record.
JournalIsSound == AcceptedIsBacked /\ EveryAnswerRecordable /\ RepeatNeverConflicts

\* The journal only grows, and no answer to a request has two rows in it.
JournalKeepsRowsStep ==
    /\ Len(journal') >= Len(journal)
    /\ \A k \in DOMAIN journal : journal'[k] = journal[k]
    /\ \A j, k \in DOMAIN journal' :
         ValidationId(journal'[j]) = ValidationId(journal'[k]) => j = k

JournalKeepsRows == [][JournalKeepsRowsStep]_vars
==============================================================================
