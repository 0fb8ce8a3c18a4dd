-------------------------- MODULE MonitoringProofs --------------------------
(***************************************************************************)
(* Proofs about what watches a run from outside: the notifiers, for any    *)
(* number of monitors and runners, any symbols and any limits on attempts, *)
(* waits and records; and the forward evidence, for any collectors,        *)
(* readers, datasets, bar lengths and number of crashes.                   *)
(***************************************************************************)
EXTENDS NotificationDelivery, ForwardEvidence, FiniteSetTheorems, WellFoundedInduction, TLAPS

Jobs == [symbol : Symbols, note : Notifications]

Locals ==
    [pc : {"idle", "load", "send", "write"}, jobs : Seq(Jobs),
     view : SUBSET Notifications, attempt : 0..MaxAttempts, waited : 0..MaxTotalWait,
     unchanged : BOOLEAN, codes : Seq(Codes)]

StateTypes ==
    /\ summary \in Reports
    /\ deliveries \in [Symbols -> SUBSET Notifications]
    /\ accepted \in [Notifications -> 0..MaxPosts]
    /\ proc \in [Notifiers -> Locals]

(* Records of one symbol, of what Telegram took. *)
Real(records, s, took) ==
    /\ IsFiniteSet(records)
    /\ \A n \in records : n.symbol = s /\ took[n] > 0

(* A process that sends has read a state file with room for its record, and  *)
(* what it read stays true of what Telegram took, whatever the file holds by *)
(* the time it is written.                                                   *)
SendFacts(r, took) ==
    r.pc \in {"send", "write"} =>
        /\ Head(r.jobs).note.symbol = Head(r.jobs).symbol
        /\ Cardinality(r.view) < MaxRecords
        /\ r.attempt > 0
        /\ Real(r.view, Head(r.jobs).symbol, took)
        /\ r.pc = "write" => took[Head(r.jobs).note] > 0

HasJob(r) == r.pc # "idle" => r.jobs # << >>

DeliveryInv ==
    /\ StateTypes
    /\ \A s \in Symbols : Real(deliveries[s], s, accepted) /\ Cardinality(deliveries[s]) <= MaxRecords
    /\ \A p \in Notifiers : HasJob(proc[p]) /\ SendFacts(proc[p], accepted)

(* What Telegram took is never taken back. *)
Growth ==
    /\ accepted' \in [Notifications -> 0..MaxPosts]
    /\ \A n \in Notifications : accepted'[n] >= accepted[n]

(* p, and p alone, goes on with the locals r. *)
Goes(p, r) == r \in Locals /\ HasJob(r) /\ proc' = [proc EXCEPT ![p] = r]

LEMMA LeastNumber ==
    ASSUME NEW S \in SUBSET Nat, S # {}
    PROVE  \E x \in S : \A y \in S : x <= y
  <1>1. PICK x \in S : \A y \in S : ~(<<y, x>> \in OpToRel(<, Nat))
    BY WFMin, NatLessThanWellFounded
  <1>2. \A y \in S : ~(y < x)
    BY <1>1 DEF OpToRel
  <1> QED
    BY <1>2

LEMMA ConstantFacts ==
    ASSUME DeliveryAssumption
    PROVE  /\ MaxAttempts \in Nat \ {0} /\ MaxTotalWait \in Nat /\ MaxRecords \in Nat
           /\ MaxPosts \in Nat
           /\ Reports \in SUBSET Nat /\ Reports # {}
           /\ \A i \in 1..MaxAttempts - 1 : Backoff[i] \in Nat
           /\ \A w \in RetryAfters : w \in Nat
           /\ SymbolOrder \in Seq(Symbols) /\ SymbolOrder # << >>
           /\ IdleNotifier \in Locals
  <1>1. /\ MaxAttempts \in Nat \ {0} /\ MaxTotalWait \in Nat /\ MaxRecords \in Nat
        /\ MaxPosts \in Nat
        /\ Reports \in SUBSET Nat /\ Reports # {}
        /\ \A i \in 1..MaxAttempts - 1 : Backoff[i] \in Nat
        /\ \A w \in RetryAfters : w \in Nat
        /\ SymbolOrder \in Seq(Symbols) /\ SymbolOrder # << >>
    BY DEF DeliveryAssumption, Symbols
  <1>2. IdleNotifier \in Locals
    BY <1>1 DEF IdleNotifier, Locals
  <1> QED
    BY <1>1, <1>2

(* The first job of a process at work. *)
LEMMA JobTypes ==
    ASSUME StateTypes, NEW p \in Notifiers, HasJob(proc[p]), proc[p].pc # "idle"
    PROVE  /\ proc[p] \in Locals /\ proc[p].jobs \in Seq(Jobs) /\ proc[p].jobs # << >>
           /\ Job(p) \in Jobs /\ Job(p).symbol \in Symbols /\ Note(p) \in Notifications
           /\ StateFile(p) = deliveries[Job(p).symbol]
  <1>1. proc[p] \in Locals /\ proc[p].jobs \in Seq(Jobs) /\ proc[p].jobs # << >>
    BY DEF StateTypes, Locals, HasJob
  <1>2. Head(proc[p].jobs) \in Jobs
    BY <1>1
  <1> QED
    BY <1>1, <1>2 DEF Job, Note, StateFile, Jobs

(* A job that ends leaves a process idle or before its next job. *)
LEMMA FinishFacts ==
    ASSUME DeliveryAssumption, StateTypes, NEW p \in Notifiers, HasJob(proc[p]),
           proc[p].pc # "idle", NEW code \in Codes, Finish(p, code)
    PROVE  \E r : Goes(p, r) /\ r.pc \in {"idle", "load"}
                  /\ r.codes = Append(proc[p].codes, code)
  <1> DEFINE rest == Tail(proc[p].jobs)
             codes == Append(proc[p].codes, code)
             r == IF rest = << >> THEN [IdleNotifier EXCEPT !.codes = codes]
                  ELSE [IdleNotifier EXCEPT !.pc = "load", !.jobs = rest, !.codes = codes]
  <1>1. rest \in Seq(Jobs)
    BY JobTypes
  <1>2. codes \in Seq(Codes)
    <2>1. proc[p].codes \in Seq(Codes)
      BY JobTypes DEF Locals
    <2> QED
      BY <2>1
  <1>3. proc' = [proc EXCEPT ![p] = r]
    BY DEF Finish
  <1> HIDE DEF rest, codes
  <1>4. r \in Locals /\ HasJob(r) /\ r.pc \in {"idle", "load"} /\ r.codes = codes
    <2>1. CASE rest = << >>
      <3>1. r = [IdleNotifier EXCEPT !.codes = codes]
        BY <2>1
      <3> QED
        BY <3>1, <1>2, ConstantFacts DEF Locals, HasJob, IdleNotifier
    <2>2. CASE rest # << >>
      <3>1. r = [IdleNotifier EXCEPT !.pc = "load", !.jobs = rest, !.codes = codes]
        BY <2>2
      <3> QED
        BY <3>1, <2>2, <1>1, <1>2, ConstantFacts DEF Locals, HasJob, IdleNotifier
    <2> QED
      BY <2>1, <2>2
  <1> HIDE DEF r
  <1> QED
    BY <1>3, <1>4 DEF Goes, codes
(* What a process relies on stays true when Telegram takes more.             *)
LEMMA StaysReal ==
    ASSUME StateTypes, Growth, NEW records \in SUBSET Notifications, NEW s,
           Real(records, s, accepted)
    PROVE  Real(records, s, accepted')
  <1>1. \A n \in records : accepted[n] \in Nat /\ accepted'[n] \in Nat /\ accepted'[n] >= accepted[n]
    BY DEF StateTypes, Growth
  <1> QED
    BY <1>1 DEF Real

LEMMA StaysSent ==
    ASSUME StateTypes, Growth, NEW r \in Locals, HasJob(r), SendFacts(r, accepted)
    PROVE  SendFacts(r, accepted')
  <1> SUFFICES ASSUME r.pc \in {"send", "write"}
               PROVE  SendFacts(r, accepted')
    BY DEF SendFacts
  <1>1. r.view \in SUBSET Notifications /\ Head(r.jobs).note \in Notifications
    <2>1. r.view \in SUBSET Notifications /\ r.jobs \in Seq(Jobs) /\ r.jobs # << >>
      BY DEF Locals, HasJob
    <2>2. Head(r.jobs) \in Jobs
      BY <2>1
    <2> QED
      BY <2>1, <2>2 DEF Jobs
  <1>2. Real(r.view, Head(r.jobs).symbol, accepted')
    BY <1>1, StaysReal DEF SendFacts
  <1>3. r.pc = "write" => accepted'[Head(r.jobs).note] > 0
    <2> DEFINE n == Head(r.jobs).note
    <2>1. n \in Notifications /\ (r.pc = "write" => accepted[n] > 0)
      BY <1>1 DEF SendFacts
    <2> HIDE DEF n
    <2>2. accepted[n] \in Nat /\ accepted'[n] \in Nat /\ accepted'[n] >= accepted[n]
      BY <2>1 DEF StateTypes, Growth
    <2>3. r.pc = "write" => accepted'[n] > 0
      BY <2>1, <2>2
    <2> QED
      BY <2>3 DEF n
  <1> QED
    BY <1>2, <1>3 DEF SendFacts

LEMMA SameGrowth ==
    ASSUME StateTypes, UNCHANGED accepted
    PROVE  Growth
  <1>1. \A n \in Notifications : accepted[n] \in Nat
    BY DEF StateTypes
  <1> QED
    BY <1>1 DEF Growth, StateTypes

LEMMA AcceptGrowth ==
    ASSUME DeliveryAssumption, StateTypes, NEW p \in Notifiers, HasJob(proc[p]),
           proc[p].pc # "idle", Accept(p)
    PROVE  /\ Growth
           /\ accepted[Note(p)] \in Nat
           /\ accepted' = [accepted EXCEPT ![Note(p)] = accepted[Note(p)] + 1]
  <1> DEFINE m == Note(p)
  <1>1. m \in Notifications
    BY JobTypes
  <1>2. accepted[m] < MaxPosts /\ accepted' = [accepted EXCEPT ![m] = accepted[m] + 1]
    BY DEF Accept
  <1> HIDE DEF m
  <1>3. accepted \in [Notifications -> 0..MaxPosts] /\ MaxPosts \in Nat
    BY ConstantFacts DEF StateTypes
  <1>4. Growth
    BY <1>1, <1>2, <1>3 DEF Growth
  <1>5. accepted[m] \in Nat
    BY <1>1, <1>3
  <1> QED
    BY <1>2, <1>4, <1>5 DEF m

(* A load ends its job or begins to send what the state file does not hold.  *)
LEMMA LoadMoves ==
    ASSUME DeliveryAssumption, DeliveryInv, NEW p \in Notifiers,
           \/ LoadRejected(p) \/ LoadStorageError(p) \/ LoadDuplicate(p)
           \/ LoadNoCredentials(p) \/ LoadFull(p) \/ LoadSend(p)
    PROVE  /\ UNCHANGED <<summary, deliveries, accepted>>
           /\ proc[p].pc = "load"
           /\ \E r : /\ Goes(p, r) /\ SendFacts(r, accepted)
                     /\ \/ r.pc \in {"idle", "load"}
                        \/ /\ r.pc = "send" /\ r.jobs = proc[p].jobs
                           /\ r.view = StateFile(p) /\ ~Duplicate(p)
  <1>1. StateTypes /\ HasJob(proc[p])
    BY DEF DeliveryInv
  <1>2. UNCHANGED <<summary, deliveries, accepted>> /\ proc[p].pc = "load"
    BY DEF LoadRejected, LoadStorageError, LoadDuplicate, LoadNoCredentials, LoadFull, LoadSend
  <1>3. ASSUME NEW code \in Codes, Finish(p, code)
        PROVE  \E r : Goes(p, r) /\ SendFacts(r, accepted) /\ r.pc \in {"idle", "load"}
    <2>1. PICK r : Goes(p, r) /\ r.pc \in {"idle", "load"}
      BY <1>1, <1>2, <1>3, FinishFacts
    <2>2. SendFacts(r, accepted)
      BY <2>1 DEF SendFacts
    <2> QED
      BY <2>1, <2>2
  <1>4. CASE LoadRejected(p) \/ LoadDuplicate(p) \/ LoadNoCredentials(p) \/ LoadFull(p)
    <2>1. \E code \in Codes : Finish(p, code)
      BY <1>4 DEF LoadRejected, LoadDuplicate, LoadNoCredentials, LoadFull, Codes
    <2> QED
      BY <1>2, <1>3, <2>1
  <1>5. CASE LoadStorageError(p)
    <2>1. Goes(p, IdleNotifier) /\ SendFacts(IdleNotifier, accepted) /\ IdleNotifier.pc = "idle"
      BY <1>5, ConstantFacts DEF LoadStorageError, Goes, SendFacts, IdleNotifier, HasJob
    <2> QED
      BY <1>2, <2>1
  <1>6. CASE LoadSend(p)
    <2> DEFINE q == proc[p]
               r == [q EXCEPT !.pc = "send", !.view = StateFile(p), !.attempt = 1]
    <2>1. /\ Job(p).note.symbol = Job(p).symbol /\ ~Duplicate(p)
          /\ Cardinality(StateFile(p)) < MaxRecords
          /\ proc' = [proc EXCEPT ![p] = r]
      BY <1>6 DEF LoadSend, SourceAccepted, Room, Set
    <2>2. q \in Locals /\ HasJob(q) /\ StateFile(p) \in SUBSET Notifications
          /\ Real(StateFile(p), Job(p).symbol, accepted)
          /\ 1 \in 0..MaxAttempts /\ q.jobs # << >>
      BY <1>1, <1>2, JobTypes, ConstantFacts DEF DeliveryInv, StateTypes
    <2>3. Job(p) = Head(q.jobs)
      BY DEF Job
    <2> HIDE DEF q
    <2>4. r \in Locals /\ r.pc = "send" /\ r.view = StateFile(p) /\ r.jobs = q.jobs /\ r.attempt = 1
      BY <2>2 DEF Locals
    <2> HIDE DEF r
    <2>5. SendFacts(r, accepted)
      BY <2>1, <2>2, <2>3, <2>4 DEF SendFacts
    <2>6. Goes(p, r)
      BY <2>1, <2>2, <2>4 DEF Goes, HasJob
    <2> QED
      BY <1>2, <2>1, <2>4, <2>5, <2>6 DEF q
  <1> QED
    BY <1>4, <1>5, <1>6

(* Another attempt keeps within both bounds, or the job ends.                *)
LEMMA RetryMoves ==
    ASSUME DeliveryAssumption, DeliveryInv, NEW p \in Notifiers, proc[p].pc = "send",
           NEW wait, proc[p].attempt < MaxAttempts => wait \in Nat, Retry(p, wait)
    PROVE  \E r : /\ Goes(p, r) /\ SendFacts(r, accepted)
                  /\ \/ r.pc \in {"idle", "load"}
                     \/ r.pc = "send" /\ r.jobs = proc[p].jobs /\ r.view = proc[p].view
  <1> DEFINE q == proc[p]
             r == [q EXCEPT !.attempt = q.attempt + 1, !.waited = q.waited + wait]
  <1>1. StateTypes /\ HasJob(q) /\ q \in Locals /\ SendFacts(q, accepted)
    BY DEF DeliveryInv, StateTypes
  <1>2. CASE q.attempt < MaxAttempts /\ WaitFits(q.waited, wait)
    <2>1. q.waited + wait <= MaxTotalWait /\ proc' = [proc EXCEPT ![p] = r] /\ wait \in Nat
      BY <1>2 DEF Retry, WaitFits, Set
    <2>2. q.pc = "send"
      OBVIOUS
    <2>3. q.waited \in 0..MaxTotalWait /\ q.attempt \in 0..MaxAttempts
      BY <1>1 DEF Locals
    <2>4. q.waited + wait \in 0..MaxTotalWait /\ q.attempt + 1 \in 0..MaxAttempts
          /\ q.attempt + 1 > 0
      <3> DEFINE a == q.attempt
                 w == q.waited
      <3>1. /\ a \in 0..MaxAttempts /\ a < MaxAttempts /\ MaxAttempts \in Nat
            /\ w \in 0..MaxTotalWait /\ w + wait <= MaxTotalWait /\ MaxTotalWait \in Nat
            /\ wait \in Nat
        BY <1>2, <2>1, <2>3, ConstantFacts
      <3> HIDE DEF a, w
      <3>2. w + wait \in 0..MaxTotalWait /\ a + 1 \in 0..MaxAttempts /\ a + 1 > 0
        BY <3>1
      <3> QED
        BY <3>2 DEF a, w
    <2> HIDE DEF q
    <2>5. /\ r \in Locals /\ r.pc = "send" /\ r.jobs = q.jobs /\ r.view = q.view
          /\ r.attempt = q.attempt + 1
      BY <1>1, <2>2, <2>4 DEF Locals
    <2> HIDE DEF r
    <2>6. Goes(p, r) /\ SendFacts(r, accepted)
      BY <1>1, <2>1, <2>2, <2>4, <2>5 DEF Goes, HasJob, SendFacts
    <2> QED
      BY <2>5, <2>6 DEF q
  <1>3. CASE ~(q.attempt < MaxAttempts /\ WaitFits(q.waited, wait))
    <2>1. Finish(p, "DELIVERY_REJECTED") /\ "DELIVERY_REJECTED" \in Codes
      BY <1>3 DEF Retry, Codes
    <2>2. PICK t : Goes(p, t) /\ t.pc \in {"idle", "load"}
      BY <1>1, <2>1, FinishFacts
    <2>3. SendFacts(t, accepted)
      BY <2>2 DEF SendFacts
    <2> QED
      BY <2>2, <2>3
  <1> QED
    BY <1>2, <1>3

(* A post: the job stays before another attempt only if Telegram took        *)
(* nothing, and goes on to write only what Telegram took.                    *)
LEMMA SendMoves ==
    ASSUME DeliveryAssumption, DeliveryInv, NEW p \in Notifiers,
           \/ SendRefused(p) \/ SendLimited(p) \/ SendLost(p)
           \/ SendAnswerRejected(p) \/ SendAccepted(p)
    PROVE  /\ UNCHANGED <<summary, deliveries>> /\ Growth
           /\ proc[p].pc = "send"
           /\ \/ UNCHANGED accepted
              \/ accepted' = [accepted EXCEPT ![Note(p)] = accepted[Note(p)] + 1]
           /\ \E r : /\ Goes(p, r) /\ SendFacts(r, accepted')
                     /\ \/ r.pc \in {"idle", "load"}
                           /\ (UNCHANGED accepted \/ SendLost(p) \/ SendAnswerRejected(p))
                        \/ /\ r.pc = "send" /\ UNCHANGED accepted
                           /\ r.jobs = proc[p].jobs /\ r.view = proc[p].view
                        \/ /\ r.pc = "write"
                           /\ r.jobs = proc[p].jobs /\ r.view = proc[p].view
  <1>1. StateTypes /\ HasJob(proc[p]) /\ proc[p] \in Locals /\ SendFacts(proc[p], accepted)
    BY DEF DeliveryInv, StateTypes
  <1>2. UNCHANGED <<summary, deliveries>> /\ proc[p].pc = "send"
    BY DEF SendRefused, SendLimited, SendLost, SendAnswerRejected, SendAccepted
  <1>f. ASSUME NEW code \in Codes, Finish(p, code)
        PROVE  \E r : Goes(p, r) /\ SendFacts(r, accepted') /\ r.pc \in {"idle", "load"}
    <2>1. PICK r : Goes(p, r) /\ r.pc \in {"idle", "load"}
      BY <1>1, <1>2, <1>f, FinishFacts
    <2>2. SendFacts(r, accepted')
      BY <2>1 DEF SendFacts
    <2> QED
      BY <2>1, <2>2
  <1>3. CASE SendRefused(p) \/ SendLimited(p)
    <2>1. UNCHANGED accepted
      BY <1>3 DEF SendRefused, SendLimited
    <2>2. (\E wait : /\ proc[p].attempt < MaxAttempts => wait \in Nat
                     /\ Retry(p, wait))
          \/ Finish(p, "DELIVERY_REJECTED")
      <3>1. CASE SendRefused(p)
        <4> DEFINE wait == IF proc[p].attempt < MaxAttempts THEN Backoff[proc[p].attempt] ELSE 0
        <4>1. Retry(p, wait)
          BY <3>1 DEF SendRefused
        <4>2. proc[p].attempt < MaxAttempts => wait \in Nat
          <5>1. proc[p].attempt \in 0..MaxAttempts /\ proc[p].attempt > 0
            BY <1>1, <1>2 DEF Locals, SendFacts
          <5>2. proc[p].attempt < MaxAttempts => proc[p].attempt \in 1..MaxAttempts - 1
            BY <5>1, ConstantFacts
          <5> QED
            BY <5>2, ConstantFacts
        <4> QED
          BY <4>1, <4>2
      <3>2. CASE SendLimited(p)
        BY <3>2, ConstantFacts DEF SendLimited
      <3> QED
        BY <1>3, <3>1, <3>2
    <2>3. CASE Finish(p, "DELIVERY_REJECTED")
      <3>1. \E r : Goes(p, r) /\ SendFacts(r, accepted') /\ r.pc \in {"idle", "load"}
        BY <1>f, <2>3 DEF Codes
      <3> QED
        BY <1>1, <1>2, <2>1, <3>1, SameGrowth
    <2>4. CASE \E wait : /\ proc[p].attempt < MaxAttempts => wait \in Nat
                         /\ Retry(p, wait)
      <3>1. PICK wait : /\ proc[p].attempt < MaxAttempts => wait \in Nat
                        /\ Retry(p, wait)
        BY <2>4
      <3>2. \E r : /\ Goes(p, r) /\ SendFacts(r, accepted)
                   /\ \/ r.pc \in {"idle", "load"}
                      \/ r.pc = "send" /\ r.jobs = proc[p].jobs /\ r.view = proc[p].view
        BY <1>2, <3>1, RetryMoves
      <3> QED
        BY <1>1, <1>2, <2>1, <3>2, SameGrowth
    <2> QED
      BY <2>2, <2>3, <2>4
  <1>4. CASE SendLost(p) \/ SendAnswerRejected(p)
    <2>1. Accept(p) \/ UNCHANGED accepted
      BY <1>4 DEF SendLost, SendAnswerRejected
    <2>2. /\ Growth
          /\ \/ UNCHANGED accepted
             \/ accepted' = [accepted EXCEPT ![Note(p)] = accepted[Note(p)] + 1]
      BY <1>1, <1>2, <2>1, SameGrowth, AcceptGrowth
    <2>3. Finish(p, "DELIVERY_REJECTED") /\ "DELIVERY_REJECTED" \in Codes
      BY <1>4 DEF SendLost, SendAnswerRejected, TransportRejected, Codes
    <2>4. PICK r : Goes(p, r) /\ SendFacts(r, accepted') /\ r.pc \in {"idle", "load"}
      BY <1>f, <2>3
    <2> QED
      BY <1>2, <1>4, <2>2, <2>4
  <1>5. CASE SendAccepted(p)
    <2>1. Accept(p) /\ \E same \in BOOLEAN :
              Set(p, [proc[p] EXCEPT !.pc = "write", !.unchanged = same])
      BY <1>5 DEF SendAccepted
    <2>2. /\ Growth /\ accepted[Note(p)] \in Nat
          /\ accepted' = [accepted EXCEPT ![Note(p)] = accepted[Note(p)] + 1]
      BY <1>1, <1>2, <2>1, AcceptGrowth
    <2>3. PICK same \in BOOLEAN : proc' = [proc EXCEPT ![p] =
                                        [proc[p] EXCEPT !.pc = "write", !.unchanged = same]]
      BY <2>1 DEF Set
    <2> DEFINE q == proc[p]
               r == [q EXCEPT !.pc = "write", !.unchanged = same]
    <2>4. q \in Locals /\ q.pc = "send" /\ HasJob(q) /\ SendFacts(q, accepted')
      BY <1>1, <1>2, <2>2, StaysSent
    <2>5. accepted'[Head(q.jobs).note] > 0
      <3>1. Note(p) \in Notifications
        BY <1>1, <1>2, JobTypes
      <3>2. accepted'[Note(p)] = accepted[Note(p)] + 1
        BY <2>2, <3>1 DEF StateTypes, Growth
      <3> QED
        BY <2>2, <3>2 DEF Note, Job
    <2>6. proc' = [proc EXCEPT ![p] = r]
      BY <2>3
    <2> HIDE DEF q
    <2>7. r \in Locals /\ r.pc = "write" /\ r.jobs = q.jobs /\ r.view = q.view
          /\ r.attempt = q.attempt
      BY <2>4 DEF Locals
    <2> HIDE DEF r
    <2>8. Goes(p, r) /\ SendFacts(r, accepted')
      BY <2>4, <2>5, <2>6, <2>7 DEF Goes, HasJob, SendFacts
    <2> QED
      BY <1>2, <2>2, <2>7, <2>8 DEF q
  <1> QED
    BY <1>3, <1>4, <1>5

(* The state file a process writes holds what Telegram took, its own record  *)
(* included, and there was room for it.                                      *)
LEMMA WrittenIsReal ==
    ASSUME DeliveryAssumption, DeliveryInv, NEW p \in Notifiers, proc[p].pc = "write"
    PROVE  LET written == proc[p].view \cup {Note(p)}
           IN  /\ written \in SUBSET Notifications
               /\ Real(written, Job(p).symbol, accepted)
               /\ Cardinality(written) <= MaxRecords
  <1> DEFINE q == proc[p]
             n == Note(p)
             s == Job(p).symbol
             view == q.view
  <1>1. /\ q \in Locals /\ HasJob(q) /\ SendFacts(q, accepted) /\ StateTypes
        /\ n \in Notifications
    <2>1. StateTypes /\ HasJob(q) /\ SendFacts(q, accepted) /\ q.pc # "idle"
      BY DEF DeliveryInv
    <2> QED
      BY <2>1, JobTypes
  <1>2. /\ view \in SUBSET Notifications /\ IsFiniteSet(view) /\ Cardinality(view) < MaxRecords
        /\ \A m \in view : m.symbol = s /\ accepted[m] > 0
        /\ n.symbol = s /\ accepted[n] > 0
    BY <1>1 DEF SendFacts, Real, Locals, Note, Job
  <1> HIDE DEF view, n, s
  <1>3. /\ IsFiniteSet(view \cup {n})
        /\ Cardinality(view \cup {n}) = IF n \in view THEN Cardinality(view)
                                        ELSE Cardinality(view) + 1
    BY <1>2, FS_AddElement
  <1>4. Cardinality(view) \in Nat
    BY <1>2, FS_CardinalityType
  <1>5. Cardinality(view \cup {n}) <= MaxRecords
    BY <1>2, <1>3, <1>4, ConstantFacts
  <1>6. view \cup {n} \in SUBSET Notifications
    BY <1>1, <1>2
  <1>7. Real(view \cup {n}, s, accepted)
    BY <1>2, <1>3 DEF Real
  <1> QED
    BY <1>5, <1>6, <1>7 DEF view, n, s

(* A start takes jobs for known symbols; the report they tell of is the      *)
(* newest.                                                                   *)
LEMMA StartMoves ==
    ASSUME DeliveryAssumption, StateTypes, NEW p \in Notifiers,
           \/ p \in Monitors /\ StartMonitor(p)
           \/ p \in Runners /\ StartRunner(p)
    PROVE  /\ UNCHANGED <<summary, deliveries, accepted>>
           /\ proc[p].pc = "idle"
           /\ \E r : Goes(p, r) /\ r.pc = "load"
  <1>r. summary \in Reports
    BY DEF StateTypes
  <1>g. ASSUME NEW jobs \in Seq(Jobs), jobs # << >>,
               proc' = [proc EXCEPT ![p] = [IdleNotifier EXCEPT !.pc = "load", !.jobs = jobs]]
        PROVE  \E r : Goes(p, r) /\ r.pc = "load"
    <2> DEFINE r == [IdleNotifier EXCEPT !.pc = "load", !.jobs = jobs]
    <2>1. r \in Locals /\ r.pc = "load" /\ r.jobs = jobs
      BY ConstantFacts DEF Locals, IdleNotifier
    <2>2. proc' = [proc EXCEPT ![p] = r]
      BY <1>g
    <2> HIDE DEF r
    <2> QED
      BY <1>g, <2>1, <2>2 DEF Goes, HasJob
  <1>1. CASE StartMonitor(p)
    <2> DEFINE jobs == [i \in DOMAIN SymbolOrder |->
                          [symbol |-> SymbolOrder[i], note |-> ProjectStatus(SymbolOrder[i])]]
    <2>1. /\ proc' = [proc EXCEPT ![p] = [IdleNotifier EXCEPT !.pc = "load", !.jobs = jobs]]
          /\ UNCHANGED <<summary, deliveries, accepted>> /\ proc[p].pc = "idle"
      BY <1>1 DEF StartMonitor
    <2>2. SymbolOrder \in Seq(Symbols) /\ SymbolOrder # << >>
      BY ConstantFacts
    <2>3. \A i \in DOMAIN SymbolOrder : jobs[i] \in Jobs
      BY <1>r, <2>2 DEF Jobs, ProjectStatus, Notifications
    <2>4. jobs \in Seq(Jobs) /\ jobs # << >>
      <3>1. DOMAIN SymbolOrder = 1..Len(SymbolOrder) /\ Len(SymbolOrder) \in Nat
            /\ Len(SymbolOrder) # 0
        BY <2>2
      <3>2. DOMAIN jobs = 1..Len(SymbolOrder) /\ jobs = [i \in DOMAIN jobs |-> jobs[i]]
        BY <3>1
      <3> HIDE DEF jobs
      <3>3. jobs \in [1..Len(SymbolOrder) -> Jobs]
        BY <2>3, <3>1, <3>2
      <3> QED
        BY <3>1, <3>3
    <2> HIDE DEF jobs
    <2> QED
      BY <1>g, <2>1, <2>4
  <1>2. CASE StartRunner(p)
    <2>1. PICK s \in Symbols, n \in {ProjectStatus(t) : t \in Symbols} \cup {ProjectAlert} :
             proc' = [proc EXCEPT ![p] = [IdleNotifier EXCEPT !.pc = "load",
                         !.jobs = <<[symbol |-> s, note |-> n]>>]]
      BY <1>2 DEF StartRunner
    <2>2. n \in Notifications
      BY <1>r DEF ProjectStatus, ProjectAlert, Notifications
    <2>3. [symbol |-> s, note |-> n] \in Jobs
      BY <2>2 DEF Jobs
    <2> DEFINE jobs == <<[symbol |-> s, note |-> n]>>
    <2>4. jobs \in Seq(Jobs) /\ jobs # << >>
      BY <2>3
    <2>5. proc' = [proc EXCEPT ![p] = [IdleNotifier EXCEPT !.pc = "load", !.jobs = jobs]]
      BY <2>1
    <2>6. UNCHANGED <<summary, deliveries, accepted>> /\ proc[p].pc = "idle"
      BY <1>2 DEF StartRunner
    <2> HIDE DEF jobs
    <2> QED
      BY <1>g, <2>4, <2>5, <2>6
  <1> QED
    BY <1>1, <1>2

(* The end of a write and a death.                                           *)
LEMMA EndMoves ==
    ASSUME DeliveryAssumption, DeliveryInv, NEW p \in Notifiers,
           WriteState(p) \/ WriteFailed(p) \/ Killed(p)
    PROVE  /\ UNCHANGED <<summary, accepted>>
           /\ \/ UNCHANGED deliveries
              \/ /\ proc[p].pc = "write"
                 /\ deliveries' = [deliveries EXCEPT ![Job(p).symbol] = proc[p].view \cup {Note(p)}]
           /\ \E r : Goes(p, r) /\ r.pc \in {"idle", "load"}
  <1>1. StateTypes /\ HasJob(proc[p])
    BY DEF DeliveryInv
  <1>2. CASE WriteState(p)
    <2>1. Finish(p, Reported(p)) /\ Reported(p) \in Codes /\ proc[p].pc = "write"
          /\ deliveries' = [deliveries EXCEPT ![Job(p).symbol] = proc[p].view \cup {Note(p)}]
          /\ UNCHANGED <<summary, accepted>>
      BY <1>2 DEF WriteState, Reported, Codes
    <2>2. \E r : Goes(p, r) /\ r.pc \in {"idle", "load"}
      BY <1>1, <2>1, FinishFacts
    <2> QED
      BY <2>1, <2>2
  <1>3. CASE WriteFailed(p)
    <2>1. /\ Finish(p, "STORAGE_ERROR") /\ "STORAGE_ERROR" \in Codes /\ proc[p].pc = "write"
          /\ UNCHANGED <<summary, deliveries, accepted>>
      BY <1>3 DEF WriteFailed, Codes
    <2>2. \E r : Goes(p, r) /\ r.pc \in {"idle", "load"}
      BY <1>1, <2>1, FinishFacts
    <2> QED
      BY <2>1, <2>2
  <1>4. CASE Killed(p)
    <2>1. Goes(p, IdleNotifier) /\ IdleNotifier.pc = "idle" /\ UNCHANGED <<summary, deliveries, accepted>>
      BY <1>4, ConstantFacts DEF Killed, Goes, HasJob, IdleNotifier
    <2> QED
      BY <2>1
  <1> QED
    BY <1>2, <1>3, <1>4

(* What one process may do in a step.                                        *)
Onward(p, r) ==
    \/ r.pc \in {"idle", "load"}
    \/ /\ proc[p].pc = "load" /\ r.pc = "send" /\ UNCHANGED accepted
       /\ r.jobs = proc[p].jobs /\ r.view = StateFile(p) /\ ~Duplicate(p)
    \/ /\ proc[p].pc = "send" /\ r.pc = "send" /\ UNCHANGED accepted
       /\ r.jobs = proc[p].jobs /\ r.view = proc[p].view
    \/ /\ proc[p].pc = "send" /\ r.pc = "write"
       /\ r.jobs = proc[p].jobs /\ r.view = proc[p].view

Works(p) ==
    /\ Growth /\ summary' = summary
    /\ \E r : Goes(p, r) /\ SendFacts(r, accepted') /\ Onward(p, r)
    /\ \/ UNCHANGED deliveries
       \/ /\ proc[p].pc = "write"
          /\ deliveries' = [deliveries EXCEPT ![Job(p).symbol] = proc[p].view \cup {Note(p)}]
    /\ \/ UNCHANGED accepted
       \/ /\ proc[p].pc = "send"
          /\ accepted' = [accepted EXCEPT ![Note(p)] = accepted[Note(p)] + 1]

LEMMA EveryStep ==
    ASSUME DeliveryAssumption, DeliveryInv, DeliveryNext
    PROVE  NewReport \/ \E p \in Notifiers : Works(p)
  <1>t. StateTypes
    BY DEF DeliveryInv
  <1>i. \A r : r.pc \in {"idle", "load"} => SendFacts(r, accepted')
    BY DEF SendFacts
  <1>1. ASSUME NEW p \in Notifiers,
               \/ p \in Monitors /\ StartMonitor(p)
               \/ p \in Runners /\ StartRunner(p)
        PROVE  Works(p)
    <2>1. UNCHANGED <<summary, deliveries, accepted>> /\ \E r : Goes(p, r) /\ r.pc = "load"
      BY <1>1, <1>t, StartMoves
    <2> QED
      BY <1>t, <1>i, <2>1, SameGrowth DEF Works, Onward
  <1>2. ASSUME NEW p \in Notifiers,
               \/ LoadRejected(p) \/ LoadStorageError(p) \/ LoadDuplicate(p)
               \/ LoadNoCredentials(p) \/ LoadFull(p) \/ LoadSend(p)
        PROVE  Works(p)
    <2>1. UNCHANGED <<summary, deliveries, accepted>> /\ proc[p].pc = "load"
      BY <1>2, LoadMoves
    <2>2. PICK r : /\ Goes(p, r) /\ SendFacts(r, accepted)
                   /\ \/ r.pc \in {"idle", "load"}
                      \/ /\ r.pc = "send" /\ r.jobs = proc[p].jobs
                         /\ r.view = StateFile(p) /\ ~Duplicate(p)
      BY <1>2, LoadMoves
    <2>3. Onward(p, r) /\ SendFacts(r, accepted')
      BY <2>1, <2>2 DEF Onward
    <2> QED
      BY <1>t, <2>1, <2>2, <2>3, SameGrowth DEF Works
  <1>3. ASSUME NEW p \in Notifiers,
               \/ SendRefused(p) \/ SendLimited(p) \/ SendLost(p)
               \/ SendAnswerRejected(p) \/ SendAccepted(p)
        PROVE  Works(p)
    <2>1. /\ UNCHANGED <<summary, deliveries>> /\ Growth /\ proc[p].pc = "send"
          /\ \/ UNCHANGED accepted
             \/ accepted' = [accepted EXCEPT ![Note(p)] = accepted[Note(p)] + 1]
      BY <1>3, SendMoves
    <2>2. PICK r : /\ Goes(p, r) /\ SendFacts(r, accepted')
                   /\ \/ r.pc \in {"idle", "load"}
                      \/ /\ r.pc = "send" /\ UNCHANGED accepted
                         /\ r.jobs = proc[p].jobs /\ r.view = proc[p].view
                      \/ /\ r.pc = "write"
                         /\ r.jobs = proc[p].jobs /\ r.view = proc[p].view
      BY <1>3, SendMoves
    <2>3. Onward(p, r)
      BY <2>1, <2>2 DEF Onward
    <2> QED
      BY <2>1, <2>2, <2>3 DEF Works
  <1>4. ASSUME NEW p \in Notifiers, WriteState(p) \/ WriteFailed(p) \/ Killed(p)
        PROVE  Works(p)
    <2>1. /\ UNCHANGED <<summary, accepted>>
          /\ \/ UNCHANGED deliveries
             \/ /\ proc[p].pc = "write"
                /\ deliveries' = [deliveries EXCEPT ![Job(p).symbol] = proc[p].view \cup {Note(p)}]
          /\ \E r : Goes(p, r) /\ r.pc \in {"idle", "load"}
      BY <1>4, EndMoves
    <2> QED
      BY <1>t, <1>i, <2>1, SameGrowth DEF Works, Onward
  <1> QED
    BY <1>1, <1>2, <1>3, <1>4 DEF DeliveryNext, NotifierStep, Notifiers

(* The invariant is inductive.                                               *)
LEMMA DeliveryInitial ==
    ASSUME DeliveryAssumption, DeliveryInit
    PROVE  DeliveryInv
  <1>1. summary \in Reports
    <2>1. \E r \in Reports : \A q \in Reports : r <= q
      BY ConstantFacts, LeastNumber
    <2> QED
      BY <2>1 DEF DeliveryInit
  <1>2. StateTypes
    BY <1>1, ConstantFacts DEF DeliveryInit, StateTypes
  <1>3. \A s \in Symbols : Real(deliveries[s], s, accepted) /\ Cardinality(deliveries[s]) <= MaxRecords
    BY ConstantFacts, FS_EmptySet DEF DeliveryInit, Real
  <1>4. \A p \in Notifiers : HasJob(proc[p]) /\ SendFacts(proc[p], accepted)
    BY DEF DeliveryInit, IdleNotifier, HasJob, SendFacts
  <1> QED
    BY <1>2, <1>3, <1>4 DEF DeliveryInv

LEMMA WorkInv ==
    ASSUME DeliveryAssumption, DeliveryInv, NEW p \in Notifiers, Works(p)
    PROVE  DeliveryInv'
  <1>t. StateTypes /\ Growth
    BY DEF DeliveryInv, Works
  <1>p. PICK r : Goes(p, r) /\ SendFacts(r, accepted')
    BY DEF Works
  <1>1. \A q \in Notifiers : HasJob(proc'[q]) /\ SendFacts(proc'[q], accepted')
    <2> TAKE q \in Notifiers
    <2>1. proc'[q] = IF q = p THEN r ELSE proc[q]
      BY <1>t, <1>p DEF Goes, StateTypes
    <2>2. proc[q] \in Locals /\ HasJob(proc[q]) /\ SendFacts(proc[q], accepted)
      BY DEF DeliveryInv, StateTypes
    <2>3. SendFacts(proc[q], accepted')
      BY <1>t, <2>2, StaysSent
    <2> QED
      BY <1>p, <2>1, <2>2, <2>3 DEF Goes
  <1>2. \A s \in Symbols : /\ deliveries'[s] \in SUBSET Notifications
                           /\ Real(deliveries'[s], s, accepted')
                           /\ Cardinality(deliveries'[s]) <= MaxRecords
    <2> TAKE s \in Symbols
    <2>1. /\ deliveries[s] \in SUBSET Notifications
          /\ Real(deliveries[s], s, accepted) /\ Cardinality(deliveries[s]) <= MaxRecords
      BY DEF DeliveryInv, StateTypes
    <2>2. CASE deliveries'[s] = deliveries[s]
      BY <1>t, <2>1, <2>2, StaysReal
    <2>3. CASE deliveries'[s] # deliveries[s]
      <3> DEFINE written == proc[p].view \cup {Note(p)}
      <3>1. proc[p].pc = "write" /\ deliveries' = [deliveries EXCEPT ![Job(p).symbol] = written]
        BY <2>3 DEF Works
      <3>2. /\ written \in SUBSET Notifications
            /\ Real(written, Job(p).symbol, accepted)
            /\ Cardinality(written) <= MaxRecords
        BY <3>1, WrittenIsReal
      <3> HIDE DEF written
      <3>3. s = Job(p).symbol /\ deliveries'[s] = written
        BY <1>t, <2>3, <3>1 DEF StateTypes
      <3> QED
        BY <1>t, <3>2, <3>3, StaysReal
    <2> QED
      BY <2>2, <2>3
  <1>3. StateTypes'
    <2>1. summary' \in Reports /\ accepted' \in [Notifications -> 0..MaxPosts]
      BY <1>t DEF Works, StateTypes, Growth
    <2>2. deliveries' \in [Symbols -> SUBSET Notifications]
      <3>1. deliveries' = [s \in Symbols |-> deliveries'[s]]
        BY <1>t DEF Works, StateTypes
      <3> QED
        BY <1>2, <3>1
    <2>3. proc' \in [Notifiers -> Locals]
      BY <1>t, <1>p DEF Goes, StateTypes
    <2> QED
      BY <2>1, <2>2, <2>3 DEF StateTypes
  <1> QED
    BY <1>1, <1>2, <1>3 DEF DeliveryInv

LEMMA DeliveryInvariant ==
    ASSUME DeliveryAssumption
    PROVE  DeliverySpec => []DeliveryInv
  <1>1. DeliveryInit => DeliveryInv
    BY DeliveryInitial
  <1>2. DeliveryInv /\ [DeliveryNext]_deliveryVars => DeliveryInv'
    <2> SUFFICES ASSUME DeliveryInv, [DeliveryNext]_deliveryVars
                 PROVE  DeliveryInv'
      OBVIOUS
    <2>1. CASE UNCHANGED deliveryVars
      BY <2>1 DEF deliveryVars, DeliveryInv, StateTypes
    <2>2. CASE NewReport
      BY <2>2 DEF NewReport, DeliveryInv, StateTypes
    <2>3. ASSUME NEW p \in Notifiers, Works(p) PROVE DeliveryInv'
      BY <2>3, WorkInv
    <2> QED
      BY <2>1, <2>2, <2>3, EveryStep
  <1> QED
    BY <1>1, <1>2, PTL DEF DeliverySpec
(* delivery.py and runner.py: a state file records only what Telegram took,  *)
(* of its own symbol and within its limit, although a second process may     *)
(* write over it; and the waits of a send never exceed MAX_TOTAL_WAIT.       *)
THEOREM DeliveryTheorem ==
    ASSUME DeliveryAssumption
    PROVE  DeliverySpec => [](DeliveryTypes /\ RecordsAreReal /\ WaitsBounded)
  <1>1. ASSUME DeliveryInv PROVE RecordsAreReal
    BY <1>1 DEF DeliveryInv, RecordsAreReal, Real
  <1>2. ASSUME DeliveryInv PROVE WaitsBounded
    <2> SUFFICES ASSUME NEW p \in Notifiers PROVE proc[p].waited <= MaxTotalWait
      BY DEF WaitsBounded
    <2>1. proc[p].waited \in 0..MaxTotalWait /\ MaxTotalWait \in Nat
      BY <1>2, ConstantFacts DEF DeliveryInv, StateTypes, Locals
    <2> QED
      BY <2>1
  <1>3. ASSUME DeliveryInv PROVE DeliveryTypes
    <2>1. \A p \in Notifiers : Range(proc[p].codes) \subseteq Codes
      <3> TAKE p \in Notifiers
      <3>1. proc[p].codes \in Seq(Codes)
        BY <1>3 DEF DeliveryInv, StateTypes, Locals
      <3> QED
        BY <3>1 DEF Range
    <2> QED
      BY <1>3, <2>1 DEF DeliveryInv, StateTypes, Locals, DeliveryTypes
  <1> QED
    BY <1>1, <1>2, <1>3, DeliveryInvariant, PTL

(* guarded_send: the post that Telegram took is the last of its send.        *)
THEOREM OnePostTheorem ==
    ASSUME DeliveryAssumption
    PROVE  DeliverySpec => OnePostPerSend
  <1>1. ASSUME DeliveryInv, [DeliveryNext]_deliveryVars PROVE OnePostPerSendStep
    <2> SUFFICES ASSUME NEW p \in Notifiers, NEW n \in Notifications,
                        accepted'[n] > accepted[n], proc[p] # proc'[p]
                 PROVE  proc'[p].pc # "send"
      BY DEF OnePostPerSendStep
    <2>t. StateTypes
      BY <1>1 DEF DeliveryInv
    <2>a. accepted[n] \in Nat
      BY <2>t DEF StateTypes
    <2>1. ~(UNCHANGED accepted)
      BY <2>a
    <2>2. PICK q \in Notifiers : Works(q)
      BY <1>1, <2>1, EveryStep DEF deliveryVars, NewReport
    <2>3. PICK r : Goes(q, r) /\ Onward(q, r)
      BY <2>2 DEF Works
    <2>4. p = q /\ proc'[p] = r
      BY <2>t, <2>3 DEF Goes, StateTypes
    <2> QED
      BY <2>1, <2>3, <2>4 DEF Onward
  <1> QED
    BY <1>1, DeliveryInvariant, PTL DEF DeliverySpec, OnePostPerSend

(* runner.py: a job that ended without a storage error has recorded what it  *)
(* was told of, for any number of notifiers.                                 *)
THEOREM AcknowledgedTheorem ==
    ASSUME DeliveryAssumption
    PROVE  DeliverySpec => AcknowledgedIsRecorded
  <1>1. ASSUME DeliveryInv, [DeliveryNext]_deliveryVars PROVE AcknowledgedIsRecordedStep
    <2> SUFFICES ASSUME NEW p \in Notifiers,
                        proc[p].pc = "write", proc'[p].pc # "write",
                        proc'[p].codes # << >>, Last(proc'[p].codes) # "STORAGE_ERROR"
                 PROVE  Note(p) \in deliveries'[Job(p).symbol]
      BY DEF AcknowledgedIsRecordedStep
    <2>t. StateTypes /\ HasJob(proc[p])
      BY <1>1 DEF DeliveryInv
    <2>0. ~(UNCHANGED proc)
      OBVIOUS
    <2>1. ASSUME NEW q \in Notifiers, NEW r, Goes(q, r) PROVE q = p /\ proc'[p] = r
      <3>1. q = p
        BY <2>t, <2>1 DEF Goes, StateTypes
      <3> QED
        BY <2>t, <2>1, <3>1 DEF Goes, StateTypes
    <2>2. ASSUME NEW q \in Notifiers, proc[q].pc # "write", NEW r, Goes(q, r) PROVE FALSE
      BY <2>1, <2>2
    <2>s. ASSUME NEW q \in Notifiers,
                 \/ q \in Monitors /\ StartMonitor(q)
                 \/ q \in Runners /\ StartRunner(q)
          PROVE  FALSE
      <3>1. proc[q].pc = "idle" /\ \E r : Goes(q, r)
        BY <2>t, <2>s, StartMoves
      <3> QED
        BY <2>2, <3>1
    <2>l. ASSUME NEW q \in Notifiers,
                 \/ LoadRejected(q) \/ LoadStorageError(q) \/ LoadDuplicate(q)
                 \/ LoadNoCredentials(q) \/ LoadFull(q) \/ LoadSend(q)
          PROVE  FALSE
      <3>1. proc[q].pc = "load" /\ \E r : Goes(q, r)
        BY <1>1, <2>l, LoadMoves
      <3> QED
        BY <2>2, <3>1
    <2>p. ASSUME NEW q \in Notifiers,
                 \/ SendRefused(q) \/ SendLimited(q) \/ SendLost(q)
                 \/ SendAnswerRejected(q) \/ SendAccepted(q)
          PROVE  FALSE
      <3>1. proc[q].pc = "send" /\ \E r : Goes(q, r)
        BY <1>1, <2>p, SendMoves
      <3> QED
        BY <2>2, <3>1
    <2>3. ASSUME NEW q \in Notifiers, Killed(q) PROVE FALSE
      <3>1. Goes(q, IdleNotifier)
        BY <2>3, ConstantFacts DEF Killed, Goes, HasJob, IdleNotifier
      <3>2. proc'[p] = IdleNotifier
        BY <2>1, <3>1
      <3> QED
        BY <3>2 DEF IdleNotifier
    <2>4. ASSUME NEW q \in Notifiers, WriteFailed(q) PROVE FALSE
      <3>1. Finish(q, "STORAGE_ERROR") /\ proc[q].pc # "idle" /\ "STORAGE_ERROR" \in Codes
        BY <2>4 DEF WriteFailed, Codes
      <3>2. HasJob(proc[q])
        BY <1>1 DEF DeliveryInv
      <3>3. PICK r : Goes(q, r) /\ r.codes = Append(proc[q].codes, "STORAGE_ERROR")
        BY <2>t, <3>1, <3>2, FinishFacts
      <3>4. proc[q].codes \in Seq(Codes)
        BY <2>t DEF StateTypes, Locals
      <3>5. Last(r.codes) = "STORAGE_ERROR"
        BY <3>3, <3>4 DEF Last
      <3> QED
        BY <2>1, <3>3, <3>5
    <2>5. ASSUME NEW q \in Notifiers, WriteState(q)
          PROVE  Note(p) \in deliveries'[Job(p).symbol]
      <3>1. /\ Finish(q, Reported(q)) /\ Reported(q) \in Codes /\ proc[q].pc = "write"
            /\ deliveries' = [deliveries EXCEPT ![Job(q).symbol] = proc[q].view \cup {Note(q)}]
        BY <2>5 DEF WriteState, Reported, Codes
      <3>2. HasJob(proc[q])
        BY <1>1 DEF DeliveryInv
      <3>3. PICK r : Goes(q, r)
        BY <2>t, <3>1, <3>2, FinishFacts
      <3>4. q = p
        BY <2>1, <3>3
      <3>5. Job(p).symbol \in Symbols
        BY <2>t, JobTypes
      <3> QED
        BY <2>t, <3>1, <3>4, <3>5 DEF StateTypes
    <2>6. DeliveryNext /\ ~NewReport
      BY <1>1, <2>0 DEF deliveryVars, NewReport
    <2> QED
      BY <2>6, <2>s, <2>l, <2>p, <2>3, <2>4, <2>5 DEF DeliveryNext, NotifierStep, Notifiers
  <1> QED
    BY <1>1, DeliveryInvariant, PTL DEF DeliverySpec, AcknowledgedIsRecorded
-----------------------------------------------------------------------------
(* One notifier at a time *)

(* The file is still what the process has read, and does not hold its        *)
(* notification.                                                             *)
ViewIsFile ==
    \A p \in Notifiers :
        proc[p].pc \in {"send", "write"} => proc[p].view = StateFile(p) /\ ~Duplicate(p)

LEMMA ViewStep ==
    ASSUME DeliveryAssumption, Alone, DeliveryInv, ViewIsFile, NEW p \in Notifiers, Works(p)
    PROVE  ViewIsFile'
  <1>t. StateTypes
    BY DEF DeliveryInv
  <1>1. PICK r : Goes(p, r) /\ Onward(p, r)
    BY DEF Works
  <1>2. \A q \in Notifiers : q = p
    BY DEF Alone
  <1>3. proc'[p] = r
    BY <1>t, <1>1 DEF Goes, StateTypes
  <1> SUFFICES ASSUME r.pc \in {"send", "write"}
               PROVE  r.view = (StateFile(p))' /\ (~Duplicate(p))'
    BY <1>2, <1>3 DEF ViewIsFile
  <1>4. /\ r.jobs = proc[p].jobs /\ proc[p].pc \in {"load", "send"}
        /\ r.view = StateFile(p) /\ ~Duplicate(p)
    BY <1>1 DEF Onward, ViewIsFile
  <1>5. UNCHANGED deliveries
    BY <1>4 DEF Works
  <1>6. (StateFile(p))' = StateFile(p) /\ (Note(p))' = Note(p)
    BY <1>3, <1>4, <1>5 DEF StateFile, Note, Job
  <1> QED
    BY <1>4, <1>6 DEF Duplicate

LEMMA AloneInvariant ==
    ASSUME DeliveryAssumption, Alone
    PROVE  DeliverySpec => []ViewIsFile
  <1>1. DeliveryInit => ViewIsFile
    BY DEF DeliveryInit, ViewIsFile, IdleNotifier
  <1>2. DeliveryInv /\ ViewIsFile /\ [DeliveryNext]_deliveryVars => ViewIsFile'
    <2> SUFFICES ASSUME DeliveryInv, ViewIsFile, [DeliveryNext]_deliveryVars
                 PROVE  ViewIsFile'
      OBVIOUS
    <2>1. CASE UNCHANGED <<deliveries, proc>>
      BY <2>1 DEF ViewIsFile, StateFile, Duplicate, Note, Job
    <2>2. ASSUME NEW p \in Notifiers, Works(p) PROVE ViewIsFile'
      BY <2>2, ViewStep
    <2> QED
      BY <2>1, <2>2, EveryStep DEF deliveryVars, NewReport
  <1> QED
    BY <1>1, <1>2, DeliveryInvariant, PTL DEF DeliverySpec

(* guarded_send's duplicate check: what the file records is never posted     *)
(* again and never lost, through any crashes and restarts of one notifier.   *)
THEOREM RecordedTheorem ==
    ASSUME DeliveryAssumption, Alone
    PROVE  DeliverySpec => RecordedNotPosted
  <1>1. ASSUME DeliveryInv, ViewIsFile, [DeliveryNext]_deliveryVars PROVE RecordedNotPostedStep
    <2> SUFFICES ASSUME NEW s \in Symbols, NEW n \in deliveries[s]
                 PROVE  accepted'[n] = accepted[n] /\ n \in deliveries'[s]
      BY DEF RecordedNotPostedStep
    <2>t. StateTypes /\ n \in Notifications /\ n.symbol = s
      BY <1>1 DEF DeliveryInv, StateTypes, Real
    <2>1. CASE UNCHANGED <<deliveries, accepted>>
      BY <2>1
    <2>2. ASSUME NEW p \in Notifiers, Works(p)
          PROVE  accepted'[n] = accepted[n] /\ n \in deliveries'[s]
      <3>1. accepted'[n] = accepted[n]
        <4>1. CASE UNCHANGED accepted
          BY <4>1
        <4>2. CASE ~(UNCHANGED accepted)
          <5>1. /\ proc[p].pc = "send"
                /\ accepted' = [accepted EXCEPT ![Note(p)] = accepted[Note(p)] + 1]
            BY <2>2, <4>2 DEF Works
          <5>2. Note(p).symbol = Job(p).symbol /\ Note(p) \notin deliveries[Job(p).symbol]
            BY <1>1, <5>1 DEF DeliveryInv, SendFacts, ViewIsFile, Duplicate, StateFile, Note, Job
          <5>3. Note(p) # n
            BY <2>t, <5>2
          <5> QED
            BY <2>t, <5>1, <5>3 DEF StateTypes
        <4> QED
          BY <4>1, <4>2
      <3>2. n \in deliveries'[s]
        <4>1. CASE UNCHANGED deliveries
          BY <4>1
        <4>2. CASE ~(UNCHANGED deliveries)
          <5>1. /\ proc[p].pc = "write"
                /\ deliveries' = [deliveries EXCEPT ![Job(p).symbol] = proc[p].view \cup {Note(p)}]
            BY <2>2, <4>2 DEF Works
          <5>2. proc[p].view = deliveries[Job(p).symbol]
            BY <1>1, <5>1 DEF ViewIsFile, StateFile
          <5>3. CASE s = Job(p).symbol
            BY <2>t, <5>1, <5>2, <5>3 DEF StateTypes
          <5>4. CASE s # Job(p).symbol
            BY <2>t, <5>1, <5>4 DEF StateTypes
          <5> QED
            BY <5>3, <5>4
        <4> QED
          BY <4>1, <4>2
      <3> QED
        BY <3>1, <3>2
    <2> QED
      BY <1>1, <2>1, <2>2, EveryStep DEF deliveryVars, NewReport
  <1> QED
    BY <1>1, DeliveryInvariant, AloneInvariant, PTL DEF DeliverySpec, RecordedNotPosted
-----------------------------------------------------------------------------
(* One notifier, no faults, and a service whose every answer says what it did *)

Writing(n) == \E p \in Notifiers : proc[p].pc = "write" /\ Note(p) = n

(* What Telegram took, once, is in its symbol's file or about to be written. *)
CalmInv ==
    \A n \in Notifications :
        /\ accepted[n] <= 1
        /\ accepted[n] > 0 => (n.symbol \in Symbols /\ n \in deliveries[n.symbol]) \/ Writing(n)

(* A post taken leads to the write of its record, which ends the job.        *)
LEMMA CalmMoves ==
    ASSUME DeliveryAssumption, Calm, DeliveryInv, NEW p \in Notifiers, NotifierStep(p)
    PROVE  \/ proc[p].pc # "write" /\ UNCHANGED <<deliveries, accepted>>
           \/ /\ proc[p].pc = "send" /\ UNCHANGED deliveries
              /\ accepted' = [accepted EXCEPT ![Note(p)] = accepted[Note(p)] + 1]
              /\ proc'[p].pc = "write" /\ proc'[p].jobs = proc[p].jobs
           \/ /\ proc[p].pc = "write" /\ UNCHANGED accepted
              /\ deliveries' = [deliveries EXCEPT ![Job(p).symbol] = proc[p].view \cup {Note(p)}]
  <1>1. CASE \/ LoadRejected(p) \/ LoadStorageError(p) \/ LoadDuplicate(p)
             \/ LoadNoCredentials(p) \/ LoadFull(p) \/ LoadSend(p)
    <2>1. UNCHANGED <<deliveries, accepted>> /\ proc[p].pc = "load"
      BY <1>1, LoadMoves
    <2> QED
      BY <2>1
  <1>2. CASE SendRefused(p) \/ SendLimited(p)
    <2>1. UNCHANGED <<deliveries, accepted>> /\ proc[p].pc = "send"
      BY <1>2 DEF SendRefused, SendLimited
    <2> QED
      BY <2>1
  <1>3. CASE SendLost(p) \/ SendAnswerRejected(p) \/ WriteFailed(p)
    BY <1>3 DEF SendLost, SendAnswerRejected, WriteFailed, Calm
  <1>4. CASE SendAccepted(p)
    <2>t. StateTypes /\ HasJob(proc[p]) /\ proc[p] \in Locals
      BY DEF DeliveryInv, StateTypes
    <2>1. proc[p].pc = "send" /\ UNCHANGED deliveries /\ Accept(p)
      BY <1>4 DEF SendAccepted
    <2>2. accepted' = [accepted EXCEPT ![Note(p)] = accepted[Note(p)] + 1]
      BY <2>t, <2>1, AcceptGrowth
    <2>3. PICK same \in BOOLEAN :
              proc' = [proc EXCEPT ![p] = [proc[p] EXCEPT !.pc = "write", !.unchanged = same]]
      BY <1>4 DEF SendAccepted, Set
    <2>4. proc'[p] = [proc[p] EXCEPT !.pc = "write", !.unchanged = same]
      BY <2>t, <2>3 DEF StateTypes
    <2>5. proc'[p].pc = "write" /\ proc'[p].jobs = proc[p].jobs
      BY <2>t, <2>4 DEF Locals
    <2> QED
      BY <2>1, <2>2, <2>5
  <1>5. CASE WriteState(p)
    BY <1>5 DEF WriteState
  <1> QED
    BY <1>1, <1>2, <1>3, <1>4, <1>5 DEF NotifierStep

LEMMA CalmStep ==
    ASSUME DeliveryAssumption, Calm, DeliveryInv, ViewIsFile, CalmInv,
           NEW p \in Notifiers, NotifierStep(p), NEW n \in Notifications
    PROVE  (/\ accepted[n] <= 1
            /\ accepted[n] > 0 => (n.symbol \in Symbols /\ n \in deliveries[n.symbol]) \/ Writing(n))'
  <1>t. StateTypes /\ HasJob(proc[p]) /\ SendFacts(proc[p], accepted)
    BY DEF DeliveryInv
  <1>n. accepted[n] \in Nat
    BY <1>t DEF StateTypes
  <1>a. \A q \in Notifiers : q = p
    BY DEF Calm, Alone
  <1>i. /\ accepted[n] <= 1
        /\ accepted[n] > 0 => (n.symbol \in Symbols /\ n \in deliveries[n.symbol])
                              \/ (proc[p].pc = "write" /\ Note(p) = n)
    BY <1>a DEF CalmInv, Writing
  <1>1. CASE proc[p].pc # "write" /\ UNCHANGED <<deliveries, accepted>>
    BY <1>1, <1>i
  <1>2. CASE /\ proc[p].pc = "send" /\ UNCHANGED deliveries
             /\ accepted' = [accepted EXCEPT ![Note(p)] = accepted[Note(p)] + 1]
             /\ proc'[p].pc = "write" /\ proc'[p].jobs = proc[p].jobs
    <2>1. CASE n = Note(p)
      <3>1. n.symbol = Job(p).symbol /\ n \notin deliveries[Job(p).symbol]
        BY <1>t, <1>2, <2>1 DEF SendFacts, ViewIsFile, Duplicate, StateFile, Note, Job
      <3>2. ~(accepted[n] > 0)
        BY <1>i, <1>2, <3>1
      <3>3. accepted'[n] = accepted[n] + 1
        BY <1>t, <1>2, <2>1 DEF StateTypes
      <3>4. accepted'[n] <= 1
        BY <1>n, <3>2, <3>3
      <3>5. (Writing(n))'
        BY <1>2, <2>1 DEF Writing, Note, Job
      <3> QED
        BY <3>4, <3>5
    <2>2. CASE n # Note(p)
      <3>1. accepted'[n] = accepted[n]
        BY <1>t, <1>2, <2>2 DEF StateTypes
      <3> QED
        BY <1>2, <1>i, <3>1
    <2> QED
      BY <2>1, <2>2
  <1>3. CASE /\ proc[p].pc = "write" /\ UNCHANGED accepted
             /\ deliveries' = [deliveries EXCEPT ![Job(p).symbol] = proc[p].view \cup {Note(p)}]
    <2>1. /\ Note(p).symbol = Job(p).symbol /\ Job(p).symbol \in Symbols
          /\ proc[p].view = deliveries[Job(p).symbol]
      BY <1>t, <1>3, JobTypes DEF SendFacts, ViewIsFile, StateFile, Note, Job
    <2>2. CASE n = Note(p)
      BY <1>t, <1>3, <1>i, <2>1, <2>2 DEF StateTypes
    <2>3. CASE n # Note(p) /\ n.symbol = Job(p).symbol
      BY <1>t, <1>3, <1>i, <2>1, <2>3 DEF StateTypes
    <2>4. CASE n # Note(p) /\ n.symbol # Job(p).symbol
      BY <1>t, <1>3, <1>i, <2>1, <2>4 DEF StateTypes
    <2> QED
      BY <2>2, <2>3, <2>4
  <1> QED
    BY <1>1, <1>2, <1>3, CalmMoves

(* A notifier that is not killed, writes that succeed, and a service that    *)
(* says what it did: every notification is posted at most once.              *)
THEOREM AtMostOnceTheorem ==
    ASSUME DeliveryAssumption, Calm
    PROVE  DeliverySpec => []AtMostOnce
  <1>1. DeliveryInit => CalmInv
    <2> SUFFICES ASSUME DeliveryInit PROVE CalmInv
      OBVIOUS
    <2>1. \A n \in Notifications : accepted[n] = 0
      BY DEF DeliveryInit
    <2> QED
      BY <2>1 DEF CalmInv
  <1>2. DeliveryInv /\ ViewIsFile /\ CalmInv /\ [DeliveryNext]_deliveryVars => CalmInv'
    <2> SUFFICES ASSUME DeliveryInv, ViewIsFile, CalmInv, [DeliveryNext]_deliveryVars
                 PROVE  CalmInv'
      OBVIOUS
    <2>1. CASE UNCHANGED <<deliveries, accepted, proc>>
      BY <2>1 DEF CalmInv, Writing, Note, Job
    <2>2. ASSUME NEW p \in Notifiers,
                 \/ p \in Monitors /\ StartMonitor(p)
                 \/ p \in Runners /\ StartRunner(p)
          PROVE  CalmInv'
      <3>1. UNCHANGED <<deliveries, accepted>> /\ proc[p].pc = "idle"
        BY <2>2, StartMoves DEF DeliveryInv
      <3>2. \A n \in Notifications : ~Writing(n)
        BY <3>1 DEF Writing, Calm, Alone
      <3> QED
        BY <3>1, <3>2 DEF CalmInv
    <2>3. ASSUME NEW p \in Notifiers, NotifierStep(p) PROVE CalmInv'
      BY <2>3, CalmStep DEF CalmInv
    <2>4. ASSUME NEW p \in Notifiers PROVE ~Killed(p)
      BY DEF Calm, Killed
    <2> QED
      BY <2>1, <2>2, <2>3, <2>4 DEF DeliveryNext, NewReport, deliveryVars, Notifiers
  <1>3. CalmInv => AtMostOnce
    BY DEF CalmInv, AtMostOnce
  <1>4. Alone
    BY DEF Calm
  <1> QED
    BY <1>1, <1>2, <1>3, <1>4, DeliveryInvariant, AloneInvariant, PTL DEF DeliverySpec

(* send_monitor_notifications, guarded_send: for any notifiers, faults and   *)
(* answers a record stands for a post that Telegram took and no send waits   *)
(* longer than its bound; undisturbed, every status is posted once.          *)
THEOREM DeliveryBoundedTheorem ==
    ASSUME DeliveryAssumption
    PROVE  DeliverySpec => []DeliveryIsBounded
  <1>1. CASE Calm
    <2>1. DeliverySpec => []AtMostOnce
      BY <1>1, AtMostOnceTheorem
    <2>2. RecordsAreReal /\ WaitsBounded /\ AtMostOnce => DeliveryIsBounded
      BY DEF DeliveryIsBounded
    <2> QED
      BY <2>1, <2>2, DeliveryTheorem, PTL
  <1>2. CASE ~Calm
    <2>1. RecordsAreReal /\ WaitsBounded => DeliveryIsBounded
      BY <1>2 DEF DeliveryIsBounded
    <2> QED
      BY <2>1, DeliveryTheorem, PTL
  <1> QED
    BY <1>1, <1>2

(* guarded_send, _write_delivery_state: one post per send, the record        *)
(* written before the next, and by a notifier that is alone nothing recorded *)
(* is posted again, crashes included.                                        *)
THEOREM PostsGuardedTheorem ==
    ASSUME DeliveryAssumption
    PROVE  DeliverySpec => PostsAreGuarded
  <1>1. CASE Alone
    <2>1. DeliverySpec => RecordedNotPosted
      BY <1>1, RecordedTheorem
    <2>2. [OnePostPerSendStep]_deliveryVars /\ [AcknowledgedIsRecordedStep]_deliveryVars
          /\ [RecordedNotPostedStep]_deliveryVars => [PostsAreGuardedStep]_deliveryVars
      BY DEF PostsAreGuardedStep
    <2> QED
      BY <2>1, <2>2, OnePostTheorem, AcknowledgedTheorem, PTL
         DEF OnePostPerSend, AcknowledgedIsRecorded, RecordedNotPosted, PostsAreGuarded
  <1>2. CASE ~Alone
    <2>1. [OnePostPerSendStep]_deliveryVars /\ [AcknowledgedIsRecordedStep]_deliveryVars
          => [PostsAreGuardedStep]_deliveryVars
      BY <1>2 DEF PostsAreGuardedStep
    <2> QED
      BY <2>1, OnePostTheorem, AcknowledgedTheorem, PTL
         DEF OnePostPerSend, AcknowledgedIsRecorded, PostsAreGuarded
  <1> QED
    BY <1>1, <1>2

-----------------------------------------------------------------------------
(***************************************************************************)
(* The forward evidence.                                                   *)
(***************************************************************************)
(* A snapshot of a server time, and the rows it vouches for.                 *)
Snaps == [at : Nat, end : [DatasetNames -> Nat]]

Vouched(s, d) == RangeTo(d, s.end[d])

LastDataset == Len(Datasets)

CollectorStates ==
  [pc : {"idle", "clock", "load", "close", "fail", "publish"}, prev : Snaps \cup {Absent},
   time : Nat, next : Nat \ {0}]

ReaderStates ==
  [pc : {"idle", "first", "copy", "second", "digest", "third", "verify", "ready"},
   snap : Snaps \cup {Absent}, copy : Contents, next : Nat \ {0}]

(* Every variable stays in its domain.                                       *)
StoreShape ==
  /\ clock \in Nat
  /\ dbFile \in Contents /\ wal \in Contents /\ whole \subseteq Contents
  /\ sidecar \in BOOLEAN
  /\ snapshot \in Snaps \cup {Absent}
  /\ collector \in [Collectors -> CollectorStates]

ReaderShape == reader \in [Readers -> ReaderStates]

(* A collector at work holds the lock, has read the snapshot that stands and *)
(* has stored what the gate let through.                                     *)
Kept(t, d, f, g) == RangeTo(d, Cutoff(d, t)) \subseteq f[d] \cup g[d]

InTurn(c, C, h, s, side, f, g) ==
  C.pc # "idle" =>
    /\ h = c /\ C.prev = s
    /\ C.pc # "publish" => side
    /\ C.pc = "clock" => C.next = 1
    /\ C.pc = "load" =>
         /\ C.next <= LastDataset
         /\ \A i \in 1 .. C.next - 1 : Kept(C.time, Datasets[i], f, g)
    /\ C.pc \in {"close", "publish"} => \A d \in DatasetNames : Kept(C.time, d, f, g)

CollectorsInTurn ==
  \A c \in Collectors : InTurn(c, collector[c], holder, snapshot, sidecar, dbFile, wal)

(* While no sidecar exists, the main file holds everything and is the        *)
(* content of one moment.                                                    *)
AtRest == ~sidecar => dbFile \in whole /\ \A d \in DatasetNames : wal[d] = {}

StoreInv == StoreShape /\ CollectorsInTurn /\ AtRest /\ SnapshotIsStored

(* What no step of a collector takes away.                                   *)
Grows ==
  /\ \A d \in DatasetNames :
       /\ dbFile[d] \subseteq dbFile'[d]
       /\ (dbFile[d] \cup wal[d]) \subseteq (dbFile'[d] \cup wal'[d])
  /\ whole \subseteq whole'
  /\ snapshot \in Snaps => snapshot' \in Snaps /\ snapshot.at <= snapshot'.at

(* Where a reader is: what it has copied was in the main file, which only    *)
(* grows, and covers the snapshot; the content of the moment of the second   *)
(* check lies between what it copied before and what it compares with after. *)
Fine(R, f, g, contents, s) ==
  R.pc # "idle" =>
    /\ R.snap \in Snaps /\ s \in Snaps /\ R.snap.at <= s.at
    /\ R.pc = "first" => \A d \in DatasetNames : Vouched(R.snap, d) \subseteq f[d] \cup g[d]
    /\ R.pc # "first" => \A d \in DatasetNames : Vouched(R.snap, d) \subseteq f[d]
    /\ R.pc = "copy" =>
         /\ R.next <= LastDataset
         /\ \A i \in 1 .. R.next - 1 :
              /\ Vouched(R.snap, Datasets[i]) \subseteq R.copy[Datasets[i]]
              /\ R.copy[Datasets[i]] \subseteq f[Datasets[i]]
    /\ R.pc \notin {"first", "copy"} =>
         \A d \in DatasetNames : Vouched(R.snap, d) \subseteq R.copy[d]
    /\ R.pc = "second" => \A d \in DatasetNames : R.copy[d] \subseteq f[d]
    /\ R.pc = "digest" =>
         /\ R.next <= LastDataset
         /\ \E w \in contents :
              /\ \A d \in DatasetNames : R.copy[d] \subseteq w[d] /\ w[d] \subseteq f[d]
              /\ \A i \in 1 .. R.next - 1 : R.copy[Datasets[i]] = w[Datasets[i]]
    /\ R.pc \in {"third", "verify", "ready"} => R.copy \in contents

ReadersFine == \A r \in Readers : Fine(reader[r], dbFile, wal, whole, snapshot)

(* A command keeps the snapshot it has read, or reads the one that stands.   *)
SnapsKept ==
  \A q \in Readers : reader'[q].pc # "idle" =>
    \/ reader[q].pc # "idle" /\ reader'[q].snap = reader[q].snap
    \/ reader'[q].snap = snapshot

(* One builder never shows less than what stands.                            *)
DashboardBehind ==
  OneBuilder /\ dashboard # Absent =>
    /\ dashboard.at \in Nat /\ snapshot \in Snaps /\ dashboard.at <= snapshot.at
    /\ \A r \in Readers : reader[r].pc # "idle" => dashboard.at <= reader[r].snap.at

EvidenceInv == StoreInv /\ ReaderShape /\ ReadersFine /\ DashboardBehind

-----------------------------------------------------------------------------
LEMMA DatasetFacts ==
  /\ LastDataset \in Nat \ {0} /\ DOMAIN Datasets = 1 .. LastDataset
  /\ \A i \in 1 .. LastDataset : Datasets[i] \in DatasetNames
  /\ \A d \in DatasetNames : \E i \in 1 .. LastDataset : d = Datasets[i]
  /\ \A d \in DatasetNames : Duration[d] \in Nat \ {0}
  <1>1. Datasets \in Seq(DOMAIN Duration) /\ Len(Datasets) > 0
        /\ \A d \in DOMAIN Duration : Duration[d] \in Nat \ {0}
    BY DatasetsAssumption
  <1>2. DOMAIN Datasets = 1 .. Len(Datasets) /\ Len(Datasets) \in Nat
    BY <1>1
  <1>3. \A i \in 1 .. Len(Datasets) : Datasets[i] \in DOMAIN Duration
    BY <1>1
  <1> QED
    BY <1>1, <1>2, <1>3 DEF LastDataset, DatasetNames

LEMMA CutoffNat == ASSUME NEW d \in DatasetNames, NEW t \in Nat PROVE Cutoff(d, t) \in Nat
  <1> DEFINE k == Duration[d]
             q == t \div k
  <1>1. k \in Nat /\ k > 0
    BY DatasetFacts
  <1> HIDE DEF k
  <1>2. q \in Nat
    BY <1>1
  <1> HIDE DEF q
  <1>3. q * k \in Nat
    BY <1>1, <1>2
  <1> QED
    BY <1>3 DEF Cutoff, k, q

LEMMA SnapshotFacts ==
  ASSUME NEW t \in Nat
  PROVE  /\ SnapshotAt(t) \in Snaps /\ SnapshotAt(t).at = t
         /\ \A d \in DatasetNames : SnapshotAt(t).end[d] = Cutoff(d, t)
  BY CutoffNat DEF SnapshotAt, Snaps

LEMMA AbsentFacts ==
  Absent \notin Collectors /\ Absent \notin Snaps /\ Absent \notin [at : Nat, ready : BOOLEAN]
  BY AbsentAssumption DEF Snaps

LEMMA RangeFacts ==
  ASSUME NEW d, NEW n
  PROVE  RangeTo(d, n) \in Rows
  BY DEF RangeTo, Rows

(* What a reader has seen stays true while files and snapshots only grow.    *)
LEMMA FineGrows ==
  ASSUME NEW R \in ReaderStates, NEW f, NEW g, NEW contents, NEW s,
         NEW f2, NEW g2, NEW contents2, NEW s2,
         Fine(R, f, g, contents, s),
         \A d \in DatasetNames : f[d] \subseteq f2[d] /\ (f[d] \cup g[d]) \subseteq (f2[d] \cup g2[d]),
         contents \subseteq contents2,
         s \in Snaps => s2 \in Snaps /\ s.at <= s2.at
  PROVE  Fine(R, f2, g2, contents2, s2)
  <1> SUFFICES ASSUME R.pc # "idle"
               PROVE  Fine(R, f2, g2, contents2, s2)
    BY DEF Fine
  <1>1. R.snap \in Snaps /\ s \in Snaps /\ R.snap.at <= s.at /\ s2 \in Snaps /\ s.at <= s2.at
    BY DEF Fine
  <1>2. R.snap.at <= s2.at
    BY <1>1 DEF Snaps
  <1>3. \A i \in 1 .. LastDataset : Datasets[i] \in DatasetNames
    BY DatasetFacts
  <1>4. R.pc = "first" => \A d \in DatasetNames : Vouched(R.snap, d) \subseteq f2[d] \cup g2[d]
    BY DEF Fine
  <1>5. R.pc # "first" => \A d \in DatasetNames : Vouched(R.snap, d) \subseteq f2[d]
    BY DEF Fine
  <1>6. R.pc = "copy" =>
         /\ R.next <= LastDataset
         /\ \A i \in 1 .. R.next - 1 :
              /\ Vouched(R.snap, Datasets[i]) \subseteq R.copy[Datasets[i]]
              /\ R.copy[Datasets[i]] \subseteq f2[Datasets[i]]
    <2> SUFFICES ASSUME R.pc = "copy"
                 PROVE  /\ R.next <= LastDataset
                        /\ \A i \in 1 .. R.next - 1 :
                              /\ Vouched(R.snap, Datasets[i]) \subseteq R.copy[Datasets[i]]
                              /\ R.copy[Datasets[i]] \subseteq f2[Datasets[i]]
      OBVIOUS
    <2>1. R.next <= LastDataset /\ R.next \in Nat /\ LastDataset \in Nat
      BY DatasetFacts DEF Fine, ReaderStates
    <2>2. \A i \in 1 .. R.next - 1 : Datasets[i] \in DatasetNames
      BY <1>3, <2>1
    <2> QED
      BY <2>1, <2>2 DEF Fine
  <1>7. R.pc \notin {"first", "copy"} =>
         \A d \in DatasetNames : Vouched(R.snap, d) \subseteq R.copy[d]
    BY DEF Fine
  <1>8. R.pc = "second" => \A d \in DatasetNames : R.copy[d] \subseteq f2[d]
    BY DEF Fine
  <1>9. R.pc = "digest" =>
         /\ R.next <= LastDataset
         /\ \E w \in contents2 :
              /\ \A d \in DatasetNames : R.copy[d] \subseteq w[d] /\ w[d] \subseteq f2[d]
              /\ \A i \in 1 .. R.next - 1 : R.copy[Datasets[i]] = w[Datasets[i]]
    BY DEF Fine
  <1>10. R.pc \in {"third", "verify", "ready"} => R.copy \in contents2
    BY DEF Fine
  <1> QED
    BY <1>1, <1>2, <1>4, <1>5, <1>6, <1>7, <1>8, <1>9, <1>10 DEF Fine

(* A collector at work excludes every other one.                             *)
LEMMA OneAtWork ==
  ASSUME StoreShape, CollectorsInTurn, NEW c \in Collectors,
         collector[c].pc # "idle" \/ holder = Absent
  PROVE  \A o \in Collectors \ {c} : collector[o].pc = "idle"
  BY AbsentFacts DEF CollectorsInTurn, InTurn

LEMMA InTurnGrows ==
  ASSUME NEW c, NEW C \in CollectorStates, NEW h, NEW s, NEW side, NEW f, NEW g,
         NEW f2, NEW g2, InTurn(c, C, h, s, side, f, g),
         \A d \in DatasetNames : (f[d] \cup g[d]) \subseteq (f2[d] \cup g2[d])
  PROVE  InTurn(c, C, h, s, side, f2, g2)
  <1>1. \A i \in 1 .. LastDataset : Datasets[i] \in DatasetNames
    BY DatasetFacts
  <1>2. LastDataset \in Nat /\ C.next \in Nat
    BY DatasetFacts DEF CollectorStates
  <1>3. C.next <= LastDataset => \A i \in 1 .. C.next - 1 : Datasets[i] \in DatasetNames
    BY <1>1, <1>2
  <1> QED
    BY <1>3 DEF InTurn, Kept

LEMMA IdleFacts ==
  /\ IdleCollector \in CollectorStates /\ IdleCollector.pc = "idle"
  /\ IdleReader \in ReaderStates /\ IdleReader.pc = "idle"
  <1>1. [d \in DatasetNames |-> {}] \in Contents
    BY DEF Contents, Rows
  <1> QED
    BY <1>1 DEF IdleCollector, IdleReader, CollectorStates, ReaderStates

(* The records a collector's steps build.                                    *)
LEMMA BegunState ==
  ASSUME NEW s \in Snaps \cup {Absent}, NEW M,
         M = [IdleCollector EXCEPT !.pc = "clock", !.prev = s]
  PROVE  M \in CollectorStates /\ M.pc = "clock" /\ M.prev = s /\ M.next = 1
  <1>1. IdleCollector \in CollectorStates /\ IdleCollector.next = 1
    BY DEF IdleCollector, CollectorStates
  <1>2. M \in CollectorStates
    BY <1>1 DEF CollectorStates
  <1>3. M.pc = "clock" /\ M.prev = s /\ M.next = 1
    BY <1>1 DEF CollectorStates
  <1> QED
    BY <1>2, <1>3

(* When a collector ends, all are at rest.                                   *)
LEMMA EndsInTurn ==
  ASSUME StoreShape, CollectorsInTurn, NEW c \in Collectors, collector[c].pc # "idle",
         collector' = [collector EXCEPT ![c] = IdleCollector]
  PROVE  collector' \in [Collectors -> CollectorStates] /\ CollectorsInTurn'
  <1>1. \A o \in Collectors : collector'[o].pc = "idle"
    BY OneAtWork, IdleFacts DEF StoreShape
  <1>2. collector' \in [Collectors -> CollectorStates]
    BY IdleFacts DEF StoreShape
  <1> QED
    BY <1>1, <1>2 DEF CollectorsInTurn, InTurn

(* A step of the one collector at work.                                      *)
LEMMA WorksInTurn ==
  ASSUME StoreShape, CollectorsInTurn, NEW c \in Collectors,
         collector[c].pc # "idle" \/ holder = Absent,
         NEW N \in CollectorStates,
         collector' = [collector EXCEPT ![c] = N],
         InTurn(c, N, holder', snapshot', sidecar', dbFile', wal')
  PROVE  collector' \in [Collectors -> CollectorStates] /\ CollectorsInTurn'
  <1>1. \A o \in Collectors \ {c} : collector'[o].pc = "idle"
    BY OneAtWork DEF StoreShape
  <1>2. collector' \in [Collectors -> CollectorStates] /\ collector'[c] = N
    BY DEF StoreShape
  <1> QED
    BY <1>1, <1>2 DEF CollectorsInTurn, InTurn

LEMMA SameFilesGrow ==
  ASSUME UNCHANGED <<dbFile, wal, whole, snapshot>>, StoreShape
  PROVE  Grows
  <1>1. snapshot \in Snaps => snapshot.at <= snapshot.at
    BY DEF Snaps
  <1> QED
    BY <1>1 DEF Grows

LEMMA BeginInTurn ==
  ASSUME StoreInv, NEW c \in Collectors, BeginCollect(c)
  PROVE  StoreInv' /\ Grows
  <1> DEFINE N == [IdleCollector EXCEPT !.pc = "clock", !.prev = snapshot]
  <1>1. StoreShape /\ CollectorsInTurn /\ SnapshotIsStored /\ AtRest
    BY DEF StoreInv
  <1>2. /\ UNCHANGED <<clock, dbFile, wal, snapshot, whole>>
        /\ holder = Absent /\ holder' = c /\ sidecar' = TRUE
        /\ collector' = [collector EXCEPT ![c] = N]
    BY DEF BeginCollect, TakesLock
  <1>a. snapshot \in Snaps \cup {Absent}
    BY <1>1 DEF StoreShape
  <1>3. N \in CollectorStates /\ N.pc = "clock" /\ N.prev = snapshot /\ N.next = 1
    BY <1>a, BegunState
  <1> HIDE DEF N
  <1>4. InTurn(c, N, holder', snapshot', sidecar', dbFile', wal')
    BY <1>2, <1>3 DEF InTurn
  <1>5. collector' \in [Collectors -> CollectorStates] /\ CollectorsInTurn'
    BY <1>1, <1>2, <1>3, <1>4, WorksInTurn
  <1>6. StoreShape'
    BY <1>1, <1>2, <1>5 DEF StoreShape
  <1>7. AtRest' /\ SnapshotIsStored'
    BY <1>1, <1>2 DEF AtRest, SnapshotIsStored, Stored
  <1>8. Grows
    BY <1>1, <1>2, SameFilesGrow
  <1> QED
    BY <1>5, <1>6, <1>7, <1>8 DEF StoreInv

LEMMA TimeInTurn ==
  ASSUME StoreInv, NEW c \in Collectors, ReadServerTime(c)
  PROVE  StoreInv' /\ Grows
  <1>1. StoreShape /\ CollectorsInTurn /\ SnapshotIsStored /\ AtRest
    BY DEF StoreInv
  <1>2. PICK t \in {clock, IF clock > 0 THEN clock - 1 ELSE 0} :
          collector' = [collector EXCEPT ![c].time = t,
                          ![c].pc = IF EveryIntervalClosed(t) THEN "load" ELSE "fail"]
    BY DEF ReadServerTime
  <1>3. /\ UNCHANGED <<clock, dbFile, wal, snapshot, whole, holder, sidecar>>
        /\ collector[c].pc = "clock"
    BY DEF ReadServerTime
  <1>4. t \in Nat
    BY <1>1, <1>2 DEF StoreShape
  <1> DEFINE step == IF EveryIntervalClosed(t) THEN "load" ELSE "fail"
             N == [collector[c] EXCEPT !.time = t, !.pc = step]
  <1>5. step \in {"load", "fail"}
    OBVIOUS
  <1>6. collector[c] \in CollectorStates
    BY <1>1 DEF StoreShape
  <1>7. collector' = [collector EXCEPT ![c] = N]
    BY <1>2
  <1> HIDE DEF step
  <1>b. N = [collector[c] EXCEPT !.time = t, !.pc = step]
    OBVIOUS
  <1> HIDE DEF N
  <1>c. N \in CollectorStates
    BY <1>4, <1>5, <1>6, <1>b DEF CollectorStates
  <1>8. /\ N \in CollectorStates /\ N.time = t /\ N.pc = step
        /\ N.prev = collector[c].prev /\ N.next = collector[c].next
    BY <1>6, <1>b, <1>c DEF CollectorStates
  <1>9. holder = c /\ collector[c].prev = snapshot /\ sidecar /\ collector[c].next = 1
    BY <1>1, <1>3 DEF CollectorsInTurn, InTurn
  <1>10. InTurn(c, N, holder', snapshot', sidecar', dbFile', wal')
    <2>1. N.pc \in {"load", "fail"} /\ N.next = 1 /\ N.prev = snapshot
      BY <1>5, <1>8, <1>9
    <2>2. 1 .. N.next - 1 = {} /\ N.next <= LastDataset
      BY <2>1, DatasetFacts
    <2> QED
      BY <1>3, <1>9, <2>1, <2>2 DEF InTurn
  <1>11. collector' \in [Collectors -> CollectorStates] /\ CollectorsInTurn'
    BY <1>1, <1>3, <1>7, <1>8, <1>10, WorksInTurn
  <1>12. StoreShape'
    BY <1>1, <1>3, <1>11 DEF StoreShape
  <1>13. AtRest' /\ SnapshotIsStored'
    BY <1>1, <1>3 DEF AtRest, SnapshotIsStored, Stored
  <1>14. Grows
    BY <1>1, <1>3, SameFilesGrow
  <1> QED
    BY <1>11, <1>12, <1>13, <1>14 DEF StoreInv

LEMMA CollectInTurn ==
  ASSUME StoreInv, NEW c \in Collectors, CollectDataset(c)
  PROVE  StoreInv' /\ Grows
  <1> DEFINE d == Datasets[collector[c].next]
             end == Cutoff(d, collector[c].time)
             missing == RangeTo(d, end) \ Stored(d)
  <1>1. StoreShape /\ CollectorsInTurn /\ SnapshotIsStored /\ AtRest
    BY DEF StoreInv
  <1>2. /\ UNCHANGED <<clock, dbFile, snapshot, whole, holder, sidecar>>
        /\ collector[c].pc = "load"
    BY DEF CollectDataset
  <1>3. /\ holder = c /\ collector[c].prev = snapshot /\ sidecar
        /\ collector[c].next <= LastDataset
        /\ \A i \in 1 .. collector[c].next - 1 : Kept(collector[c].time, Datasets[i], dbFile, wal)
    BY <1>1, <1>2 DEF CollectorsInTurn, InTurn
  <1>4. collector[c] \in CollectorStates /\ collector[c].next \in 1 .. LastDataset
    BY <1>1, <1>3, DatasetFacts DEF StoreShape, CollectorStates
  <1>5. d \in DatasetNames
    BY <1>4, DatasetFacts
  <1>6. PICK rows \in {missing} \cup {missing \ {r} : r \in missing} :
          /\ wal' = [wal EXCEPT ![d] = @ \cup rows]
          /\ collector' = [collector EXCEPT
               ![c].next = @ + 1,
               ![c].pc = IF ~PassesQualityGate(d, end, RangeTo(d, end) \cap (Stored(d) \cup rows))
                         THEN "fail"
                         ELSE IF collector[c].next = Len(Datasets) THEN "close" ELSE "load"]
    BY DEF CollectDataset
  <1> DEFINE passed == PassesQualityGate(d, end, RangeTo(d, end) \cap (Stored(d) \cup rows))
             step == IF ~passed THEN "fail"
                     ELSE IF collector[c].next = Len(Datasets) THEN "close" ELSE "load"
             N == [collector[c] EXCEPT !.next = collector[c].next + 1, !.pc = step]
  <1>7. rows \subseteq RangeTo(d, end) /\ rows \in Rows
    BY RangeFacts DEF Rows
  <1>8. passed => RangeTo(d, end) \subseteq dbFile[d] \cup wal[d] \cup rows
    BY DEF PassesQualityGate, Stored
  <1>9. collector' = [collector EXCEPT ![c] = N]
    BY <1>6
  <1>10. /\ step \in {"fail", "close", "load"}
         /\ step # "fail" => passed
         /\ step = "close" => collector[c].next = LastDataset
         /\ step = "load" => collector[c].next # LastDataset
    BY DEF LastDataset
  <1> HIDE DEF passed, step
  <1>a. collector[c].next + 1 \in Nat \ {0}
    BY <1>4
  <1>b. N = [collector[c] EXCEPT !.next = collector[c].next + 1, !.pc = step]
    OBVIOUS
  <1> HIDE DEF N
  <1>c. N \in CollectorStates
    BY <1>4, <1>10, <1>a, <1>b DEF CollectorStates
  <1>11. /\ N \in CollectorStates /\ N.time = collector[c].time /\ N.pc = step
         /\ N.prev = collector[c].prev /\ N.next = collector[c].next + 1
    BY <1>4, <1>b, <1>c DEF CollectorStates
  <1> HIDE DEF d, end, missing
  <1>12. wal' \in Contents /\ \A e \in DatasetNames : wal[e] \subseteq wal'[e]
    BY <1>1, <1>5, <1>6, <1>7 DEF StoreShape, Contents, Rows
  <1>13. rows \subseteq wal'[d]
    BY <1>1, <1>5, <1>6 DEF StoreShape, Contents
  <1>14. \A e \in DatasetNames : (dbFile[e] \cup wal[e]) \subseteq (dbFile'[e] \cup wal'[e])
    BY <1>2, <1>12
  <1>15. Grows
    <2>1. snapshot \in Snaps => snapshot.at <= snapshot.at
      BY DEF Snaps
    <2> QED
      BY <1>2, <1>14, <2>1 DEF Grows
  <1>16. passed => \A i \in 1 .. collector[c].next : Kept(collector[c].time, Datasets[i], dbFile', wal')
    <2> SUFFICES ASSUME passed, NEW i \in 1 .. collector[c].next
                 PROVE  Kept(collector[c].time, Datasets[i], dbFile', wal')
      OBVIOUS
    <2>1. Datasets[i] \in DatasetNames
      BY <1>4, DatasetFacts
    <2>2. CASE i = collector[c].next
      <3>1. RangeTo(d, end) \subseteq dbFile'[d] \cup wal'[d]
        BY <1>2, <1>5, <1>8, <1>12, <1>13
      <3> QED
        BY <2>2, <3>1 DEF Kept, d, end
    <2>3. CASE i # collector[c].next
      <3>1. Kept(collector[c].time, Datasets[i], dbFile, wal)
        BY <1>3, <1>4, <2>3
      <3> QED
        BY <1>14, <2>1, <3>1 DEF Kept
    <2> QED
      BY <2>2, <2>3
  <1>17. InTurn(c, N, holder', snapshot', sidecar', dbFile', wal')
    <2>1. /\ N.pc = step /\ N.prev = snapshot /\ N.time = collector[c].time
          /\ N.next = collector[c].next + 1
      BY <1>3, <1>11
    <2>2. CASE step = "fail"
      BY <1>2, <1>3, <2>1, <2>2 DEF InTurn
    <2>3. CASE step = "close"
      <3>1. \A i \in 1 .. LastDataset : Kept(collector[c].time, Datasets[i], dbFile', wal')
        BY <1>10, <1>16, <2>3
      <3>2. \A e \in DatasetNames : Kept(collector[c].time, e, dbFile', wal')
        BY <3>1, DatasetFacts
      <3> QED
        BY <1>2, <1>3, <2>1, <2>3, <3>2 DEF InTurn
    <2>4. CASE step = "load"
      <3>1. collector[c].next + 1 <= LastDataset
            /\ 1 .. (collector[c].next + 1) - 1 = 1 .. collector[c].next
        BY <1>4, <1>10, <2>4, DatasetFacts
      <3>2. \A i \in 1 .. (collector[c].next + 1) - 1 : Kept(collector[c].time, Datasets[i], dbFile', wal')
        BY <1>10, <1>16, <2>4, <3>1
      <3> QED
        BY <1>2, <1>3, <2>1, <2>4, <3>1, <3>2 DEF InTurn
    <2> QED
      BY <1>10, <2>2, <2>3, <2>4
  <1>18. collector' \in [Collectors -> CollectorStates] /\ CollectorsInTurn'
    BY <1>1, <1>2, <1>9, <1>11, <1>17, WorksInTurn
  <1>19. StoreShape'
    BY <1>1, <1>2, <1>12, <1>18 DEF StoreShape
  <1>20. AtRest'
    BY <1>2, <1>3 DEF AtRest
  <1>21. SnapshotIsStored'
    BY <1>1, <1>2, <1>14 DEF SnapshotIsStored, Stored
  <1> QED
    BY <1>15, <1>18, <1>19, <1>20, <1>21 DEF StoreInv

(* Merging the log into the main file loses nothing.                         *)
LEMMA MergeFacts ==
  ASSUME StoreShape, dbFile' = [d \in DatasetNames |-> Stored(d)],
         wal' = [d \in DatasetNames |-> {}]
  PROVE  /\ dbFile' \in Contents /\ wal' \in Contents
         /\ \A d \in DatasetNames : wal'[d] = {} /\ dbFile[d] \subseteq dbFile'[d]
         /\ \A d \in DatasetNames : (dbFile'[d] \cup wal'[d]) = (dbFile[d] \cup wal[d])
  BY DEF StoreShape, Contents, Rows, Stored

LEMMA CloseInTurn ==
  ASSUME StoreInv, NEW c \in Collectors, CloseStore(c)
  PROVE  StoreInv' /\ Grows
  <1>1. StoreShape /\ CollectorsInTurn /\ SnapshotIsStored /\ AtRest
    BY DEF StoreInv
  <1>2. /\ UNCHANGED <<clock, snapshot>>
        /\ collector[c].pc \in {"close", "fail"}
    BY DEF CloseStore
  <1>3. ~ \E o \in Collectors \ {c} : collector[o].pc \in {"clock", "load", "close", "fail"}
    BY <1>1, <1>2, OneAtWork
  <1>4. /\ dbFile' = [d \in DatasetNames |-> Stored(d)]
        /\ wal' = [d \in DatasetNames |-> {}]
        /\ whole' = whole \cup {dbFile'}
        /\ sidecar' = FALSE
    BY <1>3 DEF CloseStore
  <1>5. /\ dbFile' \in Contents /\ wal' \in Contents
        /\ \A d \in DatasetNames : wal'[d] = {} /\ dbFile[d] \subseteq dbFile'[d]
        /\ \A d \in DatasetNames : (dbFile'[d] \cup wal'[d]) = (dbFile[d] \cup wal[d])
    BY <1>1, <1>4, MergeFacts
  <1>6. Grows
    <2>1. snapshot \in Snaps => snapshot.at <= snapshot.at
      BY DEF Snaps
    <2>2. \A d \in DatasetNames :
            /\ dbFile[d] \subseteq dbFile'[d]
            /\ (dbFile[d] \cup wal[d]) \subseteq (dbFile'[d] \cup wal'[d])
      BY <1>5
    <2>3. whole \subseteq whole'
      BY <1>4
    <2> QED
      BY <1>2, <2>1, <2>2, <2>3 DEF Grows
  <1>7. collector' \in [Collectors -> CollectorStates] /\ CollectorsInTurn'
    <2>1. CASE collector[c].pc = "fail"
      <3>1. collector' = [collector EXCEPT ![c] = IdleCollector]
        BY <2>1 DEF CloseStore
      <3> QED
        BY <1>1, <2>1, <3>1, EndsInTurn
    <2>2. CASE collector[c].pc = "close"
      <3> DEFINE N == [collector[c] EXCEPT !.pc = "publish"]
      <3>1. collector' = [collector EXCEPT ![c] = N] /\ holder' = holder
        BY <2>2 DEF CloseStore
      <3>2. collector[c] \in CollectorStates
        BY <1>1 DEF StoreShape
      <3>3. /\ N \in CollectorStates /\ N.pc = "publish" /\ N.prev = collector[c].prev
            /\ N.time = collector[c].time
        BY <3>2 DEF CollectorStates
      <3> HIDE DEF N
      <3>4. /\ holder = c /\ collector[c].prev = snapshot
            /\ \A d \in DatasetNames : Kept(collector[c].time, d, dbFile, wal)
        BY <1>1, <2>2 DEF CollectorsInTurn, InTurn
      <3>5. \A d \in DatasetNames : Kept(collector[c].time, d, dbFile', wal')
        BY <1>5, <3>4 DEF Kept
      <3>6. InTurn(c, N, holder', snapshot', sidecar', dbFile', wal')
        BY <1>2, <3>1, <3>3, <3>4, <3>5 DEF InTurn
      <3> QED
        BY <1>1, <2>2, <3>1, <3>3, <3>6, WorksInTurn
    <2> QED
      BY <1>2, <2>1, <2>2
  <1>8. StoreShape'
    BY <1>1, <1>2, <1>4, <1>5, <1>7 DEF StoreShape
  <1>9. AtRest'
    BY <1>4, <1>5 DEF AtRest
  <1>10. SnapshotIsStored'
    BY <1>1, <1>2, <1>5 DEF SnapshotIsStored, Stored
  <1> QED
    BY <1>6, <1>7, <1>8, <1>9, <1>10 DEF StoreInv

LEMMA PublishInTurn ==
  ASSUME StoreInv, NEW c \in Collectors, PublishSnapshot(c)
  PROVE  StoreInv' /\ Grows
  <1> DEFINE new == SnapshotAt(collector[c].time)
  <1>1. StoreShape /\ CollectorsInTurn /\ SnapshotIsStored /\ AtRest
    BY DEF StoreInv
  <1>2. /\ UNCHANGED <<clock, dbFile, wal, sidecar, whole>>
        /\ collector[c].pc = "publish"
        /\ collector' = [collector EXCEPT ![c] = IdleCollector]
        /\ snapshot' = IF AcceptsSuccessor(collector[c].prev, new) THEN new ELSE snapshot
    BY DEF PublishSnapshot
  <1>3. /\ collector[c].prev = snapshot
        /\ \A d \in DatasetNames : Kept(collector[c].time, d, dbFile, wal)
    BY <1>1, <1>2 DEF CollectorsInTurn, InTurn
  <1>4. collector[c].time \in Nat
    BY <1>1 DEF StoreShape, CollectorStates
  <1>5. /\ new \in Snaps
        /\ \A d \in DatasetNames : new.end[d] = Cutoff(d, collector[c].time)
    BY <1>4, SnapshotFacts
  <1> HIDE DEF new
  <1>6. \A d \in DatasetNames : RangeTo(d, new.end[d]) \subseteq Stored(d)
    BY <1>3, <1>5 DEF Kept, Stored
  <1>7. snapshot' \in Snaps \cup {Absent}
    BY <1>1, <1>2, <1>5 DEF StoreShape
  <1>8. SnapshotIsStored'
    <2>1. CASE snapshot' = new
      BY <1>2, <1>6, <2>1 DEF SnapshotIsStored, Stored
    <2>2. CASE snapshot' = snapshot
      BY <1>1, <1>2, <2>2 DEF SnapshotIsStored, Stored
    <2> QED
      BY <1>2, <2>1, <2>2
  <1>9. snapshot \in Snaps => snapshot' \in Snaps /\ snapshot.at <= snapshot'.at
    <2> SUFFICES ASSUME snapshot \in Snaps
                 PROVE  snapshot' \in Snaps /\ snapshot.at <= snapshot'.at
      OBVIOUS
    <2>1. snapshot # Absent /\ snapshot.at \in Nat
      BY AbsentFacts DEF Snaps
    <2>2. CASE AcceptsSuccessor(snapshot, new)
      <3>1. new.at >= snapshot.at /\ new.at \in Nat
        BY <1>5, <2>1, <2>2 DEF AcceptsSuccessor, Snaps
      <3> QED
        BY <1>2, <1>3, <1>5, <2>1, <2>2, <3>1
    <2>3. CASE ~AcceptsSuccessor(snapshot, new)
      BY <1>2, <1>3, <2>1, <2>3
    <2> QED
      BY <2>2, <2>3
  <1>10. Grows
    BY <1>2, <1>9 DEF Grows
  <1>11. collector' \in [Collectors -> CollectorStates] /\ CollectorsInTurn'
    BY <1>1, <1>2, EndsInTurn
  <1>12. StoreShape' /\ AtRest'
    BY <1>1, <1>2, <1>7, <1>11 DEF StoreShape, AtRest
  <1> QED
    BY <1>8, <1>10, <1>11, <1>12 DEF StoreInv

LEMMA CheckpointInTurn ==
  ASSUME StoreInv, Checkpoint
  PROVE  StoreInv' /\ Grows
  <1>1. StoreShape /\ CollectorsInTurn /\ SnapshotIsStored /\ AtRest
    BY DEF StoreInv
  <1>2. /\ UNCHANGED <<clock, sidecar, holder, snapshot, collector, whole>>
        /\ dbFile' = [d \in DatasetNames |-> Stored(d)] /\ wal' = [d \in DatasetNames |-> {}]
        /\ sidecar
    BY DEF Checkpoint
  <1>3. /\ dbFile' \in Contents /\ wal' \in Contents
        /\ \A d \in DatasetNames : wal'[d] = {} /\ dbFile[d] \subseteq dbFile'[d]
        /\ \A d \in DatasetNames : (dbFile'[d] \cup wal'[d]) = (dbFile[d] \cup wal[d])
    BY <1>1, <1>2, MergeFacts
  <1>4. Grows
    <2>1. snapshot \in Snaps => snapshot.at <= snapshot.at
      BY DEF Snaps
    <2>2. \A d \in DatasetNames :
            /\ dbFile[d] \subseteq dbFile'[d]
            /\ (dbFile[d] \cup wal[d]) \subseteq (dbFile'[d] \cup wal'[d])
      BY <1>3
    <2> QED
      BY <1>2, <2>1, <2>2 DEF Grows
  <1>5. CollectorsInTurn'
    <2> SUFFICES ASSUME NEW o \in Collectors
                 PROVE  InTurn(o, collector'[o], holder', snapshot', sidecar', dbFile', wal')
      BY DEF CollectorsInTurn
    <2>1. InTurn(o, collector[o], holder, snapshot, sidecar, dbFile, wal) /\ collector[o] \in CollectorStates
      BY <1>1 DEF CollectorsInTurn, StoreShape
    <2>2. \A d \in DatasetNames : (dbFile[d] \cup wal[d]) \subseteq (dbFile'[d] \cup wal'[d])
      BY <1>3
    <2>3. InTurn(o, collector[o], holder, snapshot, sidecar, dbFile', wal')
      BY <2>1, <2>2, InTurnGrows
    <2> QED
      BY <1>2, <2>3
  <1>6. StoreShape'
    BY <1>1, <1>2, <1>3 DEF StoreShape
  <1>7. AtRest'
    BY <1>2 DEF AtRest
  <1>8. SnapshotIsStored'
    BY <1>1, <1>2, <1>3 DEF SnapshotIsStored, Stored
  <1> QED
    BY <1>4, <1>5, <1>6, <1>7, <1>8 DEF StoreInv

LEMMA CrashInTurn ==
  ASSUME StoreInv, NEW c \in Collectors, CrashCollector(c)
  PROVE  StoreInv' /\ Grows
  <1>1. StoreShape /\ CollectorsInTurn /\ SnapshotIsStored /\ AtRest
    BY DEF StoreInv
  <1>2. /\ UNCHANGED <<clock, dbFile, wal, sidecar, snapshot, whole>>
        /\ collector[c].pc # "idle"
        /\ collector' = [collector EXCEPT ![c] = IdleCollector]
    BY DEF CrashCollector
  <1>3. collector' \in [Collectors -> CollectorStates] /\ CollectorsInTurn'
    BY <1>1, <1>2, EndsInTurn
  <1>4. StoreShape' /\ AtRest' /\ SnapshotIsStored'
    BY <1>1, <1>2, <1>3 DEF StoreShape, AtRest, SnapshotIsStored, Stored
  <1>5. Grows
    BY <1>1, <1>2, SameFilesGrow
  <1> QED
    BY <1>3, <1>4, <1>5 DEF StoreInv

(* A step that leaves the store, the lock and the collectors alone.          *)
LEMMA StoreUntouched ==
  ASSUME StoreInv, clock' \in Nat,
         UNCHANGED <<dbFile, wal, sidecar, holder, snapshot, collector, whole>>
  PROVE  StoreInv' /\ Grows
  <1>1. StoreShape /\ CollectorsInTurn /\ SnapshotIsStored /\ AtRest
    BY DEF StoreInv
  <1>2. StoreShape' /\ CollectorsInTurn' /\ SnapshotIsStored' /\ AtRest'
    BY <1>1 DEF StoreShape, CollectorsInTurn, SnapshotIsStored, AtRest, Stored
  <1>3. Grows
    BY <1>1, SameFilesGrow
  <1> QED
    BY <1>2, <1>3 DEF StoreInv

(* A step of a collector leaves the readers where they are.                  *)
LEMMA ReadersWait ==
  ASSUME ReaderShape, ReadersFine, Grows, UNCHANGED reader
  PROVE  ReaderShape' /\ ReadersFine' /\ SnapsKept
  <1>1. ReaderShape' /\ SnapsKept
    BY DEF ReaderShape, SnapsKept
  <1>2. SUFFICES ASSUME NEW r \in Readers
                 PROVE  Fine(reader'[r], dbFile', wal', whole', snapshot')
    BY <1>1 DEF ReadersFine
  <1>3. reader[r] \in ReaderStates /\ Fine(reader[r], dbFile, wal, whole, snapshot)
    BY DEF ReaderShape, ReadersFine
  <1>4. Fine(reader[r], dbFile', wal', whole', snapshot')
    BY <1>3, FineGrows DEF Grows
  <1> QED
    BY <1>4

(* A step of one reader.                                                     *)
LEMMA OneReads ==
  ASSUME ReaderShape, ReadersFine, UNCHANGED <<dbFile, wal, whole, snapshot>>,
         NEW r \in Readers, NEW N \in ReaderStates, reader' = [reader EXCEPT ![r] = N],
         Fine(N, dbFile, wal, whole, snapshot),
         \/ N.pc = "idle" \/ N.snap = snapshot
         \/ reader[r].pc # "idle" /\ N.snap = reader[r].snap
  PROVE  ReaderShape' /\ ReadersFine' /\ SnapsKept
  <1>1. reader' \in [Readers -> ReaderStates] /\ reader'[r] = N
    BY DEF ReaderShape
  <1>2. \A q \in Readers \ {r} : reader'[q] = reader[q]
    BY DEF ReaderShape
  <1>3. ReaderShape' /\ ReadersFine'
    BY <1>1, <1>2 DEF ReaderShape, ReadersFine
  <1>4. SnapsKept
    BY <1>1, <1>2 DEF SnapsKept
  <1> QED
    BY <1>3, <1>4

(* A command that ends is idle.                                              *)
LEMMA CommandEnds ==
  ASSUME ReaderShape, ReadersFine, UNCHANGED <<dbFile, wal, whole, snapshot>>,
         NEW r \in Readers, reader' = [reader EXCEPT ![r] = IdleReader]
  PROVE  ReaderShape' /\ ReadersFine' /\ SnapsKept
  <1>1. IdleReader \in ReaderStates /\ Fine(IdleReader, dbFile, wal, whole, snapshot)
    BY IdleFacts DEF Fine
  <1> QED
    BY <1>1, OneReads, IdleFacts

LEMMA LoadFine ==
  ASSUME StoreInv, ReaderShape, ReadersFine, NEW r \in Readers, LoadSnapshot(r)
  PROVE  ReaderShape' /\ ReadersFine' /\ SnapsKept
  <1> DEFINE N == [IdleReader EXCEPT !.pc = "first", !.snap = snapshot]
  <1>1. /\ reader' = [reader EXCEPT ![r] = N] /\ snapshot # Absent
        /\ UNCHANGED <<dbFile, wal, whole, snapshot>>
    BY DEF LoadSnapshot
  <1>2. snapshot \in Snaps /\ snapshot.at \in Nat
    BY <1>1 DEF StoreInv, StoreShape, Snaps
  <1>3. IdleReader \in ReaderStates
    BY IdleFacts
  <1>4. N \in ReaderStates /\ N.pc = "first" /\ N.snap = snapshot
    <2>1. N \in ReaderStates
      BY <1>2, <1>3 DEF ReaderStates
    <2>2. N.pc = "first" /\ N.snap = snapshot
      BY <1>3 DEF ReaderStates
    <2> QED
      BY <2>1, <2>2
  <1> HIDE DEF N
  <1>5. \A d \in DatasetNames : Vouched(snapshot, d) \subseteq dbFile[d] \cup wal[d]
    BY <1>1 DEF StoreInv, SnapshotIsStored, Vouched, Stored
  <1>6. Fine(N, dbFile, wal, whole, snapshot)
    BY <1>2, <1>4, <1>5 DEF Fine
  <1> QED
    BY <1>1, <1>4, <1>6, OneReads

(* What the reader finds when there is no sidecar.                           *)
LEMMA CheckFine ==
  ASSUME StoreInv, ReaderShape, ReadersFine, NEW r \in Readers, CheckSidecar(r)
  PROVE  ReaderShape' /\ ReadersFine' /\ SnapsKept
  <1>1. /\ reader[r].pc \in {"first", "second", "third"}
        /\ UNCHANGED <<dbFile, wal, whole, snapshot>>
    BY DEF CheckSidecar
  <1>2. CASE sidecar
    <2>1. reader' = [reader EXCEPT ![r] = IdleReader]
      BY <1>2 DEF CheckSidecar
    <2> QED
      BY <1>1, <2>1, CommandEnds
  <1>3. CASE ~sidecar
    <2> DEFINE step == [first |-> "copy", second |-> "digest", third |-> "verify"][reader[r].pc]
               one == 1
               N == [reader[r] EXCEPT !.next = one, !.pc = step]
    <2>a. reader' = [reader EXCEPT ![r] =
             IF sidecar THEN IdleReader
             ELSE [@ EXCEPT !.next = 1,
                            !.pc = [first |-> "copy", second |-> "digest",
                                    third |-> "verify"][reader[r].pc]]]
      BY DEF CheckSidecar
    <2>1. reader' = [reader EXCEPT ![r] = N]
      BY <1>3, <2>a
    <2>2. reader[r] \in ReaderStates /\ Fine(reader[r], dbFile, wal, whole, snapshot)
      BY DEF ReaderShape, ReadersFine
    <2>3. /\ reader[r].pc = "first" => step = "copy"
          /\ reader[r].pc = "second" => step = "digest"
          /\ reader[r].pc = "third" => step = "verify"
      OBVIOUS
    <2>4. step \in {"copy", "digest", "verify"}
      BY <1>1, <2>3
    <2>b. N = [reader[r] EXCEPT !.next = one, !.pc = step] /\ one \in Nat \ {0}
      OBVIOUS
    <2>c. one = 1
      OBVIOUS
    <2> HIDE DEF step, N, one
    <2>5. N \in ReaderStates
      BY <2>2, <2>4, <2>b DEF ReaderStates
    <2>6. N.pc = step /\ N.next = 1 /\ N.snap = reader[r].snap /\ N.copy = reader[r].copy
      BY <2>2, <2>b, <2>c DEF ReaderStates
    <2>7. dbFile \in whole /\ \A d \in DatasetNames : wal[d] = {}
      BY <1>3 DEF StoreInv, AtRest
    <2>8. LastDataset \in Nat /\ 1 <= LastDataset /\ 1 .. 1 - 1 = {}
      BY DatasetFacts
    <2>9. N.snap \in Snaps /\ snapshot \in Snaps /\ N.snap.at <= snapshot.at
      BY <1>1, <2>2, <2>6 DEF Fine
    <2>10. \A d \in DatasetNames : Vouched(N.snap, d) \subseteq dbFile[d]
      BY <1>1, <2>2, <2>6, <2>7 DEF Fine
    <2>11. CASE reader[r].pc = "first"
      <3>1. N.pc = "copy"
        BY <2>3, <2>6, <2>11
      <3>2. Fine(N, dbFile, wal, whole, snapshot)
        BY <2>6, <2>8, <2>9, <2>10, <3>1 DEF Fine
      <3> QED
        BY <1>1, <2>1, <2>5, <2>6, <3>2, OneReads
    <2>12. CASE reader[r].pc = "second"
      <3>1. N.pc = "digest"
        BY <2>3, <2>6, <2>12
      <3>2. \A d \in DatasetNames : N.copy[d] \subseteq dbFile[d] /\ Vouched(N.snap, d) \subseteq N.copy[d]
        BY <2>2, <2>6, <2>12 DEF Fine
      <3>3. \E w \in whole :
              /\ \A d \in DatasetNames : N.copy[d] \subseteq w[d] /\ w[d] \subseteq dbFile[d]
              /\ \A i \in 1 .. N.next - 1 : N.copy[Datasets[i]] = w[Datasets[i]]
        BY <2>6, <2>7, <2>8, <3>2
      <3>4. Fine(N, dbFile, wal, whole, snapshot)
        BY <2>6, <2>8, <2>9, <2>10, <3>1, <3>2, <3>3 DEF Fine
      <3> QED
        BY <1>1, <2>1, <2>5, <2>6, <3>4, OneReads
    <2>13. CASE reader[r].pc = "third"
      <3>1. N.pc = "verify"
        BY <2>3, <2>6, <2>13
      <3>2. N.copy \in whole /\ \A d \in DatasetNames : Vouched(N.snap, d) \subseteq N.copy[d]
        BY <2>2, <2>6, <2>13 DEF Fine
      <3>3. Fine(N, dbFile, wal, whole, snapshot)
        BY <2>9, <2>10, <3>1, <3>2 DEF Fine
      <3> QED
        BY <1>1, <2>1, <2>5, <2>6, <3>3, OneReads
    <2> QED
      BY <1>1, <2>11, <2>12, <2>13
  <1> QED
    BY <1>2, <1>3

LEMMA CopyFine ==
  ASSUME StoreInv, ReaderShape, ReadersFine, NEW r \in Readers, CopyPart(r)
  PROVE  ReaderShape' /\ ReadersFine' /\ SnapsKept
  <1> DEFINE d == Datasets[reader[r].next]
             step == IF reader[r].next = Len(Datasets) THEN "second" ELSE "copy"
             copied == [reader[r].copy EXCEPT ![d] = dbFile[d]]
             N == [reader[r] EXCEPT !.copy = copied, !.next = reader[r].next + 1, !.pc = step]
  <1>1. /\ reader[r].pc = "copy"
        /\ UNCHANGED <<dbFile, wal, whole, snapshot>>
        /\ reader' = [reader EXCEPT ![r].copy[d] = dbFile[d],
                        ![r].next = @ + 1,
                        ![r].pc = IF reader[r].next = Len(Datasets) THEN "second" ELSE @]
    BY DEF CopyPart
  <1>2. reader[r] \in ReaderStates /\ Fine(reader[r], dbFile, wal, whole, snapshot)
    BY DEF ReaderShape, ReadersFine
  <1>3. reader' = [reader EXCEPT ![r] = N]
    BY <1>1
  <1>4. step \in {"second", "copy"} /\ (step = "second" <=> reader[r].next = LastDataset)
    BY DEF LastDataset
  <1>a. /\ reader[r].next <= LastDataset
        /\ \A i \in 1 .. reader[r].next - 1 :
             /\ Vouched(reader[r].snap, Datasets[i]) \subseteq reader[r].copy[Datasets[i]]
             /\ reader[r].copy[Datasets[i]] \subseteq dbFile[Datasets[i]]
        /\ \A e \in DatasetNames : Vouched(reader[r].snap, e) \subseteq dbFile[e]
        /\ reader[r].snap \in Snaps /\ snapshot \in Snaps /\ reader[r].snap.at <= snapshot.at
    BY <1>1, <1>2 DEF Fine
  <1>5. reader[r].next \in 1 .. LastDataset
    BY <1>2, <1>a, DatasetFacts DEF ReaderStates
  <1>6. d \in DatasetNames
    BY <1>5, <1>a, DatasetFacts
  <1>7. dbFile \in Contents /\ reader[r].copy \in Contents
    BY <1>2 DEF StoreInv, StoreShape, ReaderStates
  <1>8. /\ copied \in Contents /\ copied[d] = dbFile[d]
        /\ \A e \in DatasetNames \ {d} : copied[e] = reader[r].copy[e]
    BY <1>6, <1>7 DEF Contents
  <1>9. \A i \in 1 .. reader[r].next :
          /\ Vouched(reader[r].snap, Datasets[i]) \subseteq copied[Datasets[i]]
          /\ copied[Datasets[i]] \subseteq dbFile[Datasets[i]]
    <2> SUFFICES ASSUME NEW i \in 1 .. reader[r].next
                 PROVE  /\ Vouched(reader[r].snap, Datasets[i]) \subseteq copied[Datasets[i]]
                        /\ copied[Datasets[i]] \subseteq dbFile[Datasets[i]]
      OBVIOUS
    <2>1. Datasets[i] \in DatasetNames
      BY <1>5, <1>a, DatasetFacts
    <2>2. CASE Datasets[i] = d
      BY <1>5, <1>a, <1>6, <1>8, <2>2
    <2>3. CASE Datasets[i] # d
      <3>1. i \in 1 .. reader[r].next - 1
        BY <1>5, <1>a, <2>3
      <3> QED
        BY <1>5, <1>a, <1>8, <2>1, <2>3, <3>1
    <2> QED
      BY <2>2, <2>3
  <1>10. reader[r].next + 1 \in Nat \ {0}
    BY <1>5, <1>a
  <1>11. N = [reader[r] EXCEPT !.copy = copied, !.next = reader[r].next + 1, !.pc = step]
    OBVIOUS
  <1> HIDE DEF N, copied, step, d
  <1>12. N \in ReaderStates
    BY <1>2, <1>4, <1>8, <1>10, <1>11 DEF ReaderStates
  <1>13. /\ N.pc = step /\ N.next = reader[r].next + 1 /\ N.snap = reader[r].snap
         /\ N.copy = copied
    BY <1>2, <1>11 DEF ReaderStates
  <1>14. Fine(N, dbFile, wal, whole, snapshot)
    <2>1. CASE step = "copy"
      <3>1. reader[r].next + 1 <= LastDataset
            /\ 1 .. (reader[r].next + 1) - 1 = 1 .. reader[r].next
        BY <1>4, <1>5, <1>a, <2>1, DatasetFacts
      <3> QED
        BY <1>5, <1>a, <1>9, <1>13, <2>1, <3>1 DEF Fine
    <2>2. CASE step = "second"
      <3>1. \A i \in 1 .. LastDataset :
              /\ Vouched(N.snap, Datasets[i]) \subseteq N.copy[Datasets[i]]
              /\ N.copy[Datasets[i]] \subseteq dbFile[Datasets[i]]
        BY <1>4, <1>9, <1>13, <2>2
      <3>2. \A e \in DatasetNames :
              Vouched(N.snap, e) \subseteq N.copy[e] /\ N.copy[e] \subseteq dbFile[e]
        BY <3>1, DatasetFacts
      <3> QED
        BY <1>5, <1>a, <1>13, <2>2, <3>2 DEF Fine
    <2> QED
      BY <1>4, <2>1, <2>2
  <1> QED
    BY <1>1, <1>3, <1>12, <1>13, <1>14, OneReads

(* The moment of the second check is pinned down row set by row set.         *)
LEMMA DigestFine ==
  ASSUME StoreInv, ReaderShape, ReadersFine, NEW r \in Readers, DigestPart(r)
  PROVE  ReaderShape' /\ ReadersFine' /\ SnapsKept
  <1> DEFINE d == Datasets[reader[r].next]
             step == IF reader[r].next = Len(Datasets) THEN "third" ELSE "digest"
             next == reader[r].next + 1
             N == [reader[r] EXCEPT !.next = next, !.pc = step]
  <1>1. /\ reader[r].pc = "digest"
        /\ UNCHANGED <<dbFile, wal, whole, snapshot>>
        /\ reader' = [reader EXCEPT ![r] = IF ~MatchesCopy(r, d) THEN IdleReader ELSE N]
    BY DEF DigestPart
  <1>2. reader[r] \in ReaderStates /\ Fine(reader[r], dbFile, wal, whole, snapshot)
    BY DEF ReaderShape, ReadersFine
  <1>3. CASE ~MatchesCopy(r, d)
    <2>1. reader' = [reader EXCEPT ![r] = IdleReader]
      BY <1>1, <1>3
    <2> QED
      BY <1>1, <2>1, CommandEnds
  <1>4. CASE MatchesCopy(r, d)
    <2>1. reader' = [reader EXCEPT ![r] = N]
      BY <1>1, <1>4
    <2>2. reader[r].next <= LastDataset
      BY <1>1, <1>2 DEF Fine
    <2>3. reader[r].next \in 1 .. LastDataset
      BY <1>2, <2>2, DatasetFacts DEF ReaderStates
    <2>4. PICK w \in whole :
            /\ \A e \in DatasetNames : reader[r].copy[e] \subseteq w[e] /\ w[e] \subseteq dbFile[e]
            /\ \A i \in 1 .. reader[r].next - 1 : reader[r].copy[Datasets[i]] = w[Datasets[i]]
      BY <1>1, <1>2 DEF Fine
    <2>5. d \in DatasetNames
      BY <2>3, DatasetFacts
    <2>6. reader[r].copy[d] = w[d]
      BY <1>4, <2>4, <2>5 DEF MatchesCopy
    <2>7. \A i \in 1 .. reader[r].next : reader[r].copy[Datasets[i]] = w[Datasets[i]]
      <3> SUFFICES ASSUME NEW i \in 1 .. reader[r].next
                   PROVE  reader[r].copy[Datasets[i]] = w[Datasets[i]]
        OBVIOUS
      <3>1. CASE i = reader[r].next
        BY <2>6, <3>1
      <3>2. CASE i # reader[r].next
        <4>1. i \in 1 .. reader[r].next - 1
          BY <2>3, <3>2
        <4> QED
          BY <2>4, <4>1
      <3> QED
        BY <3>1, <3>2
    <2>8. step \in {"third", "digest"} /\ (step = "third" <=> reader[r].next = LastDataset)
      BY DEF LastDataset
    <2>9. next \in Nat \ {0} /\ next = reader[r].next + 1
      BY <2>3
    <2>10. N = [reader[r] EXCEPT !.next = next, !.pc = step]
      OBVIOUS
    <2> HIDE DEF N, next, step, d
    <2>11. N \in ReaderStates
      BY <1>2, <2>8, <2>9, <2>10 DEF ReaderStates
    <2>12. /\ N.pc = step /\ N.next = reader[r].next + 1 /\ N.snap = reader[r].snap
           /\ N.copy = reader[r].copy
      BY <1>2, <2>9, <2>10 DEF ReaderStates
    <2>13. /\ N.snap \in Snaps /\ snapshot \in Snaps /\ N.snap.at <= snapshot.at
           /\ \A e \in DatasetNames : Vouched(N.snap, e) \subseteq dbFile[e]
           /\ \A e \in DatasetNames : Vouched(N.snap, e) \subseteq N.copy[e]
      BY <1>1, <1>2, <2>12 DEF Fine
    <2>14. Fine(N, dbFile, wal, whole, snapshot)
      <3>1. CASE step = "digest"
        <4>1. reader[r].next + 1 <= LastDataset
              /\ 1 .. (reader[r].next + 1) - 1 = 1 .. reader[r].next
          BY <2>3, <2>8, <3>1, DatasetFacts
        <4>2. \A e \in DatasetNames : N.copy[e] \subseteq w[e] /\ w[e] \subseteq dbFile[e]
          BY <2>4, <2>12
        <4>3. 1 .. N.next - 1 = 1 .. reader[r].next
          BY <2>12, <4>1
        <4>4. \A i \in 1 .. N.next - 1 : N.copy[Datasets[i]] = w[Datasets[i]]
          <5> SUFFICES ASSUME NEW i \in 1 .. N.next - 1
                       PROVE  N.copy[Datasets[i]] = w[Datasets[i]]
            OBVIOUS
          <5>1. i \in 1 .. reader[r].next
            BY <4>3
          <5>2. reader[r].copy[Datasets[i]] = w[Datasets[i]]
            BY <2>7, <5>1
          <5> QED
            BY <2>12, <5>2
        <4> QED
          BY <2>4, <2>12, <2>13, <3>1, <4>1, <4>2, <4>4 DEF Fine
      <3>2. CASE step = "third"
        <4>1. \A i \in 1 .. LastDataset : N.copy[Datasets[i]] = w[Datasets[i]]
          BY <2>7, <2>8, <2>12, <3>2
        <4>2. \A e \in DatasetNames : N.copy[e] = w[e]
          BY <4>1, DatasetFacts
        <4>3. N.copy \in Contents /\ w \in Contents
          BY <2>4, <2>11 DEF StoreInv, StoreShape, ReaderStates
        <4>4. N.copy = w
          BY <4>2, <4>3 DEF Contents
        <4> QED
          BY <2>4, <2>12, <2>13, <3>2, <4>4 DEF Fine
      <3> QED
        BY <2>8, <3>1, <3>2
    <2> QED
      BY <1>1, <2>1, <2>11, <2>12, <2>14, OneReads
  <1> QED
    BY <1>3, <1>4

LEMMA VerifyFine ==
  ASSUME StoreInv, ReaderShape, ReadersFine, NEW r \in Readers, VerifyCopy(r)
  PROVE  ReaderShape' /\ ReadersFine' /\ SnapsKept
  <1> DEFINE N == [reader[r] EXCEPT !.pc = "ready"]
  <1>1. /\ reader[r].pc = "verify"
        /\ UNCHANGED <<dbFile, wal, whole, snapshot>>
        /\ reader' = [reader EXCEPT ![r] = IF CopyHolds(r) THEN N ELSE IdleReader]
    BY DEF VerifyCopy
  <1>2. reader[r] \in ReaderStates /\ Fine(reader[r], dbFile, wal, whole, snapshot)
    BY DEF ReaderShape, ReadersFine
  <1>3. N \in ReaderStates
    BY <1>2 DEF ReaderStates
  <1>4. N.pc = "ready" /\ N.snap = reader[r].snap /\ N.copy = reader[r].copy
    BY <1>2 DEF ReaderStates
  <1> HIDE DEF N
  <1>5. Fine(N, dbFile, wal, whole, snapshot)
    BY <1>1, <1>2, <1>4 DEF Fine
  <1>6. CASE CopyHolds(r)
    <2>1. reader' = [reader EXCEPT ![r] = N]
      BY <1>1, <1>6
    <2> QED
      BY <1>1, <1>3, <1>4, <1>5, <2>1, OneReads
  <1>7. CASE ~CopyHolds(r)
    <2>1. reader' = [reader EXCEPT ![r] = IdleReader]
      BY <1>1, <1>7
    <2> QED
      BY <1>1, <2>1, CommandEnds
  <1> QED
    BY <1>6, <1>7

(* The dashboard stays behind what stands and what is being shown next.      *)
LEMMA DashboardWaits ==
  ASSUME ReadersFine, DashboardBehind, Grows, SnapsKept, UNCHANGED dashboard
  PROVE  DashboardBehind'
  <1> SUFFICES ASSUME OneBuilder, dashboard # Absent
               PROVE  /\ dashboard.at \in Nat /\ snapshot' \in Snaps
                      /\ dashboard.at <= snapshot'.at
                      /\ \A q \in Readers : reader'[q].pc # "idle" =>
                           dashboard.at <= reader'[q].snap.at
    BY DEF DashboardBehind, OneBuilder
  <1>1. /\ dashboard.at \in Nat /\ snapshot \in Snaps /\ dashboard.at <= snapshot.at
        /\ \A q \in Readers : reader[q].pc # "idle" => dashboard.at <= reader[q].snap.at
    BY DEF DashboardBehind
  <1>2. snapshot' \in Snaps /\ snapshot.at <= snapshot'.at
    BY <1>1 DEF Grows
  <1>3. dashboard.at <= snapshot'.at
    <2>1. snapshot.at \in Nat /\ snapshot'.at \in Nat
      BY <1>1, <1>2 DEF Snaps
    <2> QED
      BY <1>1, <1>2, <2>1
  <1>4. \A q \in Readers : reader'[q].pc # "idle" => dashboard.at <= reader'[q].snap.at
    BY <1>1 DEF SnapsKept
  <1> QED
    BY <1>1, <1>2, <1>3, <1>4

LEMMA BuildFine ==
  ASSUME StoreInv, ReaderShape, ReadersFine, DashboardBehind, NEW r \in Readers, WriteDashboard(r)
  PROVE  /\ ReaderShape' /\ ReadersFine' /\ SnapsKept /\ DashboardBehind'
         /\ OneBuilder => DashboardMovesForwardStep
  <1>1. /\ reader[r].pc = "ready"
        /\ UNCHANGED <<dbFile, wal, whole, snapshot>>
        /\ reader' = [reader EXCEPT ![r] = IdleReader]
        /\ dashboard' = [at |-> reader[r].snap.at, ready |-> WarmupReady(reader[r].snap)]
    BY DEF WriteDashboard
  <1>2. Fine(reader[r], dbFile, wal, whole, snapshot)
    BY DEF ReadersFine
  <1>3. reader[r].snap \in Snaps /\ snapshot \in Snaps /\ reader[r].snap.at <= snapshot.at
    BY <1>1, <1>2 DEF Fine
  <1>4. reader[r].snap.at \in Nat
    BY <1>3 DEF Snaps
  <1>5. ReaderShape' /\ ReadersFine' /\ SnapsKept
    BY <1>1, CommandEnds
  <1>6. dashboard'.at = reader[r].snap.at
    BY <1>1
  <1>7. dashboard' # Absent
    <2>1. WarmupReady(reader[r].snap) \in BOOLEAN
      BY DEF WarmupReady
    <2>2. dashboard' \in [at : Nat, ready : BOOLEAN]
      BY <1>1, <1>4, <2>1
    <2> QED
      BY <2>2, AbsentFacts
  <1>8. OneBuilder => \A q \in Readers : reader'[q].pc = "idle"
    BY <1>1, IdleFacts DEF OneBuilder, ReaderShape
  <1>9. DashboardBehind'
    BY <1>1, <1>3, <1>4, <1>6, <1>8 DEF DashboardBehind, OneBuilder
  <1>10. OneBuilder => DashboardMovesForwardStep
    <2> SUFFICES ASSUME OneBuilder, dashboard # Absent
                 PROVE  dashboard' # Absent /\ dashboard'.at >= dashboard.at
      BY DEF DashboardMovesForwardStep
    <2>1. dashboard.at \in Nat /\ dashboard.at <= reader[r].snap.at
      BY <1>1 DEF DashboardBehind
    <2> QED
      BY <1>4, <1>6, <1>7, <2>1
  <1> QED
    BY <1>5, <1>9, <1>10

-----------------------------------------------------------------------------
LEMMA EvidenceBegins == EvidenceInit => EvidenceInv
  <1> SUFFICES ASSUME EvidenceInit
               PROVE  EvidenceInv
    OBVIOUS
  <1>1. MaxClock \in Nat
    BY DatasetsAssumption
  <1>2. dbFile \in Contents /\ wal \in Contents /\ \A d \in DatasetNames : wal[d] = {}
    BY <1>1 DEF EvidenceInit, Contents, Rows
  <1>3. /\ clock = 0 /\ sidecar = FALSE /\ snapshot = Absent /\ dashboard = Absent
        /\ collector = [c \in Collectors |-> IdleCollector]
        /\ reader = [r \in Readers |-> IdleReader]
        /\ whole = {dbFile}
    BY DEF EvidenceInit
  <1>4. StoreShape
    BY <1>2, <1>3, IdleFacts DEF StoreShape
  <1>5. CollectorsInTurn /\ AtRest /\ SnapshotIsStored
    BY <1>2, <1>3, IdleFacts DEF CollectorsInTurn, InTurn, AtRest, SnapshotIsStored
  <1>6. ReaderShape /\ ReadersFine
    BY <1>3, IdleFacts DEF ReaderShape, ReadersFine, Fine
  <1>7. DashboardBehind
    BY <1>3 DEF DashboardBehind
  <1> QED
    BY <1>4, <1>5, <1>6, <1>7 DEF EvidenceInv, StoreInv

LEMMA CollectorWorks ==
  ASSUME StoreInv, NEW c \in Collectors, CollectorStep(c)
  PROVE  StoreInv' /\ Grows /\ UNCHANGED <<reader, dashboard, export>>
  <1>1. CASE BeginCollect(c)
    BY <1>1, BeginInTurn DEF BeginCollect
  <1>2. CASE ReadServerTime(c)
    BY <1>2, TimeInTurn DEF ReadServerTime
  <1>3. CASE CollectDataset(c)
    BY <1>3, CollectInTurn DEF CollectDataset
  <1>4. CASE CloseStore(c)
    BY <1>4, CloseInTurn DEF CloseStore
  <1>5. CASE PublishSnapshot(c)
    BY <1>5, PublishInTurn DEF PublishSnapshot
  <1>6. CASE CrashCollector(c)
    BY <1>6, CrashInTurn DEF CrashCollector
  <1> QED
    BY <1>1, <1>2, <1>3, <1>4, <1>5, <1>6 DEF CollectorStep

LEMMA ReaderReads ==
  ASSUME EvidenceInv, NEW r \in Readers, ReaderStep(r)
  PROVE  /\ StoreInv' /\ Grows /\ ReaderShape' /\ ReadersFine' /\ DashboardBehind'
         /\ ExportIsFinalStep /\ (OneBuilder => DashboardMovesForwardStep)
  <1>1. StoreInv /\ ReaderShape /\ ReadersFine /\ DashboardBehind /\ clock \in Nat
    BY DEF EvidenceInv, StoreInv, StoreShape
  <1>2. UNCHANGED <<clock, dbFile, wal, sidecar, holder, snapshot, collector, whole>>
    BY DEF ReaderStep, LoadSnapshot, CheckSidecar, CopyPart, DigestPart, VerifyCopy,
           WriteDashboard, WriteExport
  <1>3. StoreInv' /\ Grows
    BY <1>1, <1>2, StoreUntouched
  <1>4. CASE WriteDashboard(r)
    <2>1. export' = export
      BY <1>4 DEF WriteDashboard
    <2> QED
      BY <1>1, <1>3, <1>4, <2>1, BuildFine DEF ExportIsFinalStep
  <1>5. CASE ~WriteDashboard(r)
    <2>1. UNCHANGED dashboard
      BY <1>5 DEF ReaderStep, LoadSnapshot, CheckSidecar, CopyPart, DigestPart, VerifyCopy,
                  WriteExport
    <2>2. ReaderShape' /\ ReadersFine' /\ SnapsKept
      <3>1. CASE WriteExport(r)
        BY <1>1, <1>2, <3>1, CommandEnds DEF WriteExport
      <3> QED
        BY <1>1, <1>5, <3>1, LoadFine, CheckFine, CopyFine, DigestFine, VerifyFine DEF ReaderStep
    <2>3. ExportIsFinalStep
      BY <1>5 DEF ReaderStep, LoadSnapshot, CheckSidecar, CopyPart, DigestPart, VerifyCopy,
                  WriteExport, CreatesExport, ExportIsFinalStep
    <2>4. DashboardBehind'
      BY <1>1, <1>3, <2>1, <2>2, DashboardWaits
    <2>5. OneBuilder => DashboardMovesForwardStep
      BY <1>1, <2>1 DEF DashboardMovesForwardStep, DashboardBehind
    <2> QED
      BY <1>3, <2>2, <2>3, <2>4, <2>5
  <1> QED
    BY <1>4, <1>5

(* Every step keeps the invariant and takes nothing back.                    *)
LEMMA EvidenceSteps ==
  ASSUME EvidenceInv, [EvidenceNext]_evidenceVars
  PROVE  EvidenceInv' /\ EvidenceIsKeptStep
  <1>1. StoreInv /\ ReaderShape /\ ReadersFine /\ DashboardBehind /\ clock \in Nat
    BY DEF EvidenceInv, StoreInv, StoreShape
  <1>2. SUFFICES /\ StoreInv' /\ Grows /\ ReaderShape' /\ ReadersFine' /\ DashboardBehind'
                 /\ ExportIsFinalStep /\ (OneBuilder => DashboardMovesForwardStep)
    <2>1. Grows => SnapshotMovesForwardStep
      <3> SUFFICES ASSUME Grows, snapshot # Absent
                   PROVE  snapshot' # Absent /\ snapshot'.at >= snapshot.at
        BY DEF SnapshotMovesForwardStep
      <3>1. snapshot \in Snaps
        BY <1>1 DEF StoreInv, StoreShape
      <3>2. snapshot' \in Snaps /\ snapshot.at <= snapshot'.at
        BY <3>1 DEF Grows
      <3>3. snapshot.at \in Nat /\ snapshot'.at \in Nat
        BY <3>1, <3>2 DEF Snaps
      <3> QED
        BY <3>2, <3>3, AbsentFacts
    <2> QED
      BY <2>1 DEF EvidenceInv, EvidenceIsKeptStep
  <1>3. ASSUME StoreInv', Grows, UNCHANGED <<reader, dashboard, export>>
        PROVE  /\ StoreInv' /\ Grows /\ ReaderShape' /\ ReadersFine' /\ DashboardBehind'
               /\ ExportIsFinalStep /\ (OneBuilder => DashboardMovesForwardStep)
    <2>1. ReaderShape' /\ ReadersFine' /\ SnapsKept
      BY <1>1, <1>3, ReadersWait
    <2>2. DashboardBehind'
      BY <1>1, <1>3, <2>1, DashboardWaits
    <2>3. ExportIsFinalStep /\ (OneBuilder => DashboardMovesForwardStep)
      BY <1>1, <1>3 DEF ExportIsFinalStep, DashboardMovesForwardStep, DashboardBehind
    <2> QED
      BY <1>3, <2>1, <2>2, <2>3
  <1>4. CASE ClockTick
    <2>1. /\ clock' \in Nat /\ UNCHANGED <<reader, dashboard, export>>
          /\ UNCHANGED <<dbFile, wal, sidecar, holder, snapshot, collector, whole>>
      BY <1>1, <1>4 DEF ClockTick
    <2>2. StoreInv' /\ Grows
      BY <1>1, <2>1, StoreUntouched
    <2> QED
      BY <1>3, <2>1, <2>2
  <1>5. CASE Checkpoint
    <2>1. UNCHANGED <<reader, dashboard, export>>
      BY <1>5 DEF Checkpoint
    <2> QED
      BY <1>1, <1>3, <1>5, <2>1, CheckpointInTurn
  <1>6. CASE \E c \in Collectors : CollectorStep(c)
    <2>1. PICK c \in Collectors : CollectorStep(c)
      BY <1>6
    <2> QED
      BY <1>1, <1>3, <2>1, CollectorWorks
  <1>7. CASE \E r \in Readers : ReaderStep(r)
    <2>1. PICK r \in Readers : ReaderStep(r)
      BY <1>7
    <2> QED
      BY <2>1, ReaderReads
  <1>8. CASE UNCHANGED evidenceVars
    <2>1. /\ clock' \in Nat /\ UNCHANGED <<reader, dashboard, export>>
          /\ UNCHANGED <<dbFile, wal, sidecar, holder, snapshot, collector, whole>>
      BY <1>1, <1>8 DEF evidenceVars
    <2>2. StoreInv' /\ Grows
      BY <1>1, <2>1, StoreUntouched
    <2> QED
      BY <1>3, <2>1, <2>2
  <1> QED
    BY <1>4, <1>5, <1>6, <1>7, <1>8 DEF EvidenceNext

LEMMA EvidenceHolds == EvidenceInv => EvidenceIsSound
  <1> SUFFICES ASSUME EvidenceInv
               PROVE  EvidenceIsSound
    OBVIOUS
  <1>1. SnapshotIsStored
    BY DEF EvidenceInv, StoreInv
  <1>2. CopyIsWhole
    BY DEF EvidenceInv, ReadersFine, Fine, CopyIsWhole
  <1>3. CopyCoversSnapshot
    BY DEF EvidenceInv, ReadersFine, Fine, CopyCoversSnapshot, CopyHolds, Vouched
  <1> QED
    BY <1>1, <1>2, <1>3 DEF EvidenceIsSound

(* Whatever collectors, readers, crashes and a lagging server do, a          *)
(* published snapshot names stored candles and a copy that got through the   *)
(* checks of the read-only commands is the database of one moment and covers *)
(* the snapshot (collect_once, _verify_snapshot_store).                      *)
THEOREM EvidenceTheorem == EvidenceSpec => []EvidenceIsSound
  <1>1. EvidenceInit => EvidenceInv
    BY EvidenceBegins
  <1>2. EvidenceInv /\ [EvidenceNext]_evidenceVars => EvidenceInv'
    BY EvidenceSteps
  <1>3. EvidenceInv => EvidenceIsSound
    BY EvidenceHolds
  <1> QED
    BY <1>1, <1>2, <1>3, PTL DEF EvidenceSpec

(* The snapshot never goes back, an export is final, and neither does the    *)
(* dashboard of one builder go back (collect_once, _atomic_no_overwrite).    *)
THEOREM EvidenceKeptTheorem == EvidenceSpec => EvidenceIsKept
  <1>1. EvidenceInit => EvidenceInv
    BY EvidenceBegins
  <1>2. EvidenceInv /\ [EvidenceNext]_evidenceVars => EvidenceInv' /\ EvidenceIsKeptStep
    BY EvidenceSteps
  <1> QED
    BY <1>1, <1>2, PTL DEF EvidenceSpec, EvidenceIsKept
=============================================================================
