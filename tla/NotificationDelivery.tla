------------------------ MODULE NotificationDelivery ------------------------
(***************************************************************************)
(* P9 notification delivery (yatl/notifications) and the P10 monitor that  *)
(* drives it (yatl/validation/monitor_notify.py).  A notifier process      *)
(* works through a list of jobs, one notification each: it reads the       *)
(* symbol's delivery-state file, suppresses a notification the file        *)
(* already records, otherwise posts it to Telegram with bounded retries    *)
(* and rewrites the whole state file.  Processes crash between any two     *)
(* steps and a systemd timer or an operator starts them again.             *)
(***************************************************************************)
EXTENDS Naturals, Sequences, FiniteSets, SequencesExt

CONSTANTS
    Monitors,      \* runs of the monitor's timer service (systemd: one at a time)
    Runners,       \* runs of the notifier's own command line
    SymbolOrder,   \* SYMBOLS, in the order the monitor visits them
    Reports,       \* validation summaries, numbered as they are produced
    MaxAttempts,   \* MAX_ATTEMPTS
    Backoff,       \* NETWORK_BACKOFF_SECONDS, one entry per retry
    MaxRateWait,   \* MAX_RATE_LIMIT_WAIT_SECONDS
    MaxTotalWait,  \* MAX_TOTAL_WAIT_SECONDS
    MaxRecords,    \* MAX_DELIVERY_RECORDS
    RetryAfters,   \* retry_after values Telegram answers with
    Answers,       \* what a post may come to (see the Send actions)
    Faults,        \* which of "crash", "storage", "config" happen
    MaxPosts       \* bound: messages Telegram accepts per notification

DeliveryAssumption ==
    /\ MaxAttempts \in Nat \ {0}
    /\ Backoff \in Seq(Nat) /\ Len(Backoff) >= MaxAttempts - 1
    /\ {MaxRateWait, MaxTotalWait, MaxRecords, MaxPosts} \subseteq Nat
    /\ SymbolOrder \in Seq(Range(SymbolOrder)) /\ SymbolOrder # << >>
    /\ Reports \subseteq Nat /\ Reports # {}
    /\ RetryAfters \subseteq Nat

Notifiers == Monitors \cup Runners
Symbols == Range(SymbolOrder)
NoSymbol == "NONE"
\* A notification is what its digest covers: the symbol it names (a data
\* quality alert names none) and the report it was projected from.
Notifications == [symbol : Symbols \cup {NoSymbol}, report : Reports]
Codes == {"DELIVERED", "DUPLICATE_SUPPRESSED", "SOURCE_REJECTED",
          "SOURCE_MUTATED", "CONFIG_REJECTED", "DELIVERY_REJECTED",
          "STORAGE_ERROR"}

VARIABLES
    summary,    \* the newest validation summary on disk
    deliveries, \* symbol -> notifications its state file records
    accepted,  \* notification -> messages Telegram accepted for it
    proc       \* process -> its program counter and locals

deliveryVars == <<summary, deliveries, accepted, proc>>

IdleNotifier == [pc |-> "idle", jobs |-> << >>, view |-> {}, attempt |-> 0,
         waited |-> 0, unchanged |-> TRUE, codes |-> << >>]

Job(p) == Head(proc[p].jobs)
Note(p) == Job(p).note
StateFile(p) == deliveries[Job(p).symbol]

DeliveryInit ==
    /\ summary = CHOOSE r \in Reports : \A q \in Reports : r <= q
    /\ deliveries = [s \in Symbols |-> {}]
    /\ accepted = [n \in Notifications |-> 0]
    /\ proc = [p \in Notifiers |-> IdleNotifier]

Set(p, locals) == proc' = [proc EXCEPT ![p] = locals]

\* The job ends with a code; the monitor goes on to the next symbol, whatever
\* the code, and the process ends after the last.
Finish(p, code) ==
    LET rest == Tail(proc[p].jobs)
        codes == Append(proc[p].codes, code)
    IN proc' = [proc EXCEPT ![p] =
           IF rest = << >> THEN [IdleNotifier EXCEPT !.codes = codes]
           ELSE [IdleNotifier EXCEPT !.pc = "load", !.jobs = rest, !.codes = codes]]
-----------------------------------------------------------------------------
\* The collector leaves a new validation summary on disk.
NewReport ==
    /\ summary + 1 \in Reports
    /\ summary' = summary + 1
    /\ UNCHANGED <<deliveries, accepted, proc>>

\* project_p10_validation_status / project_system_status
ProjectStatus(s) == [symbol |-> s, report |-> summary]

\* project_data_quality_alert: the alert names no symbol
ProjectAlert == [symbol |-> NoSymbol, report |-> summary]

\* send_monitor_notifications: one status per symbol, each with its own file
StartMonitor(p) ==
    /\ proc[p].pc = "idle"
    /\ proc' = [proc EXCEPT ![p] = [IdleNotifier EXCEPT !.pc = "load",
           !.jobs = [i \in DOMAIN SymbolOrder |->
                        [symbol |-> SymbolOrder[i],
                         note |-> ProjectStatus(SymbolOrder[i])]]]]
    /\ UNCHANGED <<summary, deliveries, accepted>>

\* The runner's own command line: one notification, --symbol one of SYMBOLS
StartRunner(p) ==
    /\ proc[p].pc = "idle"
    /\ \E s \in Symbols, n \in {ProjectStatus(t) : t \in Symbols} \cup {ProjectAlert} :
          proc' = [proc EXCEPT ![p] = [IdleNotifier EXCEPT !.pc = "load",
                      !.jobs = <<[symbol |-> s, note |-> n]>>]]
    /\ UNCHANGED <<summary, deliveries, accepted>>

SourceAccepted(job) == job.note.symbol = job.symbol

DuplicateOfReport(p) == \E n \in StateFile(p) : n.report > Note(p).report

Duplicate(p) == Note(p) \in StateFile(p)

RoomShort(view) == Cardinality(view) + 1 < MaxRecords

Room(view) == Cardinality(view) < MaxRecords

\* notifier_run up to guarded_send's loop: source, state file, duplicate,
\* credentials, room for the record the send will need.
LoadRejected(p) ==
    /\ proc[p].pc = "load"
    /\ ~SourceAccepted(Job(p))
    /\ Finish(p, "SOURCE_REJECTED")
    /\ UNCHANGED <<summary, deliveries, accepted>>

\* The monitor cannot write its temporary input: the remaining symbols are
\* given up with it.
LoadStorageError(p) ==
    /\ "storage" \in Faults
    /\ proc[p].pc = "load" /\ p \in Monitors
    /\ proc' = [proc EXCEPT ![p] = IdleNotifier]
    /\ UNCHANGED <<summary, deliveries, accepted>>

LoadDuplicate(p) ==
    /\ proc[p].pc = "load"
    /\ SourceAccepted(Job(p))
    /\ Duplicate(p)
    /\ \E code \in {"DUPLICATE_SUPPRESSED", "SOURCE_MUTATED"} : Finish(p, code)
    /\ UNCHANGED <<summary, deliveries, accepted>>

LoadNoCredentials(p) ==
    /\ "config" \in Faults
    /\ proc[p].pc = "load"
    /\ SourceAccepted(Job(p))
    /\ ~Duplicate(p)
    /\ Finish(p, "CONFIG_REJECTED")
    /\ UNCHANGED <<summary, deliveries, accepted>>

LoadFull(p) ==
    /\ proc[p].pc = "load"
    /\ SourceAccepted(Job(p))
    /\ ~Duplicate(p)
    /\ ~Room(StateFile(p))
    /\ Finish(p, "DELIVERY_REJECTED")
    /\ UNCHANGED <<summary, deliveries, accepted>>

LoadSend(p) ==
    /\ proc[p].pc = "load"
    /\ SourceAccepted(Job(p))
    /\ ~Duplicate(p)
    /\ Room(StateFile(p))
    /\ Set(p, [proc[p] EXCEPT !.pc = "send", !.view = StateFile(p), !.attempt = 1])
    /\ UNCHANGED <<summary, deliveries, accepted>>
-----------------------------------------------------------------------------
\* guarded_send: another attempt after a wait, within both bounds, or give up
WaitFitsSoFar(waited, wait) == waited <= MaxTotalWait

WaitFits(waited, wait) == waited + wait <= MaxTotalWait

Retry(p, wait) ==
    IF /\ proc[p].attempt < MaxAttempts
       /\ WaitFits(proc[p].waited, wait)
    THEN Set(p, [proc[p] EXCEPT !.attempt = @ + 1, !.waited = @ + wait])
    ELSE Finish(p, "DELIVERY_REJECTED")

\* NETWORK_ERROR: no connection object, so no request left the process
SendRefused(p) ==
    /\ "refused" \in Answers
    /\ proc[p].pc = "send"
    /\ Retry(p, IF proc[p].attempt < MaxAttempts THEN Backoff[proc[p].attempt] ELSE 0)
    /\ UNCHANGED <<summary, deliveries, accepted>>

\* RATE_LIMITED: HTTP 429 with a valid retry_after; Telegram took nothing
SendLimited(p) ==
    /\ "limited" \in Answers
    /\ proc[p].pc = "send"
    /\ \E wait \in RetryAfters :
          IF wait <= MaxRateWait THEN Retry(p, wait)
          ELSE Finish(p, "DELIVERY_REJECTED")
    /\ UNCHANGED <<summary, deliveries, accepted>>

Accept(p) ==
    /\ accepted[Note(p)] < MaxPosts
    /\ accepted' = [accepted EXCEPT ![Note(p)] = @ + 1]

\* _guard_error_for_transport: never another attempt
TransportRejected(p) == Finish(p, "DELIVERY_REJECTED")

\* NETWORK_AMBIGUOUS: the connection failed after the request was issued
SendLost(p) ==
    /\ "ambiguous" \in Answers
    /\ proc[p].pc = "send"
    /\ Accept(p) \/ UNCHANGED accepted
    /\ TransportRejected(p)
    /\ UNCHANGED <<summary, deliveries>>

\* HTTP_STATUS, RESPONSE_INVALID, RESPONSE_TOO_LARGE, API_REJECTED: an answer
\* came, and except for API_REJECTED Telegram may have taken the message.
SendAnswerRejected(p) ==
    /\ "rejected" \in Answers
    /\ proc[p].pc = "send"
    /\ Accept(p) \/ UNCHANGED accepted
    /\ TransportRejected(p)
    /\ UNCHANGED <<summary, deliveries>>

\* A receipt: _validate_receipt, the DeliveryRecord, the re-read of the source
SendAccepted(p) ==
    /\ "accepted" \in Answers
    /\ proc[p].pc = "send"
    /\ Accept(p)
    /\ \E same \in BOOLEAN :
          Set(p, [proc[p] EXCEPT !.pc = "write", !.unchanged = same])
    /\ UNCHANGED <<summary, deliveries>>

Reported(p) == IF proc[p].unchanged THEN "DELIVERED" ELSE "SOURCE_MUTATED"

\* _write_delivery_state: the state this process read plus its own record
\* replaces the file, whatever the file holds by now; the changed source is
\* reported only after that.
WriteState(p) ==
    /\ proc[p].pc = "write"
    /\ deliveries' = [deliveries EXCEPT ![Job(p).symbol] = proc[p].view \cup {Note(p)}]
    /\ Finish(p, Reported(p))
    /\ UNCHANGED <<summary, accepted>>

WriteFailed(p) ==
    /\ "storage" \in Faults
    /\ proc[p].pc = "write"
    /\ Finish(p, "STORAGE_ERROR")
    /\ UNCHANGED <<summary, deliveries, accepted>>

\* The process dies; the temporary input and state files it leaves are not
\* read by anyone.
Killed(p) ==
    /\ "crash" \in Faults
    /\ proc[p].pc # "idle"
    /\ proc' = [proc EXCEPT ![p] = IdleNotifier]
    /\ UNCHANGED <<summary, deliveries, accepted>>
-----------------------------------------------------------------------------
NotifierStep(p) ==
    \/ LoadRejected(p) \/ LoadStorageError(p) \/ LoadDuplicate(p) \/ LoadNoCredentials(p)
    \/ LoadFull(p) \/ LoadSend(p)
    \/ SendRefused(p) \/ SendLimited(p) \/ SendLost(p)
    \/ SendAnswerRejected(p) \/ SendAccepted(p)
    \/ WriteState(p) \/ WriteFailed(p)

DeliveryNext ==
    \/ NewReport
    \/ \E p \in Monitors : StartMonitor(p)
    \/ \E p \in Runners : StartRunner(p)
    \/ \E p \in Notifiers : NotifierStep(p) \/ Killed(p)

DeliverySpec == DeliveryInit /\ [][DeliveryNext]_deliveryVars

\* The timer keeps starting the monitor, a process that runs keeps running,
\* and the collector keeps producing summaries.
DeliveryFairness ==
    /\ WF_deliveryVars(NewReport)
    /\ \A p \in Monitors : WF_deliveryVars(StartMonitor(p))
    /\ \A p \in Notifiers : WF_deliveryVars(NotifierStep(p))

FairDeliverySpec == DeliverySpec /\ DeliveryFairness

-----------------------------------------------------------------------------
DeliveryTypes ==
    /\ summary \in Reports
    /\ deliveries \in [Symbols -> SUBSET Notifications]
    /\ accepted \in [Notifications -> 0 .. MaxPosts]
    /\ \A p \in Notifiers :
          /\ proc[p].pc \in {"idle", "load", "send", "write"}
          /\ proc[p].attempt \in 0 .. MaxAttempts
          /\ Range(proc[p].codes) \subseteq Codes

\* A delivery-state file records only notifications Telegram accepted, never
\* more than MAX_DELIVERY_RECORDS of them, and only of its own symbol: what a
\* second process writes over it is still such a set.
RecordsAreReal ==
    \A s \in Symbols :
        /\ Cardinality(deliveries[s]) <= MaxRecords
        /\ \A n \in deliveries[s] : n.symbol = s /\ accepted[n] > 0

\* The waits of one guarded send never add up to more than
\* MAX_TOTAL_WAIT_SECONDS, whatever mix of refusals and retry_after answers
\* the attempts meet.
WaitsBounded == \A p \in Notifiers : proc[p].waited <= MaxTotalWait

\* One guarded send makes Telegram accept a message at most once: an attempt
\* that may have been accepted is the last one (P9-IMPLEMENTATION-PLAN:211).
\* Stated of the step: once the job's notification is accepted by this job's
\* own post, the job leaves the sending state.
OnePostPerSendStep ==
    \A p \in Notifiers :
       \A n \in Notifications :
          (/\ accepted'[n] > accepted[n]
           /\ proc[p].pc = "send" /\ Note(p) = n
           /\ proc[p] # proc'[p]) => proc'[p].pc # "send"

OnePostPerSend == [][OnePostPerSendStep]_deliveryVars

\* With one notifier at a time, an acknowledged delivery is in the state file
\* when the job ends without a storage error, a
\* changed source included.
AcknowledgedIsRecordedStep ==
    \A p \in Notifiers :
       (/\ proc[p].pc = "write" /\ proc'[p].pc # "write"
        /\ proc'[p].codes # << >> /\ Last(proc'[p].codes) # "STORAGE_ERROR")
          => Note(p) \in deliveries'[Job(p).symbol]

AcknowledgedIsRecorded == [][AcknowledgedIsRecordedStep]_deliveryVars

\* A recorded notification stays recorded and is never posted again, by this
\* or a later process, crashes included (guarded_send's duplicate check).
RecordedNotPostedStep ==
    \A s \in Symbols : \A n \in deliveries[s] :
       accepted'[n] = accepted[n] /\ n \in deliveries'[s]

RecordedNotPosted == [][RecordedNotPostedStep]_deliveryVars

\* Telegram accepts every notification at most once.
AtMostOnce == \A n \in Notifications : accepted[n] <= 1

\* One notifier at a time; and one that is not killed, whose writes succeed and whose
\* service says with every answer what it did.
Alone == \A p, q \in Notifiers : p = q

Calm ==
    /\ Alone
    /\ "crash" \notin Faults /\ "storage" \notin Faults
    /\ "ambiguous" \notin Answers /\ "rejected" \notin Answers

\* A send never waits longer than its bound, a record in the delivery state stands for
\* a post the service took, and a status is posted once as long as nothing disturbs
\* its notifier (guarded_send, send_monitor_notifications).
DeliveryIsBounded == RecordsAreReal /\ WaitsBounded /\ (Calm => AtMostOnce)

\* A post is made only for a send, an acknowledged one is recorded before the next, and
\* what is recorded is never posted again by the only notifier (guarded_send,
\* _write_delivery_state).
PostsAreGuardedStep ==
    OnePostPerSendStep /\ AcknowledgedIsRecordedStep /\ (Alone => RecordedNotPostedStep)

PostsAreGuarded == [][PostsAreGuardedStep]_deliveryVars

LatestAccepted(s) ==
    accepted[[symbol |-> s,
              report |-> CHOOSE r \in Reports : \A q \in Reports : q <= r]] > 0

\* Every symbol's latest status is eventually accepted by Telegram.
LatestTold == \A s \in Symbols : <>LatestAccepted(s)
=============================================================================
