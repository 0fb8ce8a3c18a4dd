--------------------------- MODULE RecoverySnapshot ---------------------------
(***************************************************************************)
(* The recovery snapshot of the Paper stores (yatl/execution/recovery.py)  *)
(* and the operator commands that use it (runner.py): status, recover      *)
(* --create-snapshot and recover --confirmation.                           *)
(*                                                                         *)
(* A snapshot is an accelerator kept in a file beside the database.  It is *)
(* built with one SELECT per table while executors may be writing, written *)
(* to <path>.pending and renamed; a pending file left by a crash blocks    *)
(* recovery until an operator confirms the digest of what is on disk.      *)
(*                                                                         *)
(* The stores (PaperStores) appear here as what the anchors of a snapshot  *)
(* refer to: append-only rows.  An order that has n events is in the state *)
(* those events replay to, so n stands for the digests of both.            *)
(***************************************************************************)
EXTENDS Integers, FiniteSets, FiniteSetsExt

CONSTANTS
    Auths,       \* authorizations
    Operators,   \* concurrent invocations of the operator command
    Specs,       \* BacktestSpec files an operator may pass
    Accepted,    \* the one the portfolio was written under
    None,
    MaxEvents, MaxFills,     \* bounds on the rows of the stores
    MaxCommands, MaxCrashes  \* bounds on commands and on crashes

ASSUME SnapshotAssumption ==
    /\ Accepted \in Specs
    /\ {MaxEvents, MaxFills, MaxCommands, MaxCrashes} \subseteq Nat

(* The rows of the stores, a snapshot of them, and a file that holds one.    *)
Stores == [intents : SUBSET Auths, events : [Auths -> Nat], fills : Nat, count : Nat]

Snapshots ==
    [spec : Specs \cup {None}, digest : Stores \cup {None}, intents : SUBSET Auths,
     orders : [Auths -> Nat], fills : Nat, count : Nat]

Files == [by : Operators, snap : Snapshots, complete : BOOLEAN]

(* A path with no file is not a file. *)
ASSUME NoneAssumption == None \notin Files

VARIABLES
    db,        \* intents, events per authorization, rows of events and of fills
    target,    \* the snapshot file
    pending,   \* the file <path>.pending
    op,        \* the invocation of each operator: step, command, partial snapshot
    seen,      \* the confirmation digest an operator last saw in a report
    report,    \* the code of the last recovery report of each operator
    commands, crashes,
    turns      \* operators take turns: a command begins when no other runs

vars == <<db, target, pending, op, seen, report, commands, crashes, turns>>

EmptySnapshot ==
    [spec |-> None, digest |-> None, intents |-> {}, orders |-> [a \in Auths |-> 0],
     fills |-> 0, count |-> 0]

Idle == [pc |-> "idle", cmd |-> "status", spec |-> Accepted, after |-> FALSE,
         given |-> None, snap |-> EmptySnapshot]

-----------------------------------------------------------------------------
(* What the comparisons of this component can tell of the stores. *)
Total(orders) == FoldSet(LAMBDA a, sum : sum + orders[a], 0, Auths)

(* reconcile_startup: every intent has its order, and the portfolio row, if  *)
(* there is one, was written under the given spec.                           *)
Reconciled(d, spec) ==
    /\ {a \in Auths : d.events[a] > 0} = d.intents
    /\ d.fills > 0 => spec = Accepted

(* _validate_snapshot_prefix and the count comparisons after it.  Rows are   *)
(* immutable, so an anchored row is there iff the table reaches that far.    *)
PrefixOf(s, d) ==
    /\ s.intents \subseteq d.intents
    /\ \A a \in s.intents : s.orders[a] <= d.events[a]
    /\ s.fills <= d.fills
    /\ s.count <= d.count

HasTail(s, d) ==
    s.intents # d.intents \/ s.count # d.count \/ s.fills # d.fills

(* RecoverySnapshot.__post_init__: coverage and the event count. *)
WellFormed(s) ==
    /\ {a \in Auths : s.orders[a] > 0} = s.intents
    /\ s.count = Total(s.orders)

File(p, s, complete) == [by |-> p, snap |-> s, complete |-> complete]

(* _pending_confirmation: the digest of the two files as they are. *)
Digest == <<pending, target>>

(* The digest the operator typed is the one of the files as they are. *)
ConfirmationMatches(p) == op[p].given = Digest

-----------------------------------------------------------------------------
(* Executors write while operators work. *)
Write(d) ==
    /\ db' = d
    /\ UNCHANGED <<target, pending, op, seen, report, commands, crashes, turns>>

WriteIntent(a) ==
    a \notin db.intents /\ Write([db EXCEPT !.intents = @ \cup {a}])

WriteEvent(a) ==
    /\ a \in db.intents /\ db.events[a] < MaxEvents
    /\ Write([db EXCEPT !.events[a] = @ + 1, !.count = @ + 1])

WriteFill == db.fills < MaxFills /\ (\E a \in Auths : db.events[a] > 1)
             /\ Write([db EXCEPT !.fills = @ + 1])

-----------------------------------------------------------------------------
Goto(p, pc) == op' = [op EXCEPT ![p].pc = pc]

End(p) == op' = [op EXCEPT ![p] = Idle]

Begin(p, cmd, spec) ==
    /\ op[p].pc = "idle" /\ commands < MaxCommands
    /\ turns => \A q \in Operators : op[q].pc = "idle"
    /\ cmd = "confirm" => seen[p] # None
    /\ commands' = commands + 1
    /\ op' = [op EXCEPT ![p] = [Idle EXCEPT !.pc = "probe", !.cmd = cmd, !.spec = spec,
                                     !.given = IF cmd = "confirm" THEN seen[p] ELSE None]]
    /\ UNCHANGED <<db, target, pending, seen, report, crashes, turns>>

(* Any recovery clears away what an interrupted one left. *)
ReportUnconfirmed(p, code) ==
    /\ report' = [report EXCEPT ![p] = code]
    /\ CASE op[p].cmd = "create" /\ ~op[p].after /\ code = "JOURNAL_REBUILD_READY" ->
              Goto(p, "build")
         [] op[p].cmd # "status" /\ code = "AMBIGUOUS_COMMIT" /\ ~op[p].after ->
              Goto(p, "unlink")
         [] OTHER -> End(p)

(* What operator_status and operator_recover do with a recovery report.      *)
Report(p, code) ==
    /\ report' = [report EXCEPT ![p] = code]
    /\ CASE op[p].cmd = "create" /\ ~op[p].after /\ code = "JOURNAL_REBUILD_READY" ->
              Goto(p, "build")
         [] op[p].cmd = "confirm" /\ code = "AMBIGUOUS_COMMIT"
              /\ ConfirmationMatches(p) /\ ~op[p].after -> Goto(p, "confirm")
         [] OTHER -> End(p)

(* recover_startup up to the snapshot: the pending file, then the target.    *)
Probe(p) ==
    /\ op[p].pc = "probe"
    /\ IF pending # None
       THEN /\ Report(p, "AMBIGUOUS_COMMIT")
            /\ seen' = [seen EXCEPT ![p] = Digest]
       ELSE /\ seen' = seen
            /\ CASE target = None -> Goto(p, "rebuild") /\ UNCHANGED report
                 [] target # None /\ ~target.complete -> Report(p, "SNAPSHOT_CORRUPT")
                 [] target # None /\ target.complete /\ target.snap.spec # op[p].spec ->
                      Report(p, "SPEC_DRIFT")
                 [] OTHER -> /\ op' = [op EXCEPT ![p].pc = "prefix",
                                                 ![p].snap = target.snap]
                             /\ UNCHANGED report
    /\ UNCHANGED <<db, target, pending, commands, crashes, turns>>

Rebuild(p) ==
    /\ op[p].pc = "rebuild"
    /\ Report(p, IF Reconciled(db, op[p].spec) THEN "JOURNAL_REBUILD_READY"
                 ELSE "JOURNAL_RECONCILIATION_FAILED")
    /\ UNCHANGED <<db, target, pending, seen, commands, crashes, turns>>

Prefix(p) ==
    /\ op[p].pc = "prefix"
    /\ IF PrefixOf(op[p].snap, db)
       THEN op' = [op EXCEPT ![p].pc = IF HasTail(op[p].snap, db) THEN "tail" ELSE "match"]
            /\ UNCHANGED report
       ELSE Report(p, "SNAPSHOT_PREFIX_MISMATCH")
    /\ UNCHANGED <<db, target, pending, seen, commands, crashes, turns>>

Replay(p) ==
    /\ op[p].pc \in {"tail", "match"}
    /\ Report(p, CASE ~Reconciled(db, op[p].spec) -> "JOURNAL_RECONCILIATION_FAILED"
                   [] op[p].pc = "tail" /\ Reconciled(db, op[p].spec) -> "TAIL_REPLAYED"
                   [] OTHER -> "MATCH")
    /\ UNCHANGED <<db, target, pending, seen, commands, crashes, turns>>

-----------------------------------------------------------------------------
(* _build_snapshot: reconcile, then one SELECT per table. *)
Build(p, pc, next, snap) ==
    /\ op[p].pc = pc
    /\ op' = [op EXCEPT ![p].pc = next, ![p].snap = snap]
    /\ UNCHANGED <<db, target, pending, seen, report, commands, crashes, turns>>

BuildReconcile(p) ==
    /\ Reconciled(db, op[p].spec)
    /\ Build(p, "build", "intents",
             [EmptySnapshot EXCEPT !.spec = op[p].spec, !.digest = db])

BuildIntents(p) ==
    Build(p, "intents", "orders", [op[p].snap EXCEPT !.intents = db.intents])

BuildOrders(p) ==
    Build(p, "orders", "fills", [op[p].snap EXCEPT !.orders = db.events])

BuildFills(p) ==
    Build(p, "fills", "count", [op[p].snap EXCEPT !.fills = db.fills])

BuildCount(p) ==
    LET s == [op[p].snap EXCEPT !.count = db.count] IN
    /\ WellFormed(s)
    /\ Build(p, "count", "check", s)

(* RecoverySnapshotError before anything is written. *)
BuildRefused(p) ==
    /\ \/ op[p].pc = "build" /\ ~Reconciled(db, op[p].spec)
       \/ op[p].pc = "count"
          /\ ~WellFormed([op[p].snap EXCEPT !.count = db.count])
    /\ End(p)
    /\ UNCHANGED <<db, target, pending, seen, report, commands, crashes, turns>>

(* create_recovery_snapshot: neither file may be there; an equal snapshot is *)
(* answered as created.                                                      *)
Check(p) ==
    /\ op[p].pc = "check"
    /\ IF pending # None THEN End(p)
       ELSE IF target = None THEN Goto(p, "open")
       ELSE IF target.complete /\ target.snap = op[p].snap
       THEN op' = [op EXCEPT ![p].pc = "probe", ![p].after = TRUE]
       ELSE End(p)
    /\ UNCHANGED <<db, target, pending, seen, report, commands, crashes, turns>>

OpenTarget(p) ==
    /\ op[p].pc = "open" /\ pending = None
    /\ target' = File(p, op[p].snap, FALSE)
    /\ Goto(p, "write")
    /\ UNCHANGED <<db, pending, seen, report, commands, crashes, turns>>

(* open(pending, "x"): the file is there, still empty. *)
Open(p) ==
    /\ op[p].pc = "open" /\ pending = None
    /\ pending' = File(p, op[p].snap, FALSE)
    /\ Goto(p, "write")
    /\ UNCHANGED <<db, target, seen, report, commands, crashes, turns>>

(* write and fsync go to the file p opened, wherever it is linked by now. *)
Flush(p) ==
    /\ op[p].pc = "write"
    /\ pending' = IF pending # None /\ pending.by = p THEN [pending EXCEPT !.complete = TRUE]
                  ELSE pending
    /\ target' = IF target # None /\ target.by = p THEN [target EXCEPT !.complete = TRUE]
                 ELSE target
    /\ Goto(p, "rename")
    /\ UNCHANGED <<db, seen, report, commands, crashes, turns>>

(* os.replace moves whatever is linked at the pending path. *)
Rename(p) ==
    /\ op[p].pc = "rename" /\ pending # None
    /\ target' = pending
    /\ pending' = None
    /\ op' = [op EXCEPT ![p].pc = "probe", ![p].after = TRUE]
    /\ UNCHANGED <<db, seen, report, commands, crashes, turns>>

(* FileExistsError, or the pending file is gone. *)
CommitFails(p) ==
    /\ \/ op[p].pc = "open" /\ pending # None
       \/ op[p].pc \in {"rename", "unlink"} /\ pending = None
       \/ op[p].pc = "confirm" /\ ~ConfirmationMatches(p)
    /\ End(p)
    /\ UNCHANGED <<db, target, pending, seen, report, commands, crashes, turns>>

(* confirm_pending_snapshot: the evidence is read again, then unlinked. *)
Confirm(p) ==
    /\ op[p].pc = "confirm" /\ ConfirmationMatches(p)
    /\ Goto(p, "unlink")
    /\ UNCHANGED <<db, target, pending, seen, report, commands, crashes, turns>>

Unlink(p) ==
    /\ op[p].pc = "unlink" /\ pending # None
    /\ pending' = None
    /\ op' = [op EXCEPT ![p].pc = "probe", ![p].after = TRUE]
    /\ UNCHANGED <<db, target, seen, report, commands, crashes, turns>>

Crash(p) ==
    /\ op[p].pc # "idle" /\ crashes < MaxCrashes
    /\ crashes' = crashes + 1
    /\ End(p)
    /\ UNCHANGED <<db, target, pending, seen, report, commands, turns>>

-----------------------------------------------------------------------------
Init ==
    /\ db = [intents |-> {}, events |-> [a \in Auths |-> 0], fills |-> 0, count |-> 0]
    /\ target = None /\ pending = None
    /\ op = [p \in Operators |-> Idle]
    /\ seen = [p \in Operators |-> None]
    /\ report = [p \in Operators |-> "NONE"]
    /\ commands = 0 /\ crashes = 0
    /\ turns \in BOOLEAN

Step(p) ==
    \/ Probe(p) \/ Rebuild(p) \/ Prefix(p) \/ Replay(p)
    \/ BuildReconcile(p) \/ BuildIntents(p) \/ BuildOrders(p) \/ BuildFills(p)
    \/ BuildCount(p) \/ BuildRefused(p)
    \/ Check(p) \/ Open(p) \/ Flush(p) \/ Rename(p) \/ CommitFails(p)
    \/ Confirm(p) \/ Unlink(p) \/ Crash(p)

Next ==
    \/ \E a \in Auths : WriteIntent(a) \/ WriteEvent(a)
    \/ WriteFill
    \/ \E p \in Operators, cmd \in {"status", "create", "confirm"}, spec \in Specs :
           Begin(p, cmd, spec)
    \/ \E p \in Operators : Step(p)

Spec == Init /\ [][Next]_vars

-----------------------------------------------------------------------------
\* _build_snapshot against _validate_snapshot_prefix: whatever moments its
\* SELECTs saw, a snapshot is a prefix of the stores ever after, so that
\* recover_startup never reports SNAPSHOT_PREFIX_MISMATCH for a file that
\* create_recovery_snapshot wrote.
NoFalseMismatch == \A p \in Operators : report[p] # "SNAPSHOT_PREFIX_MISMATCH"

\* create_recovery_snapshot writes, syncs, then renames: a crash at any point
\* leaves no torn snapshot at the final path.  Operators who take turns are
\* needed: one who discards the pending file of another, and begins a file of
\* his own, has it renamed by the other before it is written.
TargetComplete == turns /\ target # None => target.complete

\* Recovery is safe: no snapshot is refused for what executors did while it was
\* built, and the file at the final path is whole.
RecoveryIsSafe == NoFalseMismatch /\ TargetComplete

\* A snapshot file, once there, is never rewritten; a stale or foreign one is
\* for the operator to remove (create_recovery_snapshot).
NeverRewrittenStep == target # None => target'.snap = target.snap

\* A pending file is discarded only by an operator who was shown exactly that
\* file and that target (confirm_pending_snapshot).
DiscardedAsShownStep ==
    (pending # None /\ pending' = None /\ target' = target) =>
       \E p \in Operators : op[p].pc = "unlink" /\ op[p].given = Digest

\* What operators who take turns may rely on: a snapshot that stands is never
\* written over, and an interrupted commit is resolved by nobody but an operator
\* who was shown both files as they are.
FilesAreKept == [][turns => NeverRewrittenStep /\ DiscardedAsShownStep]_vars

\* "Atomically persist a canonical accelerator for already reconciled source
\* state": what a snapshot anchors is the state its reconciliation digest
\* names.
AnchorsReconciled ==
    target # None => LET s == target.snap IN
        s.intents = s.digest.intents /\ s.orders = s.digest.events
        /\ s.fills = s.digest.fills
=============================================================================
