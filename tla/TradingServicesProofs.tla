------------------------ MODULE TradingServicesProofs ------------------------
(***************************************************************************)
(* Proofs about the recovery snapshots, the candle store and the risk      *)
(* gate, in this order.                                                    *)
(*                                                                         *)
(* Recovery is safe for any number of operators, authorizations, commands  *)
(* and crashes. The invariant behind it: whatever moments the SELECTs of a *)
(* snapshot saw, its anchors lie within the stores, which only grow; and   *)
(* operators who take turns hold the two files to themselves from the      *)
(* check to the rename, and from the confirmation to the unlink.           *)
(*                                                                         *)
(* Candles are whole for any length of a run, any messages, reconnects and *)
(* sizes of backfills, pages and datasets, and whatever a REST answer      *)
(* leaves out. The invariant behind it: the events on their way follow one *)
(* another up to the candle of the exchange, and everything before the     *)
(* next of them, or before the candle of the exchange while a backfill is  *)
(* written, is closed, on its way to the store or known to be missed.      *)
(*                                                                         *)
(* Entries are guarded for any prices, brackets and limits. The invariant  *)
(* behind it: a portfolio ahead of the adapter knows the fills, or its     *)
(* quantity shows that it does not; so while an approved entry waits,      *)
(* flat, no observation finds a loss and the switch finds no reason to     *)
(* trip.                                                                   *)
(***************************************************************************)
EXTENDS RecoverySnapshot, CandleStore, RiskGate, TLAPS

-----------------------------------------------------------------------------
(* Recovery snapshots *)

Digests == (Files \cup {None}) \X (Files \cup {None})

Labels ==
    {"idle", "probe", "rebuild", "prefix", "tail", "match", "build", "intents", "orders",
     "fills", "count", "check", "open", "write", "rename", "confirm", "unlink"}

Codes ==
    {"NONE", "AMBIGUOUS_COMMIT", "SNAPSHOT_CORRUPT", "SPEC_DRIFT", "JOURNAL_REBUILD_READY",
     "JOURNAL_RECONCILIATION_FAILED", "SNAPSHOT_PREFIX_MISMATCH", "TAIL_REPLAYED", "MATCH"}

Invocations ==
    [pc : Labels, cmd : {"status", "create", "confirm"}, spec : Specs, after : BOOLEAN,
     given : Digests \cup {None}, snap : Snapshots]

(* Every variable stays in its domain. *)
TypeOK ==
    /\ db \in Stores
    /\ target \in Files \cup {None} /\ pending \in Files \cup {None}
    /\ op \in [Operators -> Invocations]
    /\ seen \in [Operators -> Digests \cup {None}]
    /\ report \in [Operators -> Codes]
    /\ turns \in BOOLEAN

(* What a snapshot anchors is there: one SELECT per table sees each table at *)
(* some moment, and rows are only added.                                     *)
Anchored(s) ==
    /\ s.intents \subseteq db.intents
    /\ \A a \in Auths : s.orders[a] <= db.events[a]
    /\ s.fills <= db.fills
    /\ s.count <= db.count

AllAnchored ==
    /\ \A p \in Operators : Anchored(op[p].snap)
    /\ target # None => Anchored(target.snap)
    /\ pending # None => Anchored(pending.snap)

(* One operator at a time: from the check to the rename no snapshot stands,  *)
(* the pending file is the operator's own and is renamed when written, and   *)
(* what is unlinked is what was confirmed.                                   *)
OneAtATime ==
    /\ \A p, q \in Operators : op[p].pc # "idle" /\ op[q].pc # "idle" => p = q
    /\ \A p \in Operators :
        /\ op[p].pc \in {"open", "write", "rename"} => target = None
        /\ op[p].pc = "write" /\ pending # None => pending.by = p
        /\ op[p].pc = "rename" /\ pending # None => pending.complete
        /\ op[p].pc = "unlink" => op[p].given = Digest

RecoveryInv ==
    TypeOK /\ AllAnchored /\ RecoveryIsSafe /\ (turns => OneAtATime)

-----------------------------------------------------------------------------
LEMMA EmptyFacts ==
    /\ EmptySnapshot \in Snapshots
    /\ EmptySnapshot.intents = {} /\ EmptySnapshot.fills = 0 /\ EmptySnapshot.count = 0
    /\ \A a \in Auths : EmptySnapshot.orders[a] = 0
    /\ Idle \in Invocations /\ Idle.pc = "idle" /\ Idle.snap = EmptySnapshot
  <1>1. EmptySnapshot \in Snapshots
    BY DEF EmptySnapshot, Snapshots
  <1>2. Idle \in Invocations
    BY <1>1, SnapshotAssumption DEF Idle, Invocations, Labels
  <1> QED
    BY <1>1, <1>2 DEF EmptySnapshot, Idle

(* The empty snapshot, where every command starts, anchors nothing. *)
LEMMA EmptyAnchored ==
    ASSUME TypeOK
    PROVE  Anchored(EmptySnapshot)
  BY EmptyFacts DEF TypeOK, Stores, Anchored

LEMMA RecoveryInit == Init => RecoveryInv
  <1> SUFFICES ASSUME Init PROVE RecoveryInv
    OBVIOUS
  <1>1. TypeOK
    BY EmptyFacts DEF Init, TypeOK, Stores, Codes
  <1>2. AllAnchored
    BY <1>1, EmptyAnchored, EmptyFacts DEF Init, AllAnchored
  <1>3. RecoveryIsSafe
    BY DEF Init, RecoveryIsSafe, NoFalseMismatch, TargetComplete
  <1>4. OneAtATime
    BY EmptyFacts DEF Init, OneAtATime
  <1> QED
    BY <1>1, <1>2, <1>3, <1>4 DEF RecoveryInv

-----------------------------------------------------------------------------
(* What an executor writes leaves every snapshot anchored. *)
LEMMA WriteInv ==
    ASSUME RecoveryInv,
           \/ \E a \in Auths : WriteIntent(a) \/ WriteEvent(a)
           \/ WriteFill
    PROVE  RecoveryInv'
  <1> USE DEF RecoveryInv
  <1>0. /\ db \in Stores /\ db' \in Stores
        /\ db.intents \subseteq db'.intents
        /\ \A a \in Auths : db.events[a] <= db'.events[a]
        /\ db.fills <= db'.fills /\ db.count <= db'.count
        /\ UNCHANGED <<target, pending, op, seen, report, commands, crashes, turns>>
    <2>0. db \in Stores
      BY DEF TypeOK
    <2>1. ASSUME NEW a \in Auths, WriteIntent(a)
          PROVE  <1>0!:
      BY <2>0, <2>1 DEF WriteIntent, Write, Stores
    <2>2. ASSUME NEW a \in Auths, WriteEvent(a)
          PROVE  <1>0!:
      <3> DEFINE more == [db.events EXCEPT ![a] = @ + 1]
      <3>1. /\ db' = [db EXCEPT !.events = more, !.count = @ + 1]
            /\ UNCHANGED <<target, pending, op, seen, report, commands, crashes, turns>>
        BY <2>2 DEF WriteEvent, Write
      <3>2. /\ db.events \in [Auths -> Nat] /\ more \in [Auths -> Nat]
            /\ \A x \in Auths : db.events[x] <= more[x]
        BY <2>0 DEF Stores
      <3> HIDE DEF more
      <3>3. db' = [intents |-> db.intents, events |-> more, fills |-> db.fills,
                   count |-> db.count + 1]
        BY <2>0, <3>1 DEF Stores
      <3> QED
        BY <2>0, <3>1, <3>2, <3>3 DEF Stores
    <2>3. CASE WriteFill
      BY <2>0, <2>3 DEF WriteFill, Write, Stores
    <2> QED
      BY <2>1, <2>2, <2>3
  <1>1. TypeOK'
    BY <1>0 DEF TypeOK
  <1>2. ASSUME NEW s \in Snapshots, Anchored(s)
        PROVE  Anchored(s)'
    BY <1>0, <1>2 DEF Anchored, Stores, Snapshots
  <1>3. AllAnchored'
    BY <1>0, <1>2 DEF AllAnchored, TypeOK, Invocations, Files
  <1>4. RecoveryIsSafe' /\ (turns => OneAtATime)'
    BY <1>0 DEF RecoveryIsSafe, NoFalseMismatch, TargetComplete, OneAtATime, Digest
  <1> QED
    BY <1>1, <1>3, <1>4

-----------------------------------------------------------------------------
(* A step of one operator: what has to be shown of it.  When operators take  *)
(* turns every other one is idle, so the files are this one's affair.        *)
LEMMA Moved ==
    ASSUME RecoveryInv, NEW p \in Operators, NEW new \in Invocations,
           op' = [op EXCEPT ![p] = new],
           db' = db, turns' = turns,
           target' \in Files \cup {None}, pending' \in Files \cup {None},
           seen' \in [Operators -> Digests \cup {None}],
           report' \in [Operators -> Codes],
           NoFalseMismatch',
           Anchored(new.snap),
           target' # None => Anchored(target'.snap),
           pending' # None => Anchored(pending'.snap),
           turns =>
              /\ \A q \in Operators : op[q].pc # "idle" => q = p
              /\ new.pc \in {"open", "write", "rename"} => target' = None
              /\ new.pc = "write" /\ pending' # None => pending'.by = p
              /\ new.pc = "rename" /\ pending' # None => pending'.complete
              /\ new.pc = "unlink" => new.given = <<pending', target'>>
              /\ target' # None => target'.complete
    PROVE  RecoveryInv'
  <1>0. /\ op \in [Operators -> Invocations] /\ db \in Stores /\ turns \in BOOLEAN
        /\ AllAnchored
    BY DEF RecoveryInv, TypeOK
  <1>1. /\ op' \in [Operators -> Invocations]
        /\ op'[p] = new /\ \A q \in Operators : q # p => op'[q] = op[q]
    BY <1>0
  <1>2. TypeOK'
    BY <1>0, <1>1 DEF TypeOK
  <1>3. \A s : Anchored(s)' <=> Anchored(s)
    BY DEF Anchored
  <1>4. AllAnchored'
    <2>1. \A q \in Operators : Anchored(op'[q].snap)
      BY <1>0, <1>1 DEF AllAnchored
    <2> QED
      BY <2>1, <1>3 DEF AllAnchored, Anchored
  <1>5. RecoveryIsSafe'
    BY <1>0 DEF RecoveryIsSafe, TargetComplete
  <1>6. (turns => OneAtATime)'
    <2> SUFFICES ASSUME turns PROVE OneAtATime'
      BY <1>0
    <2>1. \A q \in Operators : op'[q].pc # "idle" => q = p
      BY <1>1
    <2> QED
      BY <1>1, <2>1 DEF OneAtATime, Digest
  <1> QED
    BY <1>2, <1>4, <1>5, <1>6 DEF RecoveryInv

(* What a report makes of the command: it goes on to build or to confirm, or *)
(* it ends.                                                                  *)
LEMMA ReportShape ==
    ASSUME TypeOK, NEW p \in Operators, NEW code \in Codes, Report(p, code)
    PROVE  /\ report' = [report EXCEPT ![p] = code]
           /\ \E new \in Invocations :
                 /\ op' = [op EXCEPT ![p] = new]
                 /\ new.pc \in {"idle", "build", "confirm"}
                 /\ new.snap \in {op[p].snap, EmptySnapshot}
  <1>0. op \in [Operators -> Invocations] /\ op[p] \in Invocations
    BY DEF TypeOK
  <1>1. ASSUME NEW pc \in {"build", "confirm"}, Goto(p, pc)
        PROVE  \E new \in Invocations :
                 /\ op' = [op EXCEPT ![p] = new]
                 /\ new.pc \in {"idle", "build", "confirm"}
                 /\ new.snap \in {op[p].snap, EmptySnapshot}
    <2>1. op' = [op EXCEPT ![p] = [op[p] EXCEPT !.pc = pc]]
      BY <1>1 DEF Goto
    <2>2. /\ [op[p] EXCEPT !.pc = pc] \in Invocations
          /\ [op[p] EXCEPT !.pc = pc].pc = pc
          /\ [op[p] EXCEPT !.pc = pc].snap = op[p].snap
      BY <1>0 DEF Invocations, Labels
    <2> QED
      BY <2>1, <2>2
  <1>2. ASSUME End(p)
        PROVE  \E new \in Invocations :
                 /\ op' = [op EXCEPT ![p] = new]
                 /\ new.pc \in {"idle", "build", "confirm"}
                 /\ new.snap \in {op[p].snap, EmptySnapshot}
    BY <1>2, EmptyFacts DEF End
  <1>3. Goto(p, "build") \/ Goto(p, "confirm") \/ End(p)
    BY DEF Report
  <1> QED
    BY <1>1, <1>2, <1>3 DEF Report

(* A step that reports and leaves the files alone. *)
LEMMA ReportInv ==
    ASSUME RecoveryInv, NEW p \in Operators, op[p].pc # "idle",
           NEW code \in Codes, Report(p, code), code # "SNAPSHOT_PREFIX_MISMATCH",
           UNCHANGED <<db, target, pending, turns>>,
           seen' \in [Operators -> Digests \cup {None}]
    PROVE  RecoveryInv'
  <1>0. /\ TypeOK /\ AllAnchored /\ NoFalseMismatch
        /\ turns => OneAtATime /\ (target # None => target.complete)
    BY DEF RecoveryInv, RecoveryIsSafe, TargetComplete
  <1>1. PICK new \in Invocations :
                 /\ op' = [op EXCEPT ![p] = new]
                 /\ new.pc \in {"idle", "build", "confirm"}
                 /\ new.snap \in {op[p].snap, EmptySnapshot}
    BY <1>0, ReportShape
  <1>2. report' = [report EXCEPT ![p] = code]
    BY <1>0, ReportShape
  <1>3. report' \in [Operators -> Codes] /\ NoFalseMismatch'
    BY <1>0, <1>2 DEF TypeOK, NoFalseMismatch
  <1>4. Anchored(new.snap)
    BY <1>0, <1>1, EmptyAnchored DEF AllAnchored
  <1>5. turns => \A q \in Operators : op[q].pc # "idle" => q = p
    BY <1>0 DEF OneAtATime
  <1> QED
    BY <1>0, <1>1, <1>3, <1>4, <1>5, Moved DEF TypeOK, AllAnchored

-----------------------------------------------------------------------------
(* An operator's record after a step that moves it on. *)
LEMMA OnwardPc ==
    ASSUME TypeOK, NEW p \in Operators, NEW pc \in Labels, Goto(p, pc)
    PROVE  \E new \in Invocations :
              /\ op' = [op EXCEPT ![p] = new]
              /\ new.pc = pc /\ new.snap = op[p].snap /\ new.given = op[p].given
  <1>0. op \in [Operators -> Invocations] /\ op[p] \in Invocations
    BY DEF TypeOK
  <1>1. op' = [op EXCEPT ![p] = [op[p] EXCEPT !.pc = pc]]
    BY <1>0 DEF Goto
  <1>2. /\ [op[p] EXCEPT !.pc = pc] \in Invocations
        /\ [op[p] EXCEPT !.pc = pc].pc = pc
        /\ [op[p] EXCEPT !.pc = pc].snap = op[p].snap
        /\ [op[p] EXCEPT !.pc = pc].given = op[p].given
    BY <1>0 DEF Invocations
  <1> QED
    BY <1>1, <1>2

Takes(p, pc, snap) == op' = [op EXCEPT ![p].pc = pc, ![p].snap = snap]

LEMMA OnwardSnap ==
    ASSUME TypeOK, NEW p \in Operators, NEW pc \in Labels, NEW snap \in Snapshots,
           Takes(p, pc, snap)
    PROVE  \E new \in Invocations :
              op' = [op EXCEPT ![p] = new] /\ new.pc = pc /\ new.snap = snap
  <1>0. op \in [Operators -> Invocations] /\ op[p] \in Invocations
    BY DEF TypeOK
  <1>1. op' = [op EXCEPT ![p] = [op[p] EXCEPT !.pc = pc, !.snap = snap]]
    BY <1>0 DEF Takes
  <1>2. /\ [op[p] EXCEPT !.pc = pc, !.snap = snap] \in Invocations
        /\ [op[p] EXCEPT !.pc = pc, !.snap = snap].pc = pc
        /\ [op[p] EXCEPT !.pc = pc, !.snap = snap].snap = snap
    BY <1>0 DEF Invocations
  <1> QED
    BY <1>1, <1>2

LEMMA OnwardAfter ==
    ASSUME TypeOK, NEW p \in Operators, NEW pc \in Labels,
           op' = [op EXCEPT ![p].pc = pc, ![p].after = TRUE]
    PROVE  \E new \in Invocations :
              op' = [op EXCEPT ![p] = new] /\ new.pc = pc /\ new.snap = op[p].snap
  <1>0. op \in [Operators -> Invocations] /\ op[p] \in Invocations
    BY DEF TypeOK
  <1>1. op' = [op EXCEPT ![p] = [op[p] EXCEPT !.pc = pc, !.after = TRUE]]
    BY <1>0
  <1>2. /\ [op[p] EXCEPT !.pc = pc, !.after = TRUE] \in Invocations
        /\ [op[p] EXCEPT !.pc = pc, !.after = TRUE].pc = pc
        /\ [op[p] EXCEPT !.pc = pc, !.after = TRUE].snap = op[p].snap
    BY <1>0 DEF Invocations
  <1> QED
    BY <1>1, <1>2

(* A step that moves an operator on, or ends its command, and leaves the     *)
(* files alone.                                                              *)
LEMMA QuietInv ==
    ASSUME RecoveryInv, NEW p \in Operators, NEW new \in Invocations,
           op' = [op EXCEPT ![p] = new],
           UNCHANGED <<db, target, pending, seen, report, turns>>,
           turns => \A q \in Operators : op[q].pc # "idle" => q = p,
           Anchored(new.snap),
           new.pc \notin {"write", "rename"},
           new.pc = "open" => target = None,
           new.pc = "unlink" => new.given = Digest
    PROVE  RecoveryInv'
  BY Moved DEF RecoveryInv, RecoveryIsSafe, TargetComplete, NoFalseMismatch, TypeOK,
     AllAnchored, Digest

LEMMA EndInv ==
    ASSUME RecoveryInv, NEW p \in Operators, End(p), op[p].pc # "idle",
           UNCHANGED <<db, target, pending, seen, report, turns>>
    PROVE  RecoveryInv'
  <1>1. Anchored(Idle.snap)
    BY EmptyAnchored, EmptyFacts DEF RecoveryInv
  <1>2. turns => \A q \in Operators : op[q].pc # "idle" => q = p
    BY DEF RecoveryInv, OneAtATime
  <1> QED
    BY <1>1, <1>2, EmptyFacts, QuietInv DEF End

LEMMA BeginInv ==
    ASSUME RecoveryInv, NEW p \in Operators, NEW spec \in Specs,
           NEW cmd \in {"status", "create", "confirm"}, Begin(p, cmd, spec)
    PROVE  RecoveryInv'
  <1> DEFINE new == [Idle EXCEPT !.pc = "probe", !.cmd = cmd, !.spec = spec,
                                 !.given = IF cmd = "confirm" THEN seen[p] ELSE None]
  <1>1. /\ new \in Invocations /\ new.pc = "probe" /\ new.snap = EmptySnapshot
    <2>1. seen[p] \in Digests \cup {None}
      BY DEF RecoveryInv, TypeOK
    <2>2. ASSUME NEW given \in Digests \cup {None}
          PROVE  LET r == [Idle EXCEPT !.pc = "probe", !.cmd = cmd, !.spec = spec,
                                       !.given = given]
                 IN  r \in Invocations /\ r.pc = "probe" /\ r.snap = EmptySnapshot
      BY EmptyFacts DEF Invocations, Labels
    <2> QED
      BY <2>1, <2>2
  <1>2. /\ op' = [op EXCEPT ![p] = new]
        /\ UNCHANGED <<db, target, pending, seen, report, turns>>
        /\ turns => \A q \in Operators : op[q].pc = "idle"
    BY DEF Begin
  <1>3. Anchored(new.snap)
    BY <1>1, EmptyAnchored DEF RecoveryInv
  <1> HIDE DEF new
  <1> QED
    BY <1>1, <1>2, <1>3, QuietInv

-----------------------------------------------------------------------------
(* recover_startup: the reports. *)
LEMMA ProbeInv ==
    ASSUME RecoveryInv, NEW p \in Operators,
           Probe(p) \/ Rebuild(p) \/ Prefix(p) \/ Replay(p)
    PROVE  RecoveryInv'
  <1>0. /\ TypeOK /\ AllAnchored /\ op[p] \in Invocations
        /\ turns => \A q \in Operators : op[q].pc # "idle" /\ op[p].pc # "idle" => q = p
    BY DEF RecoveryInv, TypeOK, OneAtATime
  <1>1. CASE Probe(p)
    <2>0. /\ op[p].pc = "probe" /\ UNCHANGED <<db, target, pending, commands, crashes, turns>>
      BY <1>1 DEF Probe
    <2>1. CASE pending # None
      <3>1. /\ Report(p, "AMBIGUOUS_COMMIT") /\ seen' = [seen EXCEPT ![p] = Digest]
        BY <1>1, <2>1 DEF Probe
      <3>2. Digest \in Digests
        BY <1>0 DEF Digest, Digests, TypeOK
      <3>3. seen' \in [Operators -> Digests \cup {None}]
        BY <1>0, <3>1, <3>2 DEF TypeOK
      <3> QED
        BY <2>0, <3>1, <3>3, ReportInv DEF Codes
    <2>2. CASE pending = None
      <3>0. seen' = seen /\ seen \in [Operators -> Digests \cup {None}]
        BY <1>0, <1>1, <2>2 DEF Probe, TypeOK
      <3>1. CASE target = None
        <4>1. Goto(p, "rebuild") /\ UNCHANGED report
          BY <1>1, <2>2, <3>1 DEF Probe
        <4>2. "rebuild" \in Labels
          BY DEF Labels
        <4>3. PICK new \in Invocations :
                 /\ op' = [op EXCEPT ![p] = new]
                 /\ new.pc = "rebuild" /\ new.snap = op[p].snap
          BY <1>0, <4>1, <4>2, OnwardPc
        <4> QED
          BY <1>0, <2>0, <3>0, <4>1, <4>3, QuietInv DEF AllAnchored
      <3>2. CASE target # None /\ ~target.complete
        <4>1. Report(p, "SNAPSHOT_CORRUPT")
          BY <1>1, <2>2, <3>2 DEF Probe
        <4> QED
          BY <2>0, <3>0, <4>1, ReportInv DEF Codes
      <3>3. CASE target # None /\ target.complete /\ target.snap.spec # op[p].spec
        <4>1. Report(p, "SPEC_DRIFT")
          BY <1>1, <2>2, <3>3 DEF Probe
        <4> QED
          BY <2>0, <3>0, <4>1, ReportInv DEF Codes
      <3>4. CASE target # None /\ target.complete /\ target.snap.spec = op[p].spec
        <4>1. Takes(p, "prefix", target.snap) /\ UNCHANGED report
          BY <1>1, <2>2, <3>4 DEF Probe, Takes
        <4>2. target.snap \in Snapshots /\ Anchored(target.snap) /\ "prefix" \in Labels
          BY <1>0, <3>4 DEF TypeOK, Files, AllAnchored, Labels
        <4>3. PICK new \in Invocations :
                 op' = [op EXCEPT ![p] = new] /\ new.pc = "prefix" /\ new.snap = target.snap
          BY <1>0, <4>1, <4>2, OnwardSnap
        <4> QED
          BY <1>0, <2>0, <3>0, <4>1, <4>2, <4>3, QuietInv
      <3> QED
        BY <1>0, <3>1, <3>2, <3>3, <3>4 DEF TypeOK, Files
    <2> QED
      BY <2>1, <2>2
  <1>2. CASE Rebuild(p)
    <2>1. PICK code \in {"JOURNAL_REBUILD_READY", "JOURNAL_RECONCILIATION_FAILED"} :
              Report(p, code)
      BY <1>2 DEF Rebuild
    <2> QED
      BY <1>0, <1>2, <2>1, ReportInv DEF Rebuild, Codes, TypeOK
  <1>3. CASE Prefix(p)
    <2>1. PrefixOf(op[p].snap, db)
      <3>1. Anchored(op[p].snap) /\ op[p].snap.intents \subseteq Auths
        BY <1>0 DEF AllAnchored, Invocations, Snapshots
      <3> QED
        BY <3>1 DEF Anchored, PrefixOf
    <2>2. PICK pc \in {"tail", "match"} : Goto(p, pc) /\ UNCHANGED report
      BY <1>3, <2>1 DEF Prefix, Goto
    <2>3. pc \in Labels
      BY DEF Labels
    <2>4. PICK new \in Invocations :
             op' = [op EXCEPT ![p] = new] /\ new.pc = pc /\ new.snap = op[p].snap
      BY <1>0, <2>2, <2>3, OnwardPc
    <2> QED
      BY <1>0, <1>3, <2>2, <2>4, QuietInv DEF Prefix, AllAnchored
  <1>4. CASE Replay(p)
    <2>1. PICK code \in {"JOURNAL_RECONCILIATION_FAILED", "TAIL_REPLAYED", "MATCH"} :
              Report(p, code)
      BY <1>4 DEF Replay
    <2> QED
      BY <1>0, <1>4, <2>1, ReportInv DEF Replay, Codes, TypeOK
  <1> QED
    BY <1>1, <1>2, <1>3, <1>4

(* _build_snapshot: each SELECT sees its table as it is. *)
LEMMA BuildInv ==
    ASSUME RecoveryInv, NEW p \in Operators,
           \/ BuildReconcile(p) \/ BuildIntents(p) \/ BuildOrders(p)
           \/ BuildFills(p) \/ BuildCount(p)
    PROVE  RecoveryInv'
  <1>0. /\ TypeOK /\ AllAnchored /\ op[p] \in Invocations /\ db \in Stores
        /\ op[p].snap \in Snapshots /\ Anchored(op[p].snap)
        /\ turns => \A q \in Operators : op[q].pc # "idle" /\ op[p].pc # "idle" => q = p
    BY DEF RecoveryInv, TypeOK, OneAtATime, AllAnchored, Invocations
  <1>1. ASSUME NEW pc \in Labels \ {"idle"},
               NEW next \in {"intents", "orders", "fills", "count", "check"},
               NEW snap \in Snapshots, Build(p, pc, next, snap), Anchored(snap)
        PROVE  RecoveryInv'
    <2>1. next \in Labels
      BY DEF Labels
    <2>2. PICK new \in Invocations :
             op' = [op EXCEPT ![p] = new] /\ new.pc = next /\ new.snap = snap
      <3>1. Takes(p, next, snap)
        BY <1>1 DEF Build, Takes
      <3> QED
        BY <1>0, <1>1, <2>1, <3>1, OnwardSnap
    <2> QED
      BY <1>0, <1>1, <2>2, QuietInv DEF Build
  <1>2. {"build", "intents", "orders", "fills", "count"} \subseteq Labels \ {"idle"}
    BY DEF Labels
  <1>3. CASE BuildReconcile(p)
    <2> DEFINE s == [EmptySnapshot EXCEPT !.spec = op[p].spec, !.digest = db]
    <2>1. /\ s \in Snapshots /\ s.intents = {} /\ s.orders = EmptySnapshot.orders
          /\ s.fills = 0 /\ s.count = 0
      BY <1>0, EmptyFacts DEF Snapshots, Invocations
    <2>2. Anchored(s)
      BY <1>0, <2>1, EmptyFacts DEF Anchored, Stores
    <2> HIDE DEF s
    <2>3. Build(p, "build", "intents", s)
      BY <1>3 DEF BuildReconcile, s
    <2> QED
      BY <1>1, <1>2, <2>1, <2>2, <2>3
  <1>4. CASE BuildIntents(p)
    <2> DEFINE s == [op[p].snap EXCEPT !.intents = db.intents]
    <2>1. /\ s \in Snapshots /\ s.intents = db.intents /\ s.orders = op[p].snap.orders
          /\ s.fills = op[p].snap.fills /\ s.count = op[p].snap.count
      BY <1>0 DEF Snapshots, Stores
    <2>2. Anchored(s)
      BY <1>0, <2>1 DEF Anchored
    <2> HIDE DEF s
    <2>3. Build(p, "intents", "orders", s)
      BY <1>4 DEF BuildIntents, s
    <2> QED
      BY <1>1, <1>2, <2>1, <2>2, <2>3
  <1>5. CASE BuildOrders(p)
    <2> DEFINE s == [op[p].snap EXCEPT !.orders = db.events]
    <2>1. /\ s \in Snapshots /\ s.intents = op[p].snap.intents /\ s.orders = db.events
          /\ s.fills = op[p].snap.fills /\ s.count = op[p].snap.count
      BY <1>0 DEF Snapshots, Stores
    <2>2. Anchored(s)
      BY <1>0, <2>1 DEF Anchored, Stores
    <2> HIDE DEF s
    <2>3. Build(p, "orders", "fills", s)
      BY <1>5 DEF BuildOrders, s
    <2> QED
      BY <1>1, <1>2, <2>1, <2>2, <2>3
  <1>6. CASE BuildFills(p)
    <2> DEFINE s == [op[p].snap EXCEPT !.fills = db.fills]
    <2>1. /\ s \in Snapshots /\ s.intents = op[p].snap.intents
          /\ s.orders = op[p].snap.orders /\ s.fills = db.fills /\ s.count = op[p].snap.count
      BY <1>0 DEF Snapshots, Stores
    <2>2. Anchored(s)
      BY <1>0, <2>1 DEF Anchored, Stores
    <2> HIDE DEF s
    <2>3. Build(p, "fills", "count", s)
      BY <1>6 DEF BuildFills, s
    <2> QED
      BY <1>1, <1>2, <2>1, <2>2, <2>3
  <1>7. CASE BuildCount(p)
    <2> DEFINE s == [op[p].snap EXCEPT !.count = db.count]
    <2>1. /\ s \in Snapshots /\ s.intents = op[p].snap.intents
          /\ s.orders = op[p].snap.orders /\ s.fills = op[p].snap.fills /\ s.count = db.count
      BY <1>0 DEF Snapshots, Stores
    <2>2. Anchored(s)
      BY <1>0, <2>1 DEF Anchored, Stores
    <2> HIDE DEF s
    <2>3. Build(p, "count", "check", s)
      BY <1>7 DEF BuildCount, s
    <2> QED
      BY <1>1, <1>2, <2>1, <2>2, <2>3
  <1> QED
    BY <1>3, <1>4, <1>5, <1>6, <1>7

(* The steps that end a command, or only look at the files. *)
LEMMA EndsInv ==
    ASSUME RecoveryInv, NEW p \in Operators,
           BuildRefused(p) \/ CommitFails(p) \/ Crash(p) \/ Check(p) \/ Confirm(p)
    PROVE  RecoveryInv'
  <1>0. /\ TypeOK /\ AllAnchored
        /\ turns => \A q \in Operators : op[q].pc # "idle" /\ op[p].pc # "idle" => q = p
    BY DEF RecoveryInv, OneAtATime
  <1>1. CASE BuildRefused(p) \/ CommitFails(p) \/ Crash(p)
    BY <1>1, EndInv DEF BuildRefused, CommitFails, Crash
  <1>2. CASE Check(p)
    <2>0. op[p].pc = "check" /\ UNCHANGED <<db, target, pending, seen, report, turns>>
      BY <1>2 DEF Check
    <2>1. CASE End(p)
      BY <2>0, <2>1, EndInv
    <2>2. CASE target = None /\ Goto(p, "open")
      <3>1. "open" \in Labels
        BY DEF Labels
      <3>2. PICK new \in Invocations :
               op' = [op EXCEPT ![p] = new] /\ new.pc = "open" /\ new.snap = op[p].snap
        BY <1>0, <2>2, <3>1, OnwardPc
      <3> QED
        BY <1>0, <2>0, <2>2, <3>2, QuietInv DEF AllAnchored
    <2>3. CASE op' = [op EXCEPT ![p].pc = "probe", ![p].after = TRUE]
      <3>1. "probe" \in Labels
        BY DEF Labels
      <3>2. PICK new \in Invocations :
               op' = [op EXCEPT ![p] = new] /\ new.pc = "probe" /\ new.snap = op[p].snap
        BY <1>0, <2>3, <3>1, OnwardAfter
      <3> QED
        BY <1>0, <2>0, <3>2, QuietInv DEF AllAnchored
    <2> QED
      BY <1>2, <2>1, <2>2, <2>3 DEF Check
  <1>3. CASE Confirm(p)
    <2>1. "unlink" \in Labels
      BY DEF Labels
    <2>2. PICK new \in Invocations :
             /\ op' = [op EXCEPT ![p] = new] /\ new.pc = "unlink"
             /\ new.snap = op[p].snap /\ new.given = op[p].given
      BY <1>0, <1>3, <2>1, OnwardPc DEF Confirm
    <2> QED
      BY <1>0, <1>3, <2>2, QuietInv DEF Confirm, ConfirmationMatches, AllAnchored
  <1> QED
    BY <1>1, <1>2, <1>3

-----------------------------------------------------------------------------
(* The steps that change the files. *)
LEMMA OpenInv ==
    ASSUME RecoveryInv, NEW p \in Operators, Open(p)
    PROVE  RecoveryInv'
  <1>0. /\ TypeOK /\ AllAnchored /\ NoFalseMismatch
        /\ turns => OneAtATime /\ (target # None => target.complete)
        /\ op[p].snap \in Snapshots /\ op[p].pc = "open"
    BY DEF RecoveryInv, TypeOK, Invocations, RecoveryIsSafe, TargetComplete, Open
  <1>1. PICK new \in Invocations :
           op' = [op EXCEPT ![p] = new] /\ new.pc = "write" /\ new.snap = op[p].snap
    BY <1>0, OnwardPc DEF Open, Labels
  <1>2. /\ pending' = File(p, op[p].snap, FALSE)
        /\ UNCHANGED <<db, target, seen, report, turns>>
    BY DEF Open
  <1>3. pending' \in Files /\ pending'.snap = op[p].snap /\ pending'.by = p
    BY <1>0, <1>2 DEF File, Files
  <1>4. NoFalseMismatch'
    BY <1>0, <1>2 DEF NoFalseMismatch
  <1>5. turns => /\ \A q \in Operators : op[q].pc # "idle" => q = p
                 /\ target' = None
    BY <1>0, <1>2 DEF OneAtATime
  <1> QED
    BY <1>0, <1>1, <1>2, <1>3, <1>4, <1>5, Moved DEF TypeOK, AllAnchored

LEMMA FlushInv ==
    ASSUME RecoveryInv, NEW p \in Operators, Flush(p)
    PROVE  RecoveryInv'
  <1>0. /\ TypeOK /\ AllAnchored /\ NoFalseMismatch
        /\ turns => OneAtATime
        /\ op[p].pc = "write"
        /\ UNCHANGED <<db, seen, report, turns>>
    BY DEF RecoveryInv, RecoveryIsSafe, Flush
  <1>1. PICK new \in Invocations :
           op' = [op EXCEPT ![p] = new] /\ new.pc = "rename" /\ new.snap = op[p].snap
    BY <1>0, OnwardPc DEF Flush, Labels
  <1>2. ASSUME NEW f \in Files
        PROVE  LET g == [f EXCEPT !.complete = TRUE]
               IN  g \in Files /\ g.snap = f.snap /\ g.by = f.by /\ g.complete
    BY DEF Files
  <1>3. /\ pending' \in Files \cup {None}
        /\ pending' # None => pending # None /\ pending'.snap = pending.snap
        /\ pending' # None /\ pending.by = p => pending'.complete
    BY <1>0, <1>2 DEF Flush, TypeOK
  <1>4. /\ target' \in Files \cup {None}
        /\ target' # None => target # None /\ target'.snap = target.snap
    BY <1>0, <1>2 DEF Flush, TypeOK
  <1>5. NoFalseMismatch'
    BY <1>0 DEF NoFalseMismatch
  <1>6. turns => /\ \A q \in Operators : op[q].pc # "idle" => q = p
                 /\ target' = None
                 /\ pending' # None => pending'.complete
    BY <1>0, <1>3, <1>4 DEF OneAtATime
  <1> QED
    BY <1>0, <1>1, <1>3, <1>4, <1>5, <1>6, Moved DEF TypeOK, AllAnchored

LEMMA LinkInv ==
    ASSUME RecoveryInv, NEW p \in Operators, Rename(p) \/ Unlink(p)
    PROVE  RecoveryInv'
  <1>0. /\ TypeOK /\ AllAnchored /\ NoFalseMismatch
        /\ turns => OneAtATime /\ (target # None => target.complete)
        /\ op[p].pc \in {"rename", "unlink"}
        /\ UNCHANGED <<db, seen, report, turns>>
    BY DEF RecoveryInv, RecoveryIsSafe, TargetComplete, Rename, Unlink
  <1>1. PICK new \in Invocations :
           op' = [op EXCEPT ![p] = new] /\ new.pc = "probe" /\ new.snap = op[p].snap
    BY <1>0, OnwardAfter DEF Rename, Unlink, Labels
  <1>2. /\ pending' = None /\ target' \in {pending, target}
        /\ target' # target => op[p].pc = "rename" /\ target' = pending /\ pending # None
    BY DEF Rename, Unlink
  <1>3. NoFalseMismatch'
    BY <1>0 DEF NoFalseMismatch
  <1>4. turns => /\ \A q \in Operators : op[q].pc # "idle" => q = p
                 /\ target' # None => target'.complete
    BY <1>0, <1>2 DEF OneAtATime
  <1>5. /\ target' \in Files \cup {None} /\ pending' \in Files \cup {None}
        /\ target' # None => Anchored(target'.snap)
    BY <1>0, <1>2 DEF TypeOK, AllAnchored
  <1> QED
    BY <1>0, <1>1, <1>2, <1>3, <1>4, <1>5, Moved DEF TypeOK, AllAnchored

LEMMA RecoveryNext == RecoveryInv /\ [Next]_vars => RecoveryInv'
  <1> SUFFICES ASSUME RecoveryInv, [Next]_vars PROVE RecoveryInv'
    OBVIOUS
  <1>1. ASSUME NEW p \in Operators, Step(p)
        PROVE  RecoveryInv'
    BY <1>1, ProbeInv, BuildInv, EndsInv, OpenInv, FlushInv, LinkInv DEF Step
  <1>2. CASE UNCHANGED vars
    BY <1>2 DEF vars, RecoveryInv, TypeOK, AllAnchored, Anchored, RecoveryIsSafe,
       NoFalseMismatch, TargetComplete, OneAtATime, Digest
  <1> QED
    BY <1>1, <1>2, WriteInv, BeginInv DEF Next

(* Every variable of the recovery stays in its domain. *)
THEOREM RecoveryTypes == Spec => []TypeOK
  <1>1. RecoveryInv => TypeOK
    BY DEF RecoveryInv
  <1> QED
    BY RecoveryInit, RecoveryNext, <1>1, PTL DEF Spec

(* recover_startup never refuses a snapshot for what executors wrote while   *)
(* it was built, and with operators who take turns the file at the final     *)
(* path is whole, whatever crashes.                                          *)
THEOREM RecoveryTheorem == Spec => []RecoveryIsSafe
  <1>1. RecoveryInv => RecoveryIsSafe
    BY DEF RecoveryInv
  <1> QED
    BY RecoveryInit, RecoveryNext, <1>1, PTL DEF Spec

-----------------------------------------------------------------------------
(* A step of an operator who has its turn leaves a standing snapshot alone,  *)
(* and unlinks a pending file only as confirmed.                             *)
LEMMA StepKeeps ==
    ASSUME RecoveryInv, turns, NEW p \in Operators, Step(p)
    PROVE  NeverRewrittenStep /\ DiscardedAsShownStep
  <1>0. /\ TypeOK /\ OneAtATime
    BY DEF RecoveryInv
  <1>1. CASE UNCHANGED <<target, pending>>
    BY <1>1 DEF NeverRewrittenStep, DiscardedAsShownStep
  <1>2. CASE Open(p)
    BY <1>2 DEF Open, NeverRewrittenStep, DiscardedAsShownStep
  <1>3. CASE Flush(p)
    <2>1. target = None
      BY <1>0, <1>3 DEF OneAtATime, Flush
    <2>2. pending # None => pending' # None
      <3>1. ASSUME NEW f \in Files PROVE [f EXCEPT !.complete = TRUE] \in Files
        BY DEF Files
      <3> QED
        BY <1>0, <1>3, <3>1, NoneAssumption DEF Flush, TypeOK
    <2> QED
      BY <2>1, <2>2 DEF NeverRewrittenStep, DiscardedAsShownStep
  <1>4. CASE Rename(p)
    <2>1. target = None /\ pending # None /\ target' = pending
      BY <1>0, <1>4 DEF OneAtATime, Rename
    <2> QED
      BY <2>1 DEF NeverRewrittenStep, DiscardedAsShownStep
  <1>5. CASE Unlink(p)
    <2>1. op[p].pc = "unlink" /\ op[p].given = Digest /\ target' = target
      BY <1>0, <1>5 DEF OneAtATime, Unlink
    <2> QED
      BY <2>1 DEF NeverRewrittenStep, DiscardedAsShownStep
  <1>6. CASE Probe(p) \/ Rebuild(p) \/ Prefix(p) \/ Replay(p)
    <2>1. UNCHANGED <<target, pending>>
      BY <1>6 DEF Probe, Rebuild, Prefix, Replay
    <2> QED
      BY <2>1, <1>1
  <1>7. CASE \/ BuildReconcile(p) \/ BuildIntents(p) \/ BuildOrders(p) \/ BuildFills(p)
             \/ BuildCount(p) \/ BuildRefused(p)
    <2>1. UNCHANGED <<target, pending>>
      BY <1>7 DEF BuildReconcile, BuildIntents, BuildOrders, BuildFills, BuildCount,
         BuildRefused, Build
    <2> QED
      BY <2>1, <1>1
  <1>8. CASE Check(p) \/ CommitFails(p) \/ Confirm(p) \/ Crash(p)
    <2>1. UNCHANGED <<target, pending>>
      BY <1>8 DEF Check, CommitFails, Confirm, Crash
    <2> QED
      BY <2>1, <1>1
  <1> QED
    BY <1>2, <1>3, <1>4, <1>5, <1>6, <1>7, <1>8 DEF Step

(* With operators who take turns create_recovery_snapshot never writes over  *)
(* a snapshot, and a pending file disappears only by its rename or by the    *)
(* confirmation of an operator who was shown both files as they are.         *)
THEOREM FilesTheorem == Spec => FilesAreKept
  <1>1. RecoveryInv /\ [Next]_vars
        => [turns => NeverRewrittenStep /\ DiscardedAsShownStep]_vars
    <2> SUFFICES ASSUME RecoveryInv, Next, turns
                 PROVE  NeverRewrittenStep /\ DiscardedAsShownStep
      OBVIOUS
    <2>1. CASE UNCHANGED <<target, pending>>
      BY <2>1 DEF NeverRewrittenStep, DiscardedAsShownStep
    <2>2. ASSUME NEW a \in Auths, WriteIntent(a) \/ WriteEvent(a)
          PROVE  UNCHANGED <<target, pending>>
      BY <2>2 DEF WriteIntent, WriteEvent, Write
    <2>3. WriteFill => UNCHANGED <<target, pending>>
      BY DEF WriteFill, Write
    <2>4. ASSUME NEW p \in Operators, NEW cmd, NEW spec, Begin(p, cmd, spec)
          PROVE  UNCHANGED <<target, pending>>
      BY <2>4 DEF Begin
    <2> QED
      BY <2>1, <2>2, <2>3, <2>4, StepKeeps DEF Next
  <1> QED
    BY RecoveryInit, RecoveryNext, <1>1, PTL DEF Spec, FilesAreKept

-----------------------------------------------------------------------------
(* The candle store *)

(* Candles that are stored, streamed and built.                             *)
Rows == {"absent", "open", "closed"}

Events == [t : Candles, state : {"open", "closed"}]

Streams ==
    [pc : {"new", "connected", "backoff", "backfill", "connecting", "failed", "done"},
     last : Candles \cup {NoTime}, first : Candles \cup {NoTime},
     messages : Int, reconnects : Int, rows : SUBSET Candles, missed : SUBSET Candles]

Builds ==
    [pc : {"idle", "page", "write", "health"}, time : Candles, known : SUBSET Candles,
     cursor : Nat, rows : SUBSET Candles]

\* What a build downloads is of its range.
InRange(b) == b.pc \in {"page", "write"} => b.rows \subseteq DatasetRange(b.time)

\* What a backfill has yet to write is over.
Over(s) == s.pc = "backfill" => \A t \in s.rows : t < now

(* Every variable stays in its domain; nothing is closed, announced or       *)
(* fetched before its interval is over.                                      *)
DataInv ==
    /\ now \in Candles
    /\ store \in [Candles -> Rows]
    /\ \A t \in Candles : store[t] = "closed" => t < now
    /\ stream \in Streams
    /\ stream.last <= now
    /\ Over(stream)
    /\ queue \in Seq(Events)
    /\ \A i \in 1 .. Len(queue) :
          queue[i].t <= now /\ (queue[i].state = "closed" => queue[i].t < now)
    /\ build \in Builds
    /\ build.time <= now
    /\ InRange(build)
    /\ manifest \subseteq Candles
    /\ ManifestIsStored

(* The candle an event makes the next one: itself, as long as it is open.    *)
NextCandle(e) == IF e.state = "closed" THEN e.t + 1 ELSE e.t

Follows(q, time) ==
    \A i \in 1 .. Len(q) : NextCandle(q[i]) = IF i = Len(q) THEN time ELSE q[i + 1].t

(* The candle the connection delivers next.                                  *)
Awaited(q, time) == IF q = <<>> THEN time ELSE q[1].t

Whole(rows, lost, from, to) ==
    \A t \in Candles : from <= t /\ t < to => rows[t] = "closed" \/ t \in lost

ClosedTo(n) == Whole(store, stream.missed, stream.first, n)

(* The events on their way follow each other without a gap up to the candle  *)
(* of the exchange, and everything before the first of them is closed or     *)
(* missed; so is, but for what a backfill is still writing, everything       *)
(* before the candle of the exchange while the stream hands over.            *)
StreamInv ==
    /\ stream.pc # "connected" => queue = <<>>
    /\ Follows(queue, now)
    /\ stream.first = NoTime <=> stream.last = NoTime
    /\ stream.pc = "new" => stream.first = NoTime
    /\ stream.first # NoTime => ClosedTo(stream.last)
    /\ stream.first # NoTime /\ stream.pc = "connecting" => ClosedTo(now)
    /\ stream.first # NoTime /\ stream.pc = "connected" =>
          ClosedTo(Awaited(queue, now)) /\ stream.last <= Awaited(queue, now)
    /\ stream.pc = "backfill" =>
          /\ stream.first # NoTime
          /\ \A t \in stream.rows : stream.last <= t
          /\ Whole(store, stream.missed \cup stream.rows, stream.first, now)

-----------------------------------------------------------------------------
LEMMA Bounds ==
    /\ LastInterval \in Nat \ {0} /\ PageLimit \in Nat \ {0} /\ Days \in Nat \ {0}
    /\ MaxBackfill \in Nat \ {0}
  BY DataAssumption DEF DataAssumption

LEMMA DataInitial == DataInit => DataInv /\ StreamInv
  <1> SUFFICES ASSUME DataInit
               PROVE  DataInv /\ StreamInv
    OBVIOUS
  <1>1. 0 \in Candles
    BY Bounds DEF Candles
  <1>2. DataInv
    BY <1>1 DEF DataInit, DataInv, Rows, Streams, Builds, Events, NoTime, NoRows, ManifestIsStored,
                Over, InRange
  <1>3. StreamInv
    BY DEF DataInit, StreamInv, NoTime, Follows
  <1> QED
    BY <1>2, <1>3

(* A closed candle stays closed: the store is only written by a stream that  *)
(* found no conflict, by a backfill and by a build, which write closed rows. *)
LEMMA ConsumeStore ==
    ASSUME DataInv, Consume, store' # store
    PROVE  /\ queue # <<>> /\ queue[1] \in Events
           /\ store' = [store EXCEPT ![queue[1].t] = queue[1].state]
           /\ store[queue[1].t] = "closed" => queue[1].state = "closed"
           /\ queue[1].state = "closed" => queue[1].t < now
  <1>1. queue # <<>> /\ queue \in Seq(Events) /\ Head(queue) = queue[1]
    BY DEF DataInv, Consume
  <1>2. queue[1] \in Events /\ 1 \in 1 .. Len(queue)
    BY <1>1
  <1>3. ~Conflicts(queue[1].t, queue[1].state) /\ store' = [store EXCEPT ![queue[1].t] = queue[1].state]
    BY <1>1 DEF Consume
  <1> QED
    BY <1>1, <1>2, <1>3 DEF Conflicts, DataInv

LEMMA BackfillRowStore ==
    ASSUME DataInv, BackfillRow
    PROVE  \E t \in stream.rows :
              /\ t \in Candles /\ t \in Int /\ t < now /\ \A u \in stream.rows : t <= u
              /\ store' = [store EXCEPT ![t] = "closed"]
              /\ stream' = [stream EXCEPT !.rows = @ \ {t}, !.last = t,
                                          !.pc = IF stream.rows = {t} THEN "connecting" ELSE @]
  <1>1. \A t \in stream.rows : t \in Candles /\ t \in Int /\ t < now
    BY DEF DataInv, BackfillRow, Over, Streams, Candles
  <1> QED
    BY <1>1 DEF BackfillRow

LEMMA BuildWriteStore ==
    ASSUME DataInv, BuildWrite, store' # store
    PROVE  /\ store' = [t \in Candles |-> IF t \in build.rows THEN "closed" ELSE store[t]]
           /\ build.rows \subseteq Candles /\ \A t \in build.rows : t < now
  <1>1. build.pc = "write" /\ build.rows \subseteq DatasetRange(build.time)
    BY DEF DataInv, BuildWrite, InRange
  <1>2. build.time \in Int /\ build.time <= now /\ now \in Int
    BY Bounds DEF DataInv, Builds, Candles
  <1>3. \A t \in build.rows : t \in Candles /\ t < build.time
    BY <1>1 DEF DatasetRange
  <1>4. \A t \in build.rows : NormalizeRest(t, build.time) = "closed" /\ t < now
    <2> SUFFICES ASSUME NEW t \in build.rows
                 PROVE  NormalizeRest(t, build.time) = "closed" /\ t < now
      OBVIOUS
    <2>1. t \in Int /\ t < build.time
      BY <1>3, Bounds DEF Candles
    <2> QED
      BY <2>1, <1>2 DEF NormalizeRest
  <1>5. store' = [t \in Candles |->
                IF t \in build.rows THEN NormalizeRest(t, build.time) ELSE store[t]]
    BY DEF BuildWrite
  <1> QED
    BY <1>3, <1>4, <1>5

LEMMA StoreSteps ==
    ASSUME DataInv, [DataNext]_dataVars
    PROVE  /\ store' \in [Candles -> Rows]
           /\ \A t \in Candles : store[t] = "closed" => store'[t] = "closed"
           /\ \A t \in Candles : store'[t] = "closed" => t < now
  <1>0. store \in [Candles -> Rows] /\ \A t \in Candles : store[t] = "closed" => t < now
    BY DEF DataInv
  <1>1. CASE store' = store
    BY <1>0, <1>1
  <1>2. CASE store' # store /\ Consume
    <2>1. /\ store' = [store EXCEPT ![queue[1].t] = queue[1].state]
          /\ store[queue[1].t] = "closed" => queue[1].state = "closed"
          /\ queue[1].state = "closed" => queue[1].t < now
          /\ queue[1].t \in Candles /\ queue[1].state \in Rows
      BY <1>2, ConsumeStore DEF Events, Rows
    <2> QED
      BY <1>0, <2>1
  <1>3. CASE BackfillRow
    <2>1. PICK k \in Candles : k < now /\ store' = [store EXCEPT ![k] = "closed"]
      BY <1>3, BackfillRowStore
    <2> QED
      BY <1>0, <2>1 DEF Rows
  <1>4. CASE store' # store /\ BuildWrite
    <2>1. /\ store' = [t \in Candles |-> IF t \in build.rows THEN "closed" ELSE store[t]]
          /\ build.rows \subseteq Candles /\ \A t \in build.rows : t < now
      BY <1>4, BuildWriteStore
    <2> QED
      BY <1>0, <2>1 DEF Rows
  <1>5. store' = store \/ Consume \/ BackfillRow \/ BuildWrite
    BY DEF DataNext, dataVars, Tick, Update, Connect, Disconnect, Backfill, StreamError, BuildStart,
           BuildPage, BuildHealth, BuildError, RebuildCheck, RebuildFill, RebuildReplace
  <1> QED
    BY <1>1, <1>2, <1>3, <1>4, <1>5

LEMMA ClockSteps ==
    ASSUME DataInv, [DataNext]_dataVars
    PROVE  now' \in Candles /\ now <= now' /\ now \in Int /\ now' \in Int
  <1>1. now \in Candles /\ now \in Int
    BY Bounds DEF DataInv, Candles
  <1>2. now' = now \/ (now < LastInterval /\ now' = now + 1)
    BY DEF DataNext, dataVars, Tick, Update, Connect, Consume, Disconnect, Backfill, BackfillRow,
           StreamError, BuildStart, BuildPage, BuildWrite, BuildHealth, BuildError, RebuildCheck,
           RebuildFill, RebuildReplace
  <1> QED
    BY <1>1, <1>2, Bounds DEF Candles

LEMMA PageInRange ==
    ASSUME DataInv, BuildPage
    PROVE  /\ build' \in Builds /\ build'.time = build.time
           /\ InRange(build')
  <1>0. /\ build \in Builds /\ build.rows \subseteq DatasetRange(build.time)
        /\ DatasetRange(build.time) \subseteq Candles
    BY DEF DataInv, BuildPage, InRange, DatasetRange
  <1>1. CASE build' = [build EXCEPT !.pc = "write"]
    BY <1>0, <1>1 DEF Builds, InRange
  <1>2. ASSUME NEW page \in SUBSET DatasetRange(build.time), NEW last \in DatasetRange(build.time),
               build' = [build EXCEPT !.rows = @ \cup (page \ build.known), !.cursor = last + 1]
        PROVE  build' \in Builds /\ build'.time = build.time /\ InRange(build')
    <2>1. last + 1 \in Nat
      BY <1>0, Bounds DEF Candles
    <2>2. build.rows \cup (page \ build.known) \subseteq DatasetRange(build.time)
      BY <1>0
    <2>3. build' \in Builds
      BY <1>0, <1>2, <2>1, <2>2 DEF Builds
    <2>4. build'.time = build.time /\ build'.rows = build.rows \cup (page \ build.known)
      BY <1>0, <1>2 DEF Builds
    <2> QED
      BY <2>2, <2>3, <2>4 DEF InRange
  <1>3. \/ build' = [build EXCEPT !.pc = "write"]
        \/ \E page \in SUBSET DatasetRange(build.time), last \in DatasetRange(build.time) :
              build' = [build EXCEPT !.rows = @ \cup (page \ build.known), !.cursor = last + 1]
    BY DEF BuildPage
  <1> QED
    BY <1>1, <1>2, <1>3

LEMMA BuildSteps ==
    ASSUME DataInv, [DataNext]_dataVars
    PROVE  /\ build' \in Builds /\ build'.time <= now
           /\ InRange(build')
           /\ manifest' \subseteq Candles /\ \A t \in manifest' : store[t] = "closed"
  <1>0. /\ build \in Builds /\ build.time <= now /\ build.time \in Candles
        /\ InRange(build)
        /\ manifest \subseteq Candles /\ \A t \in manifest : store[t] = "closed"
    BY DEF DataInv, Builds, ManifestIsStored
  <1>1. CASE build' = build /\ manifest' = manifest
    BY <1>0, <1>1
  <1>2. CASE BuildStart
    <2> DEFINE known == {t \in DatasetRange(now) : store[t] # "absent"}
    <2>1. build' = [pc |-> "page", time |-> now, known |-> known, cursor |-> now - Days, rows |-> NoRows]
          /\ manifest' = manifest /\ now >= Days
      BY <1>2 DEF BuildStart
    <2>2. known \subseteq Candles /\ now \in Candles /\ now \in Int /\ now - Days \in Nat
      BY Bounds, <2>1 DEF DataInv, Candles, DatasetRange
    <2> HIDE DEF known
    <2>3. build' \in Builds /\ build'.time <= now
      BY <2>1, <2>2 DEF Builds, NoRows
    <2> QED
      BY <2>1, <2>3, <1>0 DEF InRange, NoRows
  <1>3. CASE BuildPage
    BY <1>0, <1>3, PageInRange DEF BuildPage
  <1>4. CASE BuildWrite \/ BuildError
    <2>1. manifest' = manifest /\ \E pc \in {"idle", "health"} : build' = [build EXCEPT !.pc = pc]
      BY <1>4 DEF BuildWrite, BuildError
    <2>2. build' \in Builds /\ build'.time = build.time /\ build'.pc \in {"idle", "health"}
      BY <1>0, <2>1 DEF Builds
    <2> QED
      BY <1>0, <2>1, <2>2 DEF InRange
  <1>5. CASE BuildHealth
    <2>1. build' = [build EXCEPT !.pc = "idle"]
          /\ manifest' = IF Healthy(DatasetRange(build.time)) THEN DatasetRange(build.time) ELSE manifest
      BY <1>5 DEF BuildHealth
    <2>2. build' \in Builds /\ build'.time = build.time /\ build'.pc = "idle"
      BY <1>0, <2>1 DEF Builds
    <2>3. DatasetRange(build.time) \subseteq Candles
      BY DEF DatasetRange
    <2>4. Healthy(DatasetRange(build.time)) => \A t \in DatasetRange(build.time) : store[t] = "closed"
      BY <2>3 DEF Healthy, DataInv, Rows
    <2> QED
      BY <1>0, <2>1, <2>2, <2>3, <2>4 DEF InRange
  <1>6. (build' = build /\ manifest' = manifest) \/ BuildStart \/ BuildPage \/ BuildWrite \/ BuildError \/ BuildHealth
    BY DEF DataNext, dataVars, Tick, Update, Connect, Consume, Disconnect, Backfill, BackfillRow,
           StreamError, RebuildCheck, RebuildFill, RebuildReplace
  <1> QED
    BY <1>1, <1>2, <1>3, <1>4, <1>5, <1>6

(* What each operation of the stream does to it.                             *)
LEMMA StreamMoves ==
    ASSUME DataInv, [DataNext]_dataVars
    PROVE  \/ stream' = stream /\ queue' = queue /\ now' = now
           \/ Tick \/ Update \/ Connect \/ Consume \/ Disconnect \/ Backfill \/ BackfillRow \/ StreamError
  BY DEF DataNext, dataVars, BuildStart, BuildPage, BuildWrite, BuildHealth, BuildError, RebuildCheck,
         RebuildFill, RebuildReplace

Announced(e) == e \in Events /\ e.t <= now' /\ (e.state = "closed" => e.t < now')

LEMMA QueueSteps ==
    ASSUME DataInv, [DataNext]_dataVars
    PROVE  /\ queue' \in Seq(Events)
           /\ \A i \in 1 .. Len(queue') : Announced(queue'[i])
  <1>0. /\ queue \in Seq(Events) /\ now <= now' /\ now \in Int /\ now' \in Int /\ now \in Candles
        /\ \A i \in 1 .. Len(queue) : queue[i].t <= now /\ (queue[i].state = "closed" => queue[i].t < now)
    BY ClockSteps DEF DataInv
  <1>1. \A i \in 1 .. Len(queue) : Announced(queue[i])
    <2> SUFFICES ASSUME NEW i \in 1 .. Len(queue)
                 PROVE  Announced(queue[i])
      OBVIOUS
    <2>1. queue[i] \in Events
      BY <1>0
    <2>2. queue[i].t \in Int
      BY <2>1, Bounds DEF Events, Candles
    <2> QED
      BY <1>0, <2>1, <2>2 DEF Announced
  <1>2. CASE queue' = queue
    BY <1>0, <1>1, <1>2
  <1>3. CASE queue' = <<>>
    BY <1>3
  <1>4. CASE queue # <<>> /\ queue' = Tail(queue)
    <2>1. queue' \in Seq(Events) /\ Len(queue') = Len(queue) - 1
      BY <1>0, <1>4
    <2>2. \A i \in 1 .. Len(queue') : i + 1 \in 1 .. Len(queue) /\ queue'[i] = queue[i + 1]
      BY <1>0, <1>4
    <2> QED
      BY <1>1, <2>1, <2>2
  <1>5. CASE \E e : Announced(e) /\ queue' = Append(queue, e)
    <2>1. PICK e : Announced(e) /\ queue' = Append(queue, e)
      BY <1>5
    <2>2. e \in Events
      BY <2>1 DEF Announced
    <2>3. queue' \in Seq(Events) /\ Len(queue') = Len(queue) + 1
      BY <1>0, <2>1, <2>2
    <2>4. \A i \in 1 .. Len(queue') :
             \/ i \in 1 .. Len(queue) /\ queue'[i] = queue[i]
             \/ queue'[i] = e
      BY <1>0, <2>1, <2>2
    <2> QED
      BY <1>1, <2>1, <2>3, <2>4
  <1>6. queue' = queue \/ queue' = <<>> \/ (queue # <<>> /\ queue' = Tail(queue))
        \/ \E e : Announced(e) /\ queue' = Append(queue, e)
    <2>1. CASE Tick
      <3>1. Announced([t |-> now, state |-> "closed"])
        BY <1>0, <2>1 DEF Announced, Events, Tick
      <3> QED
        BY <2>1, <3>1 DEF Tick
    <2>2. CASE Update
      <3>1. Announced([t |-> now, state |-> "open"])
        BY <1>0 DEF Announced, Events
      <3> QED
        BY <2>2, <3>1 DEF Update
    <2>3. CASE Consume
      BY <2>3 DEF Consume
    <2> QED
      BY <2>1, <2>2, <2>3, StreamMoves DEF Connect, Disconnect, Backfill, BackfillRow, StreamError
  <1> QED
    BY <1>2, <1>3, <1>4, <1>5, <1>6

LEMMA StreamSteps ==
    ASSUME DataInv, [DataNext]_dataVars
    PROVE  /\ stream' \in Streams /\ stream'.last <= now
           /\ Over(stream')
  <1>0. /\ stream \in Streams /\ stream.last <= now /\ now \in Candles /\ now \in Nat
        /\ Over(stream)
        /\ stream.last \in Candles \cup {NoTime} /\ stream.first \in Candles \cup {NoTime}
        /\ stream.messages \in Int /\ stream.reconnects \in Int /\ stream.rows \in SUBSET Candles
        /\ stream.missed \in SUBSET Candles
    BY Bounds DEF DataInv, Streams, Candles
  <1>1. CASE stream' = stream
    BY <1>0, <1>1
  <1>2. CASE Connect \/ Disconnect \/ StreamError
    <2>1. stream' \in Streams /\ stream'.last = stream.last /\ stream'.pc # "backfill"
      <3>1. CASE Connect
        BY <3>1, <1>0 DEF Connect, Streams
      <3>2. CASE Disconnect
        <4>1. stream.reconnects + 1 \in Int
          BY <1>0
        <4>2. \/ stream' = [stream EXCEPT !.pc = "backoff", !.reconnects = stream.reconnects + 1]
              \/ stream' = [stream EXCEPT !.pc = "failed"]
          BY <3>2, <1>0 DEF Disconnect, Streams
        <4> QED
          BY <1>0, <4>1, <4>2 DEF Streams
      <3>3. CASE StreamError
        BY <3>3, <1>0 DEF StreamError, Streams, NoRows
      <3> QED
        BY <1>2, <3>1, <3>2, <3>3
    <2> QED
      BY <1>0, <2>1 DEF Over
  <1>3. CASE Consume
    <2> DEFINE e == Head(queue)
    <2>1. e \in Events /\ e.t <= now
      <3>1. queue # <<>> /\ queue \in Seq(Events)
        BY <1>3 DEF DataInv, Consume
      <3>2. e = queue[1] /\ 1 \in 1 .. Len(queue)
        BY <3>1
      <3> QED
        BY <3>1, <3>2 DEF DataInv
    <2>2. e.t \in Candles /\ stream.pc = "connected"
      BY <2>1, <1>3 DEF Events, Consume
    <2>3. \/ stream' = [stream EXCEPT !.pc = "failed"]
          \/ stream' = [stream EXCEPT !.last = e.t, !.first = IF @ = NoTime THEN e.t ELSE @,
                                      !.messages = @ + 1,
                                      !.pc = IF stream.messages + 1 = MaxMessages THEN "done" ELSE @]
      BY <1>3 DEF Consume
    <2> HIDE DEF e
    <2>4. stream' \in Streams /\ stream'.pc \in {"failed", "done", "connected"} /\ stream'.last \in {stream.last, e.t}
      <3>1. CASE stream' = [stream EXCEPT !.pc = "failed"]
        BY <1>0, <3>1 DEF Streams
      <3>2. ASSUME stream' # [stream EXCEPT !.pc = "failed"]
            PROVE  /\ stream' \in Streams /\ stream'.pc \in {"done", "connected"}
                   /\ stream'.last = e.t
        <4> DEFINE f == IF stream.first = NoTime THEN e.t ELSE stream.first
                   d == IF stream.messages + 1 = MaxMessages THEN "done" ELSE "connected"
        <4>1. f \in Candles \cup {NoTime} /\ d \in {"done", "connected"} /\ stream.messages + 1 \in Int
          BY <1>0, <2>2
        <4>2. stream' = [stream EXCEPT !.last = e.t, !.first = f, !.messages = stream.messages + 1, !.pc = d]
          BY <2>2, <2>3, <3>2
        <4> HIDE DEF f, d
        <4> QED
          BY <1>0, <2>2, <4>1, <4>2 DEF Streams
      <3> QED
        BY <3>1, <3>2
    <2> QED
      BY <1>0, <2>1, <2>4 DEF Over
  <1>4. CASE Backfill
    <2> DEFINE asked == stream.last .. now - 1
    <2>1. \/ \E pc \in {"connecting", "failed"} : stream' = [stream EXCEPT !.pc = pc]
          \/ /\ stream.last # NoTime
             /\ \E given \in SUBSET asked, pc \in {"connecting", "backfill"} :
                   stream' = [stream EXCEPT !.pc = pc, !.rows = given,
                                            !.missed = @ \cup (asked \ given)]
      BY <1>4 DEF Backfill, BackfillFrom
    <2>2. CASE \E pc \in {"connecting", "failed"} : stream' = [stream EXCEPT !.pc = pc]
      <3>1. stream' \in Streams /\ stream'.pc # "backfill" /\ stream'.last = stream.last
        BY <1>0, <2>2 DEF Streams
      <3> QED
        BY <1>0, <3>1 DEF Over
    <2>3. ASSUME stream.last # NoTime, NEW given \in SUBSET asked, NEW pc \in {"connecting", "backfill"},
                 stream' = [stream EXCEPT !.pc = pc, !.rows = given, !.missed = @ \cup (asked \ given)]
          PROVE  stream' \in Streams /\ stream'.last <= now /\ Over(stream')
      <3>1. asked \subseteq Candles /\ \A t \in asked : t < now
        BY <1>0, <2>3, Bounds DEF Candles
      <3> HIDE DEF asked
      <3>2. given \subseteq Candles /\ stream.missed \cup (asked \ given) \subseteq Candles
        BY <1>0, <3>1
      <3>3. stream' \in Streams
        BY <1>0, <2>3, <3>2 DEF Streams
      <3>4. stream'.last = stream.last /\ stream'.rows = given
        BY <1>0, <2>3 DEF Streams
      <3> QED
        BY <1>0, <3>1, <3>3, <3>4 DEF Over
    <2> QED
      BY <2>1, <2>2, <2>3
  <1>5. CASE BackfillRow
    <2>1. PICK t \in stream.rows :
              /\ t \in Candles /\ t \in Int /\ t < now
              /\ stream' = [stream EXCEPT !.rows = @ \ {t}, !.last = t,
                                          !.pc = IF stream.rows = {t} THEN "connecting" ELSE @]
      BY <1>5, BackfillRowStore
    <2>2. stream.pc = "backfill"
      BY <1>5 DEF BackfillRow
    <2>3. stream' \in Streams /\ stream'.last = t /\ stream'.rows = stream.rows \ {t}
      BY <1>0, <2>1, <2>2 DEF Streams
    <2>4. \A u \in stream.rows : u < now
      BY <1>0, <2>2 DEF Over
    <2> QED
      BY <1>0, <2>1, <2>3, <2>4 DEF Over
  <1>6. CASE Tick
    <2>1. stream' = [stream EXCEPT !.missed = @ \cup {now}] \/ stream' = stream
      BY <1>6 DEF Tick
    <2>2. stream.missed \cup {now} \subseteq Candles
      BY <1>0
    <2>3. stream' \in Streams /\ stream'.last = stream.last /\ stream'.rows = stream.rows
          /\ stream'.pc = stream.pc
      BY <1>0, <2>1, <2>2 DEF Streams
    <2> QED
      BY <1>0, <2>3 DEF Over
  <1>7. stream' = stream \/ Tick \/ Connect \/ Disconnect \/ StreamError \/ Consume \/ Backfill
        \/ BackfillRow
    BY StreamMoves DEF Update
  <1> QED
    BY <1>1, <1>2, <1>3, <1>4, <1>5, <1>6, <1>7

LEMMA DataSteps == DataInv /\ [DataNext]_dataVars => DataInv'
  <1> SUFFICES ASSUME DataInv, [DataNext]_dataVars
               PROVE  DataInv'
    OBVIOUS
  <1>1. now' \in Candles /\ now <= now' /\ now \in Int /\ now' \in Int
    BY ClockSteps
  <1>2. store' \in [Candles -> Rows] /\ \A t \in Candles : store'[t] = "closed" => t < now'
    <2>1. \A t \in Candles : t \in Int
      BY DEF Candles
    <2> QED
      BY <1>1, <2>1, StoreSteps
  <1>3. stream' \in Streams /\ stream'.last <= now'
        /\ (stream'.pc = "backfill" => \A t \in stream'.rows : t < now')
    <2>1. stream' \in Streams /\ stream'.last <= now /\ Over(stream')
      BY StreamSteps
    <2>2. stream'.last \in Int /\ \A t \in stream'.rows : t \in Int
      BY <2>1, Bounds DEF Streams, Candles, NoTime
    <2> QED
      BY <2>1, <2>2, <1>1 DEF Over
  <1>4. queue' \in Seq(Events)
        /\ \A i \in 1 .. Len(queue') :
             queue'[i].t <= now' /\ (queue'[i].state = "closed" => queue'[i].t < now')
    BY QueueSteps DEF Announced
  <1>5. build' \in Builds /\ build'.time <= now' /\ InRange(build')
    <2>1. build' \in Builds /\ build'.time <= now
      BY BuildSteps
    <2>2. build'.time \in Int
      BY <2>1 DEF Builds, Candles
    <2> QED
      BY <2>1, <2>2, <1>1, BuildSteps
  <1>6. manifest' \subseteq Candles /\ \A t \in manifest' : store'[t] = "closed"
    BY BuildSteps, StoreSteps
  <1> QED
    BY <1>1, <1>2, <1>3, <1>4, <1>5, <1>6 DEF DataInv, Over, InRange, ManifestIsStored, DatasetRange, Rows

(* An event of the exchange is the one its predecessor makes the next.       *)
LEMMA FollowsAppend ==
    ASSUME NEW q \in Seq(Events), NEW time \in Int, NEW after \in Int, NEW e \in Events,
           Follows(q, time), e.t = time, NextCandle(e) = after
    PROVE  Follows(Append(q, e), after) /\ Awaited(Append(q, e), after) = Awaited(q, time)
  <1> DEFINE r == Append(q, e)
  <1>1. Len(r) = Len(q) + 1 /\ Len(q) \in Nat /\ r # <<>>
    BY DEF r
  <1>2. \A i \in 1 .. Len(q) : r[i] = q[i]
    BY DEF r
  <1>3. r[Len(q) + 1] = e
    BY DEF r
  <1> HIDE DEF r
  <1>4. ASSUME NEW i \in 1 .. Len(r)
        PROVE  NextCandle(r[i]) = IF i = Len(r) THEN after ELSE r[i + 1].t
    <2>1. CASE i = Len(q) + 1
      BY <1>1, <1>3, <2>1
    <2>2. CASE i = Len(q) /\ i # Len(q) + 1
      <3>1. NextCandle(q[i]) = time /\ r[i] = q[i] /\ r[i + 1] = e
        BY <1>1, <1>2, <1>3, <2>2 DEF Follows
      <3> QED
        BY <1>1, <2>2, <3>1
    <2>3. CASE i < Len(q)
      <3>1. NextCandle(q[i]) = q[i + 1].t /\ r[i] = q[i] /\ r[i + 1] = q[i + 1]
        BY <1>1, <1>2, <2>3 DEF Follows
      <3> QED
        BY <1>1, <2>3, <3>1
    <2> QED
      BY <1>1, <2>1, <2>2, <2>3
  <1>5. Awaited(r, after) = Awaited(q, time)
    <2>1. CASE q = <<>>
      BY <1>1, <1>3, <2>1 DEF Awaited
    <2>2. CASE q # <<>>
      <3>1. 1 \in 1 .. Len(q)
        BY <2>2
      <3> QED
        BY <1>1, <1>2, <2>2, <3>1 DEF Awaited
    <2> QED
      BY <2>1, <2>2
  <1> QED
    BY <1>4, <1>5 DEF Follows, r

LEMMA FollowsTail ==
    ASSUME NEW q \in Seq(Events), q # <<>>, NEW time \in Int, Follows(q, time)
    PROVE  Follows(Tail(q), time) /\ Awaited(Tail(q), time) = NextCandle(q[1])
  <1> DEFINE r == Tail(q)
  <1>1. Len(r) = Len(q) - 1 /\ Len(q) \in Nat \ {0}
    BY DEF r
  <1>2. \A i \in 1 .. Len(r) : r[i] = q[i + 1]
    BY DEF r
  <1>0. r \in Seq(Events)
    BY DEF r
  <1> HIDE DEF r
  <1>3. r = <<>> <=> Len(q) = 1
    <2>1. r = <<>> <=> Len(r) = 0
      BY <1>0
    <2> QED
      BY <1>1, <2>1
  <1>4. ASSUME NEW i \in 1 .. Len(r)
        PROVE  NextCandle(r[i]) = IF i = Len(r) THEN time ELSE r[i + 1].t
    <2>1. i + 1 \in 1 .. Len(q) /\ (i + 1 = Len(q) <=> i = Len(r))
      BY <1>1
    <2>2. NextCandle(q[i + 1]) = IF i + 1 = Len(q) THEN time ELSE q[(i + 1) + 1].t
      BY <2>1 DEF Follows
    <2>3. i # Len(r) => i + 1 \in 1 .. Len(r)
      BY <1>1
    <2> QED
      BY <1>2, <2>1, <2>2, <2>3
  <1>5. NextCandle(q[1]) = IF 1 = Len(q) THEN time ELSE q[2].t
    BY <1>1 DEF Follows
  <1>6. Len(q) # 1 => 1 \in 1 .. Len(r)
    BY <1>1
  <1>7. Awaited(r, time) = NextCandle(q[1])
    BY <1>2, <1>3, <1>5, <1>6 DEF Awaited
  <1> QED
    BY <1>4, <1>7 DEF Follows, r

LEMMA WholeFacts ==
    ASSUME DataInv, [DataNext]_dataVars, NEW lost, NEW a \in Int, NEW n \in Int, NEW m \in Int
    PROVE  /\ Whole(store, lost, a, n) => Whole(store', lost, a, n)
           /\ Whole(store, lost, a, n) /\ m <= n => Whole(store, lost, a, m)
           /\ Whole(store', lost, a, n) /\ m <= n => Whole(store', lost, a, m)
  <1>1. \A t \in Candles : t \in Int
    BY DEF Candles
  <1> QED
    BY <1>1, StoreSteps DEF Whole

(* An interval that ends while the stream hands over is missed.              *)
LEMMA ExchangeKeeps ==
    ASSUME DataInv, StreamInv, Tick \/ Update
    PROVE  StreamInv'
  <1>0. /\ stream \in Streams /\ store' = store /\ queue \in Seq(Events) /\ now \in Int /\ now \in Candles
        /\ now' \in Int
    BY Bounds DEF Tick, Update, DataInv, Candles
  <1>1. CASE stream.pc \notin {"connected", "backfill", "connecting"}
    <2>1. queue' = <<>> /\ Follows(queue', now') /\ stream' = stream
      BY <1>0, <1>1, Bounds DEF Tick, Update, StreamInv, Follows
    <2> QED
      BY <1>0, <1>1, <2>1 DEF StreamInv, ClosedTo, Whole
  <1>3. CASE stream.pc \in {"backfill", "connecting"}
    <2> DEFINE lost == stream.missed \cup {now}
    <2>1. Tick /\ now' = now + 1 /\ queue' = <<>> /\ stream' = [stream EXCEPT !.missed = lost]
      BY <1>3 DEF Tick, Update, StreamInv
    <2> HIDE DEF lost
    <2>2. /\ stream'.pc = stream.pc /\ stream'.first = stream.first /\ stream'.last = stream.last
          /\ stream'.rows = stream.rows /\ stream'.missed = lost
      BY <1>0, <2>1 DEF Streams
    <2>3. Follows(queue', now')
      BY <2>1 DEF Follows
    <2>4. \A t \in Candles : t < now + 1 => t < now \/ t = now
      BY <1>0 DEF Candles
    <2>5. stream.first # NoTime => Whole(store, lost, stream.first, stream.last)
      BY DEF StreamInv, ClosedTo, Whole, lost
    <2>6. stream.pc = "connecting" /\ stream.first # NoTime =>
             Whole(store, lost, stream.first, now + 1)
      BY <2>4 DEF StreamInv, ClosedTo, Whole, lost
    <2>7. stream.pc = "backfill" =>
             /\ stream.first # NoTime
             /\ \A t \in stream.rows : stream.last <= t
             /\ Whole(store, lost \cup stream.rows, stream.first, now + 1)
      BY <2>4 DEF StreamInv, Whole, lost
    <2>8. stream.first = NoTime <=> stream.last = NoTime
      BY DEF StreamInv
    <2> QED
      BY <1>0, <1>3, <2>1, <2>2, <2>3, <2>5, <2>6, <2>7, <2>8 DEF StreamInv, ClosedTo
  <1>2. CASE stream.pc = "connected"
    <2>1. PICK state \in {"open", "closed"} :
             /\ queue' = Append(queue, [t |-> now, state |-> state])
             /\ now' = IF state = "closed" THEN now + 1 ELSE now
             /\ stream' = stream
      BY <1>0, <1>2 DEF Tick, Update
    <2> DEFINE e == [t |-> now, state |-> state]
    <2>2. e \in Events /\ e.t = now /\ NextCandle(e) = now'
      BY <1>0, <2>1 DEF Events, NextCandle
    <2>3. Follows(queue, now)
      BY DEF StreamInv
    <2> HIDE DEF e
    <2>4. Follows(Append(queue, e), now') /\ Awaited(Append(queue, e), now') = Awaited(queue, now)
      BY <1>0, <2>2, <2>3, FollowsAppend
    <2>5. queue' = Append(queue, e)
      BY <2>1 DEF e
    <2>6. Follows(queue', now') /\ Awaited(queue', now') = Awaited(queue, now)
      BY <2>4, <2>5
    <2> QED
      BY <1>0, <1>2, <2>1, <2>6 DEF StreamInv, ClosedTo, Whole
  <1> QED
    BY <1>1, <1>2, <1>3

LEMMA ConnectKeeps ==
    ASSUME DataInv, StreamInv, Connect
    PROVE  StreamInv'
  <1>0. /\ stream \in Streams /\ stream.pc \in {"new", "connecting"} /\ stream.last <= now
        /\ stream' = [stream EXCEPT !.pc = "connected"] /\ queue' = <<>> /\ now' = now /\ store' = store
    BY DEF DataInv, Connect
  <1>1. stream'.pc = "connected" /\ stream'.first = stream.first /\ stream'.last = stream.last
        /\ stream'.missed = stream.missed
    BY <1>0 DEF Streams
  <1>2. Follows(queue', now') /\ Awaited(queue', now') = now
    BY <1>0 DEF Follows, Awaited
  <1>3. stream.first # NoTime => ClosedTo(now)
    BY <1>0 DEF StreamInv
  <1> QED
    BY <1>0, <1>1, <1>2, <1>3 DEF StreamInv, ClosedTo, Whole

(* The stream ends, or waits before it connects again.                       *)
LEMMA StopKeeps ==
    ASSUME DataInv, StreamInv, now' = now, store' = store, queue' = <<>>, stream'.pc \in {"backoff", "failed"},
           stream'.first = stream.first, stream'.last = stream.last, stream'.missed = stream.missed
    PROVE  StreamInv'
  <1>1. Follows(queue', now')
    BY DEF Follows
  <1> QED
    BY <1>1 DEF StreamInv, ClosedTo, Whole

LEMMA DisconnectKeeps ==
    ASSUME DataInv, StreamInv, Disconnect \/ StreamError
    PROVE  StreamInv'
  <1>0. stream \in Streams /\ queue' = <<>> /\ now' = now /\ store' = store
    BY DEF DataInv, Disconnect, StreamError
  <1>1. stream'.pc \in {"backoff", "failed"} /\ stream'.first = stream.first /\ stream'.last = stream.last
        /\ stream'.missed = stream.missed
    <2>1. \/ stream' = [stream EXCEPT !.pc = "backoff", !.reconnects = @ + 1]
          \/ stream' = [stream EXCEPT !.pc = "failed"]
          \/ stream' = [stream EXCEPT !.pc = "failed", !.rows = NoRows]
      BY DEF Disconnect, StreamError
    <2> QED
      BY <1>0, <2>1 DEF Streams
  <1> QED
    BY <1>0, <1>1, StopKeeps

(* An event that is taken is the candle awaited, and closes it or not.       *)
LEMMA ConsumeKeeps ==
    ASSUME DataInv, StreamInv, [DataNext]_dataVars, Consume
    PROVE  StreamInv'
  <1> DEFINE e == queue[1]
  <1>0. /\ stream \in Streams /\ stream.pc = "connected" /\ queue # <<>> /\ queue \in Seq(Events)
        /\ now' = now /\ now \in Int /\ Head(queue) = e /\ 1 \in 1 .. Len(queue)
    BY Bounds DEF DataInv, Consume, Candles
  <1>1. e \in Events /\ e.t \in Candles /\ e.t \in Int /\ e.state \in {"open", "closed"}
    <2>1. e \in Events
      BY <1>0
    <2>2. e.t \in Candles /\ e.state \in {"open", "closed"}
      BY <2>1 DEF Events
    <2> QED
      BY <2>1, <2>2 DEF Candles
  <1>2. Awaited(queue, now) = e.t
    BY <1>0 DEF Awaited
  <1>3. stream.first = NoTime <=> stream.last = NoTime
    BY DEF StreamInv
  <1>4. stream.first # NoTime => Whole(store, stream.missed, stream.first, e.t) /\ stream.last <= e.t
    BY <1>0, <1>2 DEF StreamInv, ClosedTo
  <1>5. stream.first # NoTime => stream.first \in Int /\ stream.last \in Int
    BY <1>0 DEF Streams, Candles, NoTime
  <1>6. CASE stream' = [stream EXCEPT !.pc = "failed"] /\ queue' = <<>> /\ UNCHANGED store
    <2>1. stream'.pc = "failed" /\ stream'.first = stream.first /\ stream'.last = stream.last
          /\ stream'.missed = stream.missed
      BY <1>0, <1>6 DEF Streams
    <2> QED
      BY <1>0, <1>6, <2>1, StopKeeps
  <1>7. CASE /\ store' = [store EXCEPT ![e.t] = e.state]
             /\ stream' = [stream EXCEPT !.last = e.t, !.first = IF @ = NoTime THEN e.t ELSE @,
                                         !.messages = @ + 1,
                                         !.pc = IF stream.messages + 1 = MaxMessages THEN "done" ELSE @]
             /\ queue' = IF stream.messages + 1 = MaxMessages THEN <<>> ELSE Tail(queue)
    <2> DEFINE f == IF stream.first = NoTime THEN e.t ELSE stream.first
               d == IF stream.messages + 1 = MaxMessages THEN "done" ELSE "connected"
    <2>1. stream'.last = e.t /\ stream'.first = f /\ stream'.pc = d /\ stream'.missed = stream.missed
      BY <1>0, <1>7 DEF Streams
    <2>2. f \in Int /\ f # NoTime /\ e.t # NoTime
      BY <1>1, <1>5 DEF NoTime, Candles
    <2>3. store \in [Candles -> Rows]
      BY DEF DataInv
    <2>4. store'[e.t] = e.state
      BY <1>1, <1>7, <2>3
    <2>5. Whole(store', stream.missed, f, e.t)
      <3>1. CASE stream.first = NoTime
        BY <1>1, <3>1 DEF Whole, Candles
      <3>2. CASE stream.first # NoTime
        BY <1>1, <1>4, <1>5, <3>2, WholeFacts
      <3> QED
        BY <3>1, <3>2
    <2>6. NextCandle(e) \in Int /\ e.t <= NextCandle(e) /\ Whole(store', stream.missed, f, NextCandle(e))
      <3>1. CASE e.state = "closed"
        <4>1. NextCandle(e) = e.t + 1
          BY <3>1 DEF NextCandle
        <4>2. \A t \in Candles : t < e.t + 1 => t < e.t \/ t = e.t
          BY <1>1 DEF Candles
        <4>3. Whole(store', stream.missed, f, e.t + 1)
          BY <2>4, <2>5, <3>1, <4>2 DEF Whole
        <4> QED
          BY <1>1, <4>1, <4>3
      <3>2. CASE e.state # "closed"
        BY <1>1, <2>5, <3>2 DEF NextCandle
      <3> QED
        BY <3>1, <3>2
    <2> HIDE DEF f
    <2>7. Follows(queue, now)
      BY DEF StreamInv
    <2>8. d = "connected" => Follows(queue', now') /\ Awaited(queue', now') = NextCandle(e)
      <3> SUFFICES ASSUME d = "connected"
                   PROVE  Follows(queue', now') /\ Awaited(queue', now') = NextCandle(e)
        OBVIOUS
      <3>1. queue' = Tail(queue)
        BY <1>7
      <3>2. Follows(Tail(queue), now) /\ Awaited(Tail(queue), now) = NextCandle(e)
        BY <1>0, <2>7, FollowsTail
      <3> QED
        BY <1>0, <3>1, <3>2
    <2>9. d # "connected" => queue' = <<>> /\ Follows(queue', now')
      BY <1>7 DEF Follows
    <2>10. stream'.pc \in {"done", "connected"}
      BY <2>1
    <2>11. Follows(queue', now')
      BY <2>8, <2>9
    <2> HIDE DEF d
    <2>12. stream'.pc = "connected" => Awaited(queue', now') = NextCandle(e)
      BY <2>1, <2>8
    <2>13. stream'.pc # "connected" => queue' = <<>>
      BY <2>1, <2>9
    <2> HIDE DEF e
    <2> QED
      BY <2>1, <2>2, <2>5, <2>6, <2>10, <2>11, <2>12, <2>13 DEF StreamInv, ClosedTo, Whole
  <1>8. QED
    BY <1>0, <1>6, <1>7 DEF Consume

(* What a backfill asks for is what follows the last candle taken, up to the *)
(* one of the exchange; what it is not given is missed.                      *)
LEMMA BackfillKeeps ==
    ASSUME DataInv, StreamInv, Backfill
    PROVE  StreamInv'
  <1>0. /\ stream \in Streams /\ stream.pc = "backoff" /\ stream.last <= now /\ now \in Int /\ now \in Candles
        /\ now' = now /\ store' = store /\ queue' = <<>> /\ queue = <<>>
    <2>1. stream.pc = "backoff" /\ now' = now /\ store' = store /\ queue' = queue
      BY DEF Backfill
    <2>2. stream.pc # "connected" => queue = <<>>
      BY DEF StreamInv
    <2>3. stream \in Streams /\ stream.last <= now /\ now \in Candles /\ now \in Int
      BY Bounds DEF DataInv, Candles
    <2> QED
      BY <2>1, <2>2, <2>3
  <1>1. Follows(queue', now')
    BY <1>0 DEF Follows
  <1>2. /\ stream.first = NoTime <=> stream.last = NoTime
        /\ stream.first # NoTime => Whole(store, stream.missed, stream.first, stream.last)
    BY DEF StreamInv, ClosedTo
  <1>3. stream.last # NoTime => stream.last \in Int /\ stream.last \in Candles
    BY <1>0 DEF Streams, NoTime, Candles
  <1>4. CASE stream' = [stream EXCEPT !.pc = "failed"]
    <2>1. stream'.pc = "failed" /\ stream'.first = stream.first /\ stream'.last = stream.last
          /\ stream'.missed = stream.missed
      BY <1>0, <1>4 DEF Streams
    <2> QED
      BY <1>0, <2>1, StopKeeps
  <1>5. CASE (stream.last = NoTime \/ now <= stream.last) /\ stream' = [stream EXCEPT !.pc = "connecting"]
    <2>1. stream'.pc = "connecting" /\ stream'.first = stream.first /\ stream'.last = stream.last
          /\ stream'.missed = stream.missed
      BY <1>0, <1>5 DEF Streams
    <2>2. stream.first # NoTime => Whole(store, stream.missed, stream.first, now)
      <3> SUFFICES ASSUME stream.first # NoTime
                   PROVE  Whole(store, stream.missed, stream.first, now)
        OBVIOUS
      <3>1. stream.last = now
        BY <1>0, <1>2, <1>3, <1>5
      <3> QED
        BY <1>2, <3>1
    <2> QED
      BY <1>0, <1>1, <1>2, <2>1, <2>2 DEF StreamInv, ClosedTo, Whole
  <1>6. ASSUME stream.last # NoTime, NEW given \in SUBSET (stream.last .. now - 1),
               stream' = [stream EXCEPT !.pc = IF given = {} THEN "connecting" ELSE "backfill", !.rows = given,
                                        !.missed = @ \cup ((stream.last .. now - 1) \ given)]
        PROVE  StreamInv'
    <2> DEFINE asked == stream.last .. now - 1
               lost == stream.missed \cup (asked \ given)
               d == IF given = {} THEN "connecting" ELSE "backfill"
    <2>1. stream' = [stream EXCEPT !.pc = d, !.rows = given, !.missed = lost]
      BY <1>6
    <2>2. \A t : t \in asked <=> t \in Int /\ stream.last <= t /\ t < now
      BY <1>0, <1>3, <1>6
    <2>3. given \subseteq asked
      BY <1>6
    <2> HIDE DEF asked
    <2>4. \A t \in Candles : t < now => t < stream.last \/ t \in lost \/ t \in given
      <3>1. \A t \in Candles : t \in Int
        BY DEF Candles
      <3> QED
        BY <2>2, <3>1, <1>3, <1>6
    <2>5. stream.first # NoTime /\ Whole(store, lost, stream.first, stream.last)
      BY <1>2, <1>6 DEF Whole
    <2>6. Whole(store, lost \cup given, stream.first, now)
      BY <2>4, <2>5 DEF Whole
    <2>7. given = {} => Whole(store, lost, stream.first, now)
      BY <2>4, <2>5 DEF Whole
    <2>8. \A t \in given : stream.last <= t
      BY <2>2, <2>3
    <2>9. d \in {"connecting", "backfill"} /\ (d = "connecting" => given = {})
      OBVIOUS
    <2> HIDE <1>6 DEF lost, d
    <2>10. /\ stream'.pc = d /\ stream'.first = stream.first /\ stream'.last = stream.last
           /\ stream'.rows = given /\ stream'.missed = lost
      BY <1>0, <2>1 DEF Streams
    <2> QED
      BY <1>0, <1>1, <1>2, <2>5, <2>6, <2>7, <2>8, <2>9, <2>10 DEF StreamInv, ClosedTo
  <1> QED
    BY <1>4, <1>5, <1>6 DEF Backfill, BackfillFrom

(* The first candle a backfill has yet to write follows what is closed.      *)
LEMMA BackfillRowKeeps ==
    ASSUME DataInv, StreamInv, [DataNext]_dataVars, BackfillRow
    PROVE  StreamInv'
  <1>0. /\ stream \in Streams /\ stream.pc = "backfill" /\ now \in Int /\ now' = now
        /\ queue' = queue /\ queue = <<>> /\ stream.first # NoTime /\ stream.first \in Int
        /\ store \in [Candles -> Rows]
    BY Bounds DEF DataInv, BackfillRow, StreamInv, Streams, Candles
  <1> DEFINE lost == stream.missed
             rows == stream.rows
             first == stream.first
  <1>1. PICK k \in rows :
              /\ k \in Candles /\ k \in Int /\ k < now /\ \A u \in rows : k <= u
              /\ store' = [store EXCEPT ![k] = "closed"]
              /\ stream' = [stream EXCEPT !.rows = @ \ {k}, !.last = k,
                                          !.pc = IF stream.rows = {k} THEN "connecting" ELSE @]
    BY BackfillRowStore
  <1>2. /\ Whole(store, lost \cup rows, first, now)
        /\ rows \subseteq Candles /\ \A t \in Candles : t \in Int
    BY <1>0 DEF StreamInv, Streams, Candles
  <1>3. /\ stream'.last = k /\ stream'.first = first /\ stream'.rows = rows \ {k}
        /\ stream'.missed = lost
        /\ stream'.pc = IF rows = {k} THEN "connecting" ELSE "backfill"
    BY <1>0, <1>1 DEF Streams
  <1> HIDE DEF lost, rows, first
  <1>4. \A t \in Candles : store[t] = "closed" \/ t = k => store'[t] = "closed"
    BY <1>0, <1>1
  <1>5. Whole(store', lost, first, k)
    <2>1. \A t \in Candles : t < k => t < now /\ t \notin rows
      BY <1>0, <1>1, <1>2
    <2> QED
      BY <1>2, <1>4, <2>1 DEF Whole
  <1>6. Whole(store', lost \cup (rows \ {k}), first, now)
    BY <1>2, <1>4 DEF Whole
  <1>7. rows = {k} => Whole(store', lost, first, now)
    BY <1>6 DEF Whole
  <1>8. Follows(queue', now')
    BY <1>0 DEF Follows
  <1>9. k # NoTime
    BY <1>1, Bounds DEF NoTime, Candles
  <1>10. first # NoTime
    BY <1>0 DEF first
  <1>11. \A t \in rows \ {k} : k <= t
    BY <1>1
  <1> QED
    BY <1>0, <1>3, <1>5, <1>6, <1>7, <1>8, <1>9, <1>10, <1>11 DEF StreamInv, ClosedTo

LEMMA StreamKeeps ==
    ASSUME DataInv, StreamInv, [DataNext]_dataVars
    PROVE  StreamInv'
  <1>1. CASE stream' = stream /\ queue' = queue /\ now' = now
    <2>1. \A t \in Candles : store[t] = "closed" => store'[t] = "closed"
      BY StoreSteps
    <2> QED
      BY <1>1, <2>1 DEF StreamInv, ClosedTo, Whole, Follows
  <1> QED
    BY <1>1, StreamMoves, ExchangeKeeps, ConnectKeeps, ConsumeKeeps, DisconnectKeeps, BackfillKeeps,
       BackfillRowKeeps

LEMMA InvIsWhole ==
    ASSUME DataInv, StreamInv
    PROVE  CandlesAreWhole
  <1>1. CASE stream.first # NoTime
    <2>1. /\ stream.first \in Candles /\ stream.last \in Candles
          /\ Whole(store, stream.missed, stream.first, stream.last)
      BY <1>1 DEF DataInv, StreamInv, Streams, ClosedTo
    <2>2. \A t \in stream.first .. stream.last - 1 : t \in Candles /\ stream.first <= t /\ t < stream.last
      BY <2>1, Bounds DEF Candles
    <2> QED
      BY <2>1, <2>2 DEF CandlesAreWhole, StreamLeavesNoHole, Whole, DataInv
  <1> QED
    BY <1>1 DEF CandlesAreWhole, StreamLeavesNoHole, DataInv

(* PublicKlineStream, build_datasets: for any number of messages, reconnects *)
(* and any sizes of backfills, pages and datasets, and whatever the exchange *)
(* leaves out of an answer, what the stream has taken has no hole behind its *)
(* last candle but the candles a backfill was not given and those that ended *)
(* before the next connection, and a manifest names closed candles that are  *)
(* in the store.                                                             *)
THEOREM CandlesTheorem == DataSpec => []CandlesAreWhole
  <1>1. DataInit => DataInv /\ StreamInv
    BY DataInitial
  <1>2. DataInv /\ StreamInv /\ [DataNext]_dataVars => DataInv' /\ StreamInv'
    BY DataSteps, StreamKeeps
  <1>3. DataInv /\ StreamInv => CandlesAreWhole
    BY InvIsWhole
  <1> QED
    BY <1>1, <1>2, <1>3, PTL DEF DataSpec

(* CandleStore._write: a closed candle is never reopened or changed, by      *)
(* whatever event, backfill or build.                                        *)
THEOREM ClosedTheorem == DataSpec => ClosedIsFinal
  <1>1. DataInv /\ [DataNext]_dataVars => [ClosedIsFinalStep]_dataVars
    BY StoreSteps DEF ClosedIsFinalStep
  <1> QED
    BY DataInitial, DataSteps, <1>1, PTL DEF DataSpec, ClosedIsFinal

-----------------------------------------------------------------------------
(* Risk gate *)

\* The fills so far have been observed.
Reported == pf.quantity = ad.pos.quantity /\ ~led.close.closed

Position == [quantity : {1}, entry : Nat, stop : Nat, target : Nat]

\* The streak of the managed state misses a trade that one bar opened and closed.
StreakMissed == "streak" \in led.missed

CloseReports == {NoClose} \cup {c \in [closed : BOOLEAN, pnl : Int] : c.closed}

Ledgers == [cash : Int, close : CloseReports, streak : Nat, day : Int,
            missed : SUBSET {"streak", "session"}]

RiskShape ==
    /\ pf.time \in Nat
    /\ pf.quantity \in {0, 1}
    /\ pf.equity \in Nat \ {0}
    /\ pf.peak \in Int /\ pf.peak >= pf.equity
    /\ pf.sessionPnl \in Int
    /\ ad \in [pos : Position \cup {Flat}, last : Int]
    /\ ad.last <= pf.time
    /\ led \in Ledgers

\* An authorization is for the bar after the last one processed; once the portfolio
\* has been observed past it, the portfolio agrees with the fills.
Pending ==
    auth # NoAuth =>
        /\ auth.time = ad.last + 1 /\ auth.time <= pf.time
        /\ Prompt => auth.time = pf.time
        /\ auth.time = pf.time => auth.quantity = pf.quantity
        /\ auth.time < pf.time => Reported
        /\ auth.action = "ENTER_LONG" => auth.quantity = 0
        /\ auth.action = "EXIT_LONG" => auth.quantity = 1

\* A portfolio ahead of the adapter knows the fills and, when flat, the cash; if a fill
\* came late its quantity still shows that it does not, unless it was opened and closed
\* within one bar.
FillsSeen ==
    pf.time > ad.last =>
        \/ Reported /\ (ad.pos = Flat => pf.equity = led.cash)
        \/ ~Prompt /\ pf.quantity # ad.pos.quantity

\* What authorize_paper_request found is still so when the adapter could fill.
EntryStands ==
    (auth # NoAuth /\ auth.action = "ENTER_LONG" /\ auth.approved /\ ad.pos = Flat) =>
        /\ ~Active
        /\ Triggered = {}
        /\ Reported
        /\ pf.equity = led.cash
        /\ Prompt => ks.circuit.time = pf.time

RiskInv ==
    /\ RiskShape
    /\ Pending
    /\ Prompt \/ ~StreakMissed => FillsSeen /\ EntryStands

LEMMA LedgerFields ==
    ASSUME NEW l \in Ledgers
    PROVE /\ l.cash \in Int /\ l.close \in CloseReports /\ l.streak \in Nat /\ l.day \in Int
          /\ l.missed \in SUBSET {"streak", "session"}
  BY DEF Ledgers

\* A fill is priced within the bar.
LEMMA ExitPrice ==
    ASSUME RiskAssumption, NEW pos \in Position, NEW c \in Bars
    PROVE ProtectiveExit(pos, c) \in Nat
  BY DEF RiskAssumption, Position, Bars, ProtectiveExit

\* No breaker trips exactly when none of the three limits is reached.
LEMMA NoBreaker ==
    ASSUME NEW p
    PROVE ({b \in {"SESSION_LOSS_LIMIT", "DRAWDOWN_LIMIT", "CONSECUTIVE_LOSS_LIMIT"} :
              CASE b = "SESSION_LOSS_LIMIT" ->
                      AtLeast(Larger(-p.sessionPnl, 0), p.sessionEquity, SessionLoss)
                [] b = "DRAWDOWN_LIMIT" ->
                      AtLeast(p.peak - p.equity, p.peak, Drawdown)
                [] OTHER -> p.losses >= MaxLosses} = {})
          <=> /\ ~AtLeast(Larger(-p.sessionPnl, 0), p.sessionEquity, SessionLoss)
              /\ ~AtLeast(p.peak - p.equity, p.peak, Drawdown)
              /\ ~(p.losses >= MaxLosses)
  OBVIOUS

\* A session that has lost nothing is not at its limit.
LEMMA NoLossNoLimit ==
    ASSUME RiskAssumption, NEW equity \in Nat \ {0}
    PROVE ~AtLeast(Larger(-0, 0), equity, SessionLoss)
  <1>1. SessionLoss[1] \in Nat \ {0} /\ SessionLoss[2] \in Nat \ {0}
    BY DEF RiskAssumption
  <1>2. \A n \in Nat \ {0} : equity * n > 0
    OBVIOUS
  <1>3. Larger(-0, 0) = 0 /\ 0 * SessionLoss[2] = 0
    BY <1>1 DEF Larger
  <1>4. equity * SessionLoss[1] > 0
    BY <1>1, <1>2
  <1>5. equity * SessionLoss[1] \in Nat
    BY <1>1
  <1> QED
    BY <1>3, <1>4, <1>5 DEF AtLeast

LEMMA RiskStart ==
    ASSUME RiskAssumption, RiskInit
    PROVE RiskInv
  <1>1. RiskShape
    <2>1. led \in Ledgers
      BY DEF RiskAssumption, RiskInit, CloseReports, Ledgers
    <2> QED
      BY <2>1 DEF RiskAssumption, RiskInit, RiskShape
  <1>2. Pending
    BY DEF RiskInit, Pending
  <1>3. FillsSeen /\ EntryStands
    BY DEF RiskInit, FillsSeen, EntryStands, Reported, NoClose, Flat, NoAuth
  <1> QED
    BY <1>1, <1>2, <1>3 DEF RiskInv

\* An observation brings the portfolio up to the fills; a pending entry is still flat,
\* so it sees the cash it had and trips nothing.
LEMMA ObserveKeeps ==
    ASSUME RiskAssumption, RiskInv, NEW mark \in Prices, Observe(mark)
    PROVE RiskInv'
  <1> DEFINE time == pf.time + 1
             quantity == ad.pos.quantity
             equity == led.cash + quantity * mark
             close == IF CloseAccepted(led.close, quantity) THEN led.close ELSE NoClose
             reset == time % Day = 0 /\ ~close.closed
  <1>1. RiskShape /\ Pending /\ (Prompt \/ ~StreakMissed => FillsSeen /\ EntryStands)
    BY DEF RiskInv
  <1>2. /\ equity > 0
        /\ Prompt => ad.last = pf.time
        /\ pf' = [time |-> time,
                  session |-> IF reset THEN time ELSE pf.session,
                  sessionEquity |-> IF reset THEN equity ELSE pf.sessionEquity,
                  equity |-> equity,
                  quantity |-> quantity,
                  peak |-> Larger(pf.peak, equity),
                  sessionPnl |-> IF reset THEN 0 ELSE pf.sessionPnl + close.pnl,
                  losses |-> ObservedStreak(pf.losses, close)]
        /\ led' = [led EXCEPT !.close = NoClose,
                               !.day = IF reset THEN 0 ELSE led.day,
                               !.missed = IF reset THEN led.missed \ {"session"}
                                          ELSE led.missed]
        /\ ks' = ks /\ ad' = ad /\ auth' = auth
    BY DEF Observe
  <1>3. quantity \in {0, 1} /\ (ad.pos = Flat => quantity = 0)
    BY <1>1 DEF RiskShape, Position, Flat
  <1>4. mark \in Nat /\ led.cash \in Int
    BY <1>1, LedgerFields DEF RiskShape, RiskAssumption
  <1>5. equity \in Nat \ {0} /\ (quantity = 0 => equity = led.cash)
    BY <1>2, <1>3, <1>4
  <1>6. close.pnl \in Int
    <2>1. \A x \in CloseReports : x.pnl \in Int
      <3>1. NoClose.pnl = 0
        BY DEF NoClose
      <3>2. \A x \in [closed : BOOLEAN, pnl : Int] : x.pnl \in Int
        OBVIOUS
      <3> QED
        BY <3>1, <3>2 DEF CloseReports
    <2>2. close \in CloseReports
      BY <1>1, LedgerFields DEF RiskShape, CloseReports
    <2> QED
      BY <2>1, <2>2
  <1>7. Reported => close = NoClose
    <2>1. led.close \in CloseReports
      BY <1>1, LedgerFields DEF RiskShape
    <2> QED
      BY <2>1 DEF Reported, CloseReports
  <1> HIDE DEF reset
  <1>8. led'.close = NoClose /\ led'.cash = led.cash
        /\ led' \in Ledgers /\ (StreakMissed' <=> StreakMissed)
    <2> DEFINE day == IF reset THEN 0 ELSE led.day
               missed == IF reset THEN led.missed \ {"session"} ELSE led.missed
    <2>1. NoClose \in CloseReports
      BY DEF CloseReports
    <2>2. led \in Ledgers
      BY <1>1 DEF RiskShape
    <2>3. day \in Int /\ missed \in SUBSET {"streak", "session"}
      BY <2>2, LedgerFields
    <2>4. "streak" \in missed <=> "streak" \in led.missed
      OBVIOUS
    <2>5. led' = [led EXCEPT !.close = NoClose, !.day = day, !.missed = missed]
      BY <1>2
    <2> HIDE DEF day, missed
    <2>6. led' \in Ledgers
      BY <2>1, <2>2, <2>3, <2>5 DEF Ledgers
    <2>7. led'.close = NoClose /\ led'.cash = led.cash /\ led'.missed = missed
      BY <2>2, <2>5 DEF Ledgers
    <2> QED
      BY <2>4, <2>6, <2>7 DEF StreakMissed
  <1> HIDE DEF quantity, equity, close
  <1> USE DEF reset
  <1>9. /\ pf'.time = pf.time + 1 /\ pf'.quantity = quantity /\ pf'.equity = equity
        /\ pf'.peak = Larger(pf.peak, equity)
        /\ pf'.sessionPnl = IF reset THEN 0 ELSE pf.sessionPnl + close.pnl
        /\ pf'.sessionEquity = IF reset THEN equity ELSE pf.sessionEquity
        /\ pf'.losses = ObservedStreak(pf.losses, close)
    BY <1>2
  <1> HIDE DEF time, reset
  <1>10. RiskShape'
    <2>1. pf'.sessionPnl \in Int /\ pf'.peak \in Int /\ pf'.peak >= pf'.equity
      BY <1>1, <1>5, <1>6, <1>9 DEF RiskShape, Larger
    <2> QED
      BY <2>1, <1>1, <1>2, <1>3, <1>5, <1>8, <1>9 DEF RiskShape
  <1>11. Reported'
    BY <1>2, <1>8, <1>9 DEF Reported, NoClose, quantity
  <1>12. Pending'
    <2> SUFFICES ASSUME auth # NoAuth  PROVE Pending'
      BY <1>2 DEF Pending
    <2>1. auth.time = ad.last + 1 /\ auth.time <= pf.time /\ (Prompt => auth.time = pf.time)
          /\ (auth.action = "ENTER_LONG" => auth.quantity = 0)
          /\ (auth.action = "EXIT_LONG" => auth.quantity = 1)
      BY <1>1 DEF Pending
    <2>2. ~Prompt /\ auth.time \in Int /\ auth.time < pf'.time /\ auth.time <= pf'.time
      BY <2>1, <1>1, <1>2, <1>9 DEF RiskShape
    <2> QED
      BY <2>1, <2>2, <1>2, <1>11 DEF Pending
  <1>13. FillsSeen'
    BY <1>2, <1>3, <1>5, <1>8, <1>9, <1>11 DEF FillsSeen
  <1>14. ASSUME EntryStands
         PROVE EntryStands'
    <2> SUFFICES ASSUME auth # NoAuth, auth.action = "ENTER_LONG", auth.approved, ad.pos = Flat
                 PROVE ~Active' /\ Triggered' = {} /\ pf'.equity = led'.cash /\ ~Prompt
      BY <1>2, <1>11 DEF EntryStands
    <2>1. ~Active /\ Triggered = {} /\ Reported /\ pf.equity = led.cash
      BY <1>14 DEF EntryStands
    <2>2. ~Prompt
      BY <1>1, <1>2 DEF Pending, RiskShape
    <2>3. close = NoClose /\ equity = led.cash
      BY <2>1, <1>3, <1>5, <1>7
    <2>4. ~Active'
      BY <2>1, <1>2 DEF Active
    <2>5. /\ ~AtLeast(Larger(-pf.sessionPnl, 0), pf.sessionEquity, SessionLoss)
          /\ ~AtLeast(pf.peak - pf.equity, pf.peak, Drawdown)
          /\ ~(pf.losses >= MaxLosses)
      BY <2>1, NoBreaker DEF Triggered
    <2>6. pf'.peak = pf.peak /\ pf'.equity = pf.equity /\ pf'.losses = pf.losses
      BY <2>1, <2>3, <1>1, <1>9 DEF Larger, ObservedStreak, NoClose, RiskShape
    <2>7. ~AtLeast(Larger(-pf'.sessionPnl, 0), pf'.sessionEquity, SessionLoss)
      <3>1. CASE reset
        <4>1. pf'.sessionPnl = 0 /\ pf'.sessionEquity = equity
          BY <3>1, <1>9
        <4> QED
          BY <4>1, <1>5, NoLossNoLimit
      <3>2. CASE ~reset
        <4>1. pf'.sessionPnl = pf.sessionPnl /\ pf'.sessionEquity = pf.sessionEquity
          BY <3>2, <2>3, <1>1, <1>9 DEF NoClose, RiskShape
        <4> QED
          BY <4>1, <2>5
      <3> QED
        BY <3>1, <3>2
    <2>8. Triggered' = {}
      <3>1. /\ ~AtLeast(pf'.peak - pf'.equity, pf'.peak, Drawdown)
            /\ ~(pf'.losses >= MaxLosses)
        BY <2>5, <2>6
      <3> QED
        BY <3>1, <2>7, NoBreaker DEF Triggered
    <2> QED
      BY <2>2, <2>3, <2>4, <2>8, <1>8, <1>9
  <1> QED
    BY <1>1, <1>8, <1>10, <1>12, <1>13, <1>14 DEF RiskInv

\* The switch consumes evidence: a pending entry has seen no breaker, so none trips.
LEMMA SwitchKeeps ==
    ASSUME RiskInv, NEW action, NEW flag,
           KillSwitchObserve(action, flag) \/ KillSwitchReset(action, flag)
    PROVE RiskInv'
  <1>1. pf' = pf /\ ad' = ad /\ auth' = auth /\ led' = led
    BY DEF KillSwitchObserve, KillSwitchReset
  <1>2. RiskShape' /\ Pending' /\ (FillsSeen => FillsSeen')
    BY <1>1 DEF RiskInv, RiskShape, Pending, FillsSeen, Reported
  <1>3. ASSUME EntryStands, auth # NoAuth, auth.action = "ENTER_LONG", auth.approved,
               ad.pos = Flat
        PROVE EntryStands'
    <2>1. ~Active /\ Triggered = {} /\ Reported /\ pf.equity = led.cash
      BY <1>3 DEF EntryStands
    <2>2. Triggered' = Triggered
      BY <1>1 DEF Triggered
    <2>3. ~Active' /\ ks'.circuit.time = pf'.time
      BY <2>1, <1>1 DEF KillSwitchObserve, KillSwitchReset, Active, Evidence
    <2> QED
      BY <2>1, <2>2, <2>3, <1>1 DEF EntryStands, Reported
  <1>4. EntryStands => EntryStands'
    BY <1>1, <1>3 DEF EntryStands
  <1>5. StreakMissed' <=> StreakMissed
    BY <1>1 DEF StreakMissed
  <1> QED
    BY <1>2, <1>4, <1>5 DEF RiskInv

\* An authorization is given on the portfolio of the bar after the last processed.
LEMMA AuthorizeKeeps ==
    ASSUME RiskAssumption, RiskInv, NEW action \in Actions, Authorize(action)
    PROVE RiskInv'
  <1>1. /\ pf' = pf /\ ks' = ks /\ ad' = ad /\ led' = led
        /\ pf.time = ad.last + 1
        /\ RequestValid(action)
    BY DEF Authorize
  <1>2. RiskShape /\ (Prompt \/ ~StreakMissed => FillsSeen)
    BY DEF RiskInv
  <1>3. PICK qualified \in BOOLEAN, protective \in BOOLEAN :
          auth' = [time |-> pf.time, action |-> action,
                   approved |-> \/ action = "EXIT_LONG"
                                \/ /\ action = "ENTER_LONG"
                                   /\ EntryApproved(qualified, protective),
                   quantity |-> pf.quantity]
    BY DEF Authorize
  <1>4. /\ auth'.time = pf.time /\ auth'.action = action /\ auth'.quantity = pf.quantity
        /\ auth'.approved => action = "EXIT_LONG" \/ EntryApproved(qualified, protective)
    BY <1>3
  <1>5. RiskShape'
    BY <1>1, <1>2 DEF RiskShape
  <1>6. Pending'
    BY <1>1, <1>2, <1>4 DEF Pending, RiskShape, RequestValid
  <1>7. FillsSeen => FillsSeen'
    BY <1>1 DEF FillsSeen, Reported
  <1>8. ASSUME FillsSeen, action = "ENTER_LONG", EntryApproved(qualified, protective),
               ad.pos = Flat
        PROVE EntryStands'
    <2>1. ~Active /\ Triggered = {} /\ ks.circuit.time = pf.time
      BY <1>8 DEF EntryApproved, EntryEvidenceConsumed, Evidence, Authorize
    <2>2. pf.quantity = 0 /\ ad.pos.quantity = 0
      BY <1>1, <1>2, <1>8 DEF RequestValid, Flat
    <2>3. Reported /\ pf.equity = led.cash
      BY <1>1, <1>2, <1>8, <2>2 DEF FillsSeen, RiskShape
    <2>4. ~Active' /\ Triggered' = {} /\ Reported'
      BY <2>1, <2>3, <1>1 DEF Active, Triggered, Reported
    <2> QED
      BY <2>1, <2>3, <2>4, <1>1 DEF EntryStands
  <1>9. FillsSeen => EntryStands'
    <2> SUFFICES ASSUME FillsSeen, auth'.action = "ENTER_LONG", auth'.approved, ad'.pos = Flat
                 PROVE EntryStands'
      BY DEF EntryStands
    <2> QED
      BY <1>1, <1>4, <1>8
  <1>10. StreakMissed' <=> StreakMissed
    BY <1>1 DEF StreakMissed
  <1> QED
    BY <1>2, <1>5, <1>6, <1>7, <1>9, <1>10 DEF RiskInv

\* What a fill leaves: no authorization, the adapter at its bar, and a quantity that
\* tells of the fill or a portfolio the adapter has caught up with, or a missed trade.
LEMMA ProcessedKeeps ==
    ASSUME RiskAssumption, RiskInv, auth # NoAuth,
           auth' = NoAuth, pf' = pf, ks' = ks,
           ad' \in [pos : Position \cup {Flat}, last : Int],
           ad'.last = auth.time,
           led' \in Ledgers,
           \/ ad'.pos = ad.pos /\ led' = led
           \/ Prompt
           \/ ad'.pos.quantity # ad.pos.quantity
           \/ StreakMissed'
    PROVE RiskInv'
  <1>1. RiskShape /\ Pending /\ (Prompt \/ ~StreakMissed => FillsSeen)
    BY DEF RiskInv
  <1>2. auth.time = ad.last + 1 /\ auth.time <= pf.time /\ (Prompt => auth.time = pf.time)
    BY <1>1 DEF Pending
  <1>3. RiskShape'
    BY <1>1, <1>2 DEF RiskShape
  <1>4. Pending' /\ EntryStands'
    BY DEF Pending, EntryStands
  <1>5. ASSUME Prompt \/ ~StreakMissed'
        PROVE FillsSeen'
    <2>1. CASE Prompt
      BY <2>1, <1>1, <1>2 DEF FillsSeen, RiskShape
    <2>2. CASE ad'.pos = ad.pos /\ led' = led
      BY <2>2, <1>1, <1>2, <1>5 DEF FillsSeen, Reported, RiskShape, StreakMissed
    <2>3. CASE ~Prompt /\ ad'.pos.quantity # ad.pos.quantity
      <3> SUFFICES ASSUME pf'.time > ad'.last  PROVE pf'.quantity # ad'.pos.quantity
        BY <2>3 DEF FillsSeen
      <3>1. auth.time < pf.time
        BY <1>1, <1>2 DEF RiskShape
      <3> QED
        BY <2>3, <3>1, <1>1 DEF Pending, Reported
    <2> QED
      BY <1>5, <2>1, <2>2, <2>3
  <1> QED
    BY <1>3, <1>4, <1>5 DEF RiskInv

\* A close in cash is a close the portfolio can be told.
LEMMA CloseShape ==
    ASSUME RiskShape, NEW pos \in Position, NEW price \in Nat, NEW cash \in Int,
           NEW sameBar \in BOOLEAN
    PROVE /\ Closed(pos, price, cash, sameBar) \in Ledgers
          /\ sameBar => "streak" \in Closed(pos, price, cash, sameBar).missed
  <1> DEFINE pnl == price - pos.entry
  <1>1. pnl \in Int
    BY DEF Position
  <1>2. Closed(pos, price, cash, sameBar) =
          [cash |-> cash + price, streak |-> TrueStreak(led.streak, pnl),
           close |-> [closed |-> TRUE, pnl |-> pnl],
           day |-> led.day + pnl, missed |-> MissedBy(pnl, sameBar)]
    BY DEF Closed
  <1> HIDE DEF pnl
  <1>3. [closed |-> TRUE, pnl |-> pnl] \in CloseReports
    BY <1>1 DEF CloseReports
  <1>4. led.streak \in Nat /\ led.day \in Int /\ led.missed \in SUBSET {"streak", "session"}
    BY LedgerFields DEF RiskShape
  <1>5. cash + price \in Int /\ TrueStreak(led.streak, pnl) \in Nat /\ led.day + pnl \in Int
    BY <1>1, <1>4 DEF TrueStreak
  <1>6. MissedBy(pnl, sameBar) \in SUBSET {"streak", "session"}
        /\ (sameBar => "streak" \in MissedBy(pnl, sameBar))
    BY <1>4 DEF MissedBy
  <1> QED
    BY <1>2, <1>3, <1>5, <1>6 DEF Ledgers

LEMMA HoldKeeps ==
    ASSUME RiskAssumption, RiskInv, NEW c \in Bars, ProcessHold(c)
    PROVE RiskInv'
  <1> DEFINE price == IF ad.pos = Flat THEN 0 ELSE ProtectiveExit(ad.pos, c)
  <1>1. RiskShape /\ Pending
    BY DEF RiskInv
  <1>2. auth # NoAuth /\ auth' = NoAuth /\ pf' = pf /\ ks' = ks /\ auth.time \in Int
    BY <1>1 DEF ProcessHold, Pending, RiskShape
  <1>3. CASE price = 0
    <2>1. ad' = [ad EXCEPT !.last = auth.time] /\ led' = led
      BY <1>3 DEF ProcessHold
    <2>2. ad' \in [pos : Position \cup {Flat}, last : Int] /\ ad'.last = auth.time
          /\ ad'.pos = ad.pos
      BY <2>1, <1>1, <1>2 DEF RiskShape
    <2>3. led' \in Ledgers
      BY <2>1, <1>1 DEF RiskShape
    <2> QED
      BY <2>1, <2>2, <2>3, <1>2, ProcessedKeeps
  <1>4. CASE price # 0
    <2>1. ad' = [pos |-> Flat, last |-> auth.time] /\ led' = Closed(ad.pos, price, led.cash, FALSE)
      BY <1>4 DEF ProcessHold
    <2>2. ad.pos \in Position
      BY <1>1, <1>4 DEF RiskShape
    <2>3. price \in Nat
      BY <2>2, ExitPrice
    <2>4. ad' \in [pos : Position \cup {Flat}, last : Int] /\ ad'.last = auth.time
          /\ ad'.pos.quantity # ad.pos.quantity
      BY <2>1, <2>2, <1>2 DEF Flat, Position
    <2>5. led' \in Ledgers
      BY <2>1, <2>2, <2>3, <1>1, CloseShape, LedgerFields DEF RiskShape
    <2> QED
      BY <2>4, <2>5, <1>2, ProcessedKeeps
  <1> QED
    BY <1>3, <1>4

LEMMA ExitKeeps ==
    ASSUME RiskAssumption, RiskInv, NEW c \in Bars, ProcessExit(c)
    PROVE RiskInv'
  <1>1. RiskShape /\ Pending
    BY DEF RiskInv
  <1>2. /\ auth # NoAuth /\ auth' = NoAuth /\ pf' = pf /\ ks' = ks /\ auth.time \in Int
        /\ ad' = [pos |-> Flat, last |-> auth.time] /\ led' = Closed(ad.pos, c.open, led.cash, FALSE)
    BY <1>1 DEF ProcessExit, Pending, RiskShape
  <1>3. ad.pos \in Position
    BY <1>1 DEF ProcessExit, RiskShape
  <1>4. ad' \in [pos : Position \cup {Flat}, last : Int] /\ ad'.last = auth.time
        /\ ad'.pos.quantity # ad.pos.quantity
    BY <1>2, <1>3 DEF Flat, Position
  <1>5. led' \in Ledgers
    <2>1. c.open \in Nat /\ led.cash \in Int
      BY <1>1, LedgerFields DEF Bars, RiskAssumption, RiskShape
    <2> QED
      BY <2>1, <1>1, <1>2, <1>3, CloseShape
  <1> QED
    BY <1>2, <1>4, <1>5, ProcessedKeeps

LEMMA EnterKeeps ==
    ASSUME RiskAssumption, RiskInv, NEW c \in Bars, NEW bracket \in Brackets,
           ProcessEnter(c, bracket)
    PROVE RiskInv'
  <1> DEFINE pos == [quantity |-> 1, entry |-> c.open,
                     stop |-> bracket[1], target |-> bracket[2]]
             price == ProtectiveExit(pos, c)
  <1>1. RiskShape /\ Pending
    BY DEF RiskInv
  <1>2. /\ auth # NoAuth /\ auth' = NoAuth /\ pf' = pf /\ ks' = ks /\ auth.time \in Int
        /\ ad.pos = Flat
    BY <1>1 DEF ProcessEnter, Pending, RiskShape
  <1>3. c.open \in Nat
    BY DEF Bars, RiskAssumption
  <1>4. pos \in Position
    BY <1>3 DEF Position, RiskAssumption
  <1>5. CASE price = 0
    <2>1. ad' = [pos |-> pos, last |-> auth.time]
          /\ led' = [led EXCEPT !.cash = led.cash - c.open]
      BY <1>5 DEF ProcessEnter
    <2>2. pos.quantity = 1 /\ ad.pos.quantity = 0
      BY <1>2 DEF Flat
    <2> HIDE DEF pos
    <2>3. ad' \in [pos : Position \cup {Flat}, last : Int] /\ ad'.last = auth.time
          /\ ad'.pos.quantity # ad.pos.quantity
      BY <2>1, <2>2, <1>2, <1>4
    <2>4. led' \in Ledgers
      BY <2>1, <1>1, <1>3 DEF RiskShape, Ledgers
    <2> QED
      BY <2>3, <2>4, <1>2, ProcessedKeeps
  <1>6. CASE price # 0
    <2>1. ad' = [pos |-> Flat, last |-> auth.time]
          /\ led' = Closed(pos, price, led.cash - c.open, TRUE)
      BY <1>6 DEF ProcessEnter
    <2>2. price \in Nat /\ led.cash - c.open \in Int
      BY <1>1, <1>3, <1>4, ExitPrice, LedgerFields DEF RiskShape
    <2> HIDE DEF pos, price
    <2>3. led' \in Ledgers /\ "streak" \in led'.missed
      BY <2>1, <2>2, <1>1, <1>4, CloseShape
    <2>4. ad' \in [pos : Position \cup {Flat}, last : Int] /\ ad'.last = auth.time
      BY <2>1, <1>2
    <2> QED
      BY <2>3, <2>4, <1>2, ProcessedKeeps DEF StreakMissed
  <1> QED
    BY <1>5, <1>6

LEMMA RiskInvariant == RiskSpec => []RiskInv
  <1>1. RiskInit => RiskInv
    BY RiskAssumption, RiskStart
  <1>2. RiskInv /\ [RiskNext]_riskVars => RiskInv'
    <2> SUFFICES ASSUME RiskInv, [RiskNext]_riskVars  PROVE RiskInv'
      OBVIOUS
    <2> USE RiskAssumption
    <2>1. ASSUME NEW mark \in Prices, Observe(mark)  PROVE RiskInv'
      BY <2>1, ObserveKeeps
    <2>2. ASSUME NEW action \in Actions, NEW flag \in BOOLEAN,
                 KillSwitchObserve(action, flag) \/ KillSwitchReset(action, flag)
          PROVE RiskInv'
      BY <2>2, SwitchKeeps
    <2>3. ASSUME NEW action \in Actions, Authorize(action)  PROVE RiskInv'
      BY <2>3, AuthorizeKeeps
    <2>4. ASSUME NEW c \in Bars, ProcessHold(c)  PROVE RiskInv'
      BY <2>4, HoldKeeps
    <2>5. ASSUME NEW c \in Bars, ProcessExit(c)  PROVE RiskInv'
      BY <2>5, ExitKeeps
    <2>6. ASSUME NEW c \in Bars, NEW bracket \in Brackets, ProcessEnter(c, bracket)
          PROVE RiskInv'
      BY <2>6, EnterKeeps
    <2>7. CASE Abandon
      <3>1. RiskShape' /\ Pending' /\ (FillsSeen => FillsSeen') /\ EntryStands'
        BY <2>7 DEF Abandon, RiskInv, RiskShape, Pending, FillsSeen, EntryStands, Reported
      <3>2. StreakMissed' <=> StreakMissed
        BY <2>7 DEF Abandon, StreakMissed
      <3> QED
        BY <3>1, <3>2 DEF RiskInv
    <2>8. CASE UNCHANGED riskVars
      BY <2>8 DEF riskVars, RiskInv, RiskShape, Pending, FillsSeen, EntryStands, Reported,
                  Active, Triggered, StreakMissed
    <2> QED
      BY <2>1, <2>2, <2>3, <2>4, <2>5, <2>6, <2>7, <2>8 DEF RiskNext
  <1> QED
    BY <1>1, <1>2, PTL DEF RiskSpec

\* Only an approved entry takes cash out.
LEMMA EntryFillIsApproved ==
    ASSUME RiskAssumption, RiskShape, [RiskNext]_riskVars, EntryFill
    PROVE auth # NoAuth /\ auth.action = "ENTER_LONG" /\ auth.approved /\ ad.pos = Flat
  <1>1. ad.pos = Flat /\ led'.cash < led.cash
    BY DEF EntryFill
  <1>2. led'.cash # led.cash
    BY <1>1, LedgerFields DEF RiskShape
  <1>3. ASSUME NEW mark \in Prices, Observe(mark)  PROVE FALSE
    BY <1>2, <1>3 DEF Observe, RiskShape, Ledgers
  <1>4. ASSUME NEW c \in Bars, ProcessHold(c)  PROVE FALSE
    BY <1>1, <1>2, <1>4 DEF ProcessHold
  <1>5. ASSUME NEW c \in Bars, ProcessExit(c)  PROVE FALSE
    BY <1>1, <1>5 DEF ProcessExit
  <1>6. led' # led
    BY <1>2
  <1>7. PICK c \in Bars, bracket \in Brackets : ProcessEnter(c, bracket)
    BY <1>3, <1>4, <1>5, <1>6
       DEF RiskNext, riskVars, KillSwitchObserve, KillSwitchReset, Authorize, Abandon
  <1> QED
    BY <1>7 DEF ProcessEnter

\* A streak at its limit trips its breaker.
LEMMA StreakTrips ==
    ASSUME pf.losses >= MaxLosses  PROVE Triggered # {}
  BY NoBreaker DEF Triggered

\* No step unlocks a switch locked by a streak: nothing is open that could be closed
\* with a profit, and nothing is approved that could open it.
LEMMA LockStays ==
    ASSUME RiskAssumption, RiskShape, StreakLocked, [RiskNext]_riskVars
    PROVE StreakLocked'
  <1>1. /\ Active /\ pf.losses >= MaxLosses
        /\ ad.pos = Flat /\ pf.quantity = 0 /\ ~led.close.closed /\ ~auth.approved
    BY DEF StreakLocked
  <1>2. Triggered # {}
    BY <1>1, StreakTrips
  <1>3. ASSUME NEW mark \in Prices, Observe(mark)  PROVE StreakLocked'
    <2>1. led.close = NoClose
      BY <1>1, LedgerFields DEF RiskShape, CloseReports
    <2>2. /\ pf'.losses = ObservedStreak(pf.losses, NoClose)
          /\ pf'.quantity = ad.pos.quantity
          /\ led'.close = NoClose
          /\ ks' = ks /\ ad' = ad /\ auth' = auth
      BY <1>3, <2>1 DEF Observe, RiskShape, Ledgers
    <2>3. pf'.losses = pf.losses /\ pf'.quantity = 0 /\ led'.close = NoClose
      BY <2>2, <1>1 DEF ObservedStreak, NoClose, Flat, RiskShape
    <2> QED
      BY <2>2, <2>3, <1>1 DEF StreakLocked, Active, NoClose
  <1>4. ASSUME NEW action, NEW flag, KillSwitchObserve(action, flag)  PROVE StreakLocked'
    <2>1. ks'.mode = "TRIGGERED" /\ pf' = pf /\ ad' = ad /\ auth' = auth /\ led' = led
      BY <1>1, <1>4 DEF KillSwitchObserve
    <2> QED
      BY <2>1, <1>1 DEF StreakLocked, Active
  <1>5. ASSUME NEW action, NEW flag, KillSwitchReset(action, flag)  PROVE FALSE
    BY <1>2, <1>5 DEF KillSwitchReset
  <1>6. ASSUME NEW action \in Actions, Authorize(action)  PROVE StreakLocked'
    <2>1. action # "EXIT_LONG"
      BY <1>1, <1>6 DEF Authorize, RequestValid
    <2>2. ~auth'.approved /\ pf' = pf /\ ks' = ks /\ ad' = ad /\ led' = led
      BY <2>1, <1>1, <1>6 DEF Authorize, EntryApproved
    <2> QED
      BY <2>2, <1>1 DEF StreakLocked, Active
  <1>7. ASSUME NEW c \in Bars, ProcessHold(c)  PROVE StreakLocked'
    <2>1. ad' = [ad EXCEPT !.last = auth.time] /\ led' = led /\ auth' = NoAuth
          /\ pf' = pf /\ ks' = ks
      BY <1>1, <1>7 DEF ProcessHold
    <2>2. ad'.pos = ad.pos /\ ~auth'.approved
      BY <2>1 DEF RiskShape, NoAuth
    <2> QED
      BY <2>1, <2>2, <1>1 DEF StreakLocked, Active
  <1>8. ASSUME NEW c \in Bars, ProcessExit(c)  PROVE FALSE
    BY <1>1, <1>8 DEF ProcessExit
  <1>9. ASSUME NEW c \in Bars, NEW bracket \in Brackets, ProcessEnter(c, bracket)
        PROVE FALSE
    BY <1>1, <1>9 DEF ProcessEnter
  <1>10. CASE Abandon \/ UNCHANGED riskVars
    BY <1>1, <1>10 DEF Abandon, riskVars, StreakLocked, Active, NoAuth
  <1> QED
    BY <1>3, <1>4, <1>5, <1>6, <1>7, <1>8, <1>9, <1>10 DEF RiskNext

\* An entry is filled only while nothing forbids it: with the evidence of its own bar
\* when the caller finishes each bar, and when it does not, under an active Kill Switch
\* only after a trade that one bar opened and closed and no observation could report;
\* and a loss streak at its limit locks the switch for good (authorize_paper_request,
\* RiskManagedPaperAdapter, kill_switch), whatever the prices, brackets and limits.
THEOREM EntryTheorem == RiskSpec => EntriesAreGuarded
  <1>1. RiskInv /\ [RiskNext]_riskVars => [EntriesAreGuardedStep]_riskVars
    <2> SUFFICES ASSUME RiskInv, [RiskNext]_riskVars  PROVE EntriesAreGuardedStep
      OBVIOUS
    <2>1. RiskShape
      BY DEF RiskInv
    <2>2. ASSUME Prompt \/ ~StreakMissed, EntryFill
          PROVE ~Active /\ (Prompt => Triggered = {} /\ ks.circuit.time = pf.time)
      <3>1. auth # NoAuth /\ auth.action = "ENTER_LONG" /\ auth.approved /\ ad.pos = Flat
        BY <2>1, <2>2, RiskAssumption, EntryFillIsApproved
      <3>2. EntryStands
        BY <2>2 DEF RiskInv
      <3> QED
        BY <3>1, <3>2 DEF EntryStands
    <2>3. StreakLocked => StreakLocked'
      BY <2>1, RiskAssumption, LockStays
    <2> QED
      BY <2>2, <2>3 DEF EntriesAreGuardedStep, UntoldEntryStep, EntryGuardedStep,
                        StreakLockIsFinalStep, StreakMissed
  <1> QED
    BY <1>1, RiskInvariant, PTL DEF RiskSpec, EntriesAreGuarded

\* What the managed state counts of the fills before the last close.
CountsWith(losses, pnl) ==
    /\ led.streak = losses \/ "streak" \in led.missed
    /\ led.day = pnl \/ "session" \in led.missed

\* A close that is not reported yet is the last fill: the counts will take it up if an
\* observation saw the position, and miss it if one bar opened and closed it.
FillsCounted ==
    IF led.close.closed
    THEN \/ /\ pf.quantity = 1 /\ ad.pos = Flat
            /\ CountsWith(TrueStreak(pf.losses, led.close.pnl),
                          pf.sessionPnl + led.close.pnl)
         \/ pf.quantity = 0 /\ led.missed = {"streak", "session"}
    ELSE CountsWith(pf.losses, pf.sessionPnl)

\* A fill happens on a portfolio that has been told all the fills before it.
LEMMA FillAfterReport ==
    ASSUME RiskInv, Prompt, auth # NoAuth
    PROVE Reported /\ auth.time = pf.time
  <1>1. auth.time = ad.last + 1 /\ auth.time = pf.time
    BY DEF RiskInv, Pending
  <1>2. pf.time > ad.last
    BY <1>1 DEF RiskInv, RiskShape
  <1> QED
    BY <1>1, <1>2 DEF RiskInv, FillsSeen

LEMMA CountedStep ==
    ASSUME RiskAssumption, Prompt, RiskInv, FillsCounted, [RiskNext]_riskVars
    PROVE FillsCounted'
  <1>1. RiskShape
    BY DEF RiskInv
  <1>0. /\ led \in Ledgers /\ led.close \in CloseReports /\ led.streak \in Nat
        /\ led.day \in Int /\ led.missed \in SUBSET {"streak", "session"}
        /\ pf.sessionPnl \in Int
    BY <1>1, LedgerFields DEF RiskShape
  <1>2. ASSUME NEW mark \in Prices, Observe(mark)  PROVE FillsCounted'
    <2> DEFINE close == IF CloseAccepted(led.close, ad.pos.quantity) THEN led.close ELSE NoClose
               reset == (pf.time + 1) % Day = 0 /\ ~close.closed
               day == IF reset THEN 0 ELSE led.day
               missed == IF reset THEN led.missed \ {"session"} ELSE led.missed
    <2>1. /\ pf'.losses = ObservedStreak(pf.losses, close)
          /\ pf'.sessionPnl = IF reset THEN 0 ELSE pf.sessionPnl + close.pnl
          /\ led' = [led EXCEPT !.close = NoClose, !.day = day, !.missed = missed]
      BY <1>2 DEF Observe
    <2> HIDE DEF day, missed
    <2>2. led'.streak = led.streak /\ led'.close = NoClose /\ led'.day = day
          /\ led'.missed = missed
      BY <2>1, <1>0 DEF Ledgers
    <2>3. SUFFICES CountsWith(pf.losses, pf.sessionPnl)'
      BY <2>2 DEF FillsCounted, NoClose
    <2>4. "streak" \in missed <=> "streak" \in led.missed
      BY DEF missed
    <2>5. CASE led.close.closed /\ pf.quantity = 1
      <3>1. close = led.close /\ ~reset
        BY <2>5 DEF FillsCounted, CloseAccepted, Flat
      <3>2. CountsWith(TrueStreak(pf.losses, led.close.pnl), pf.sessionPnl + led.close.pnl)
        BY <2>5 DEF FillsCounted
      <3>3. pf'.losses = TrueStreak(pf.losses, led.close.pnl)
            /\ pf'.sessionPnl = pf.sessionPnl + led.close.pnl
        BY <2>1, <2>5, <3>1 DEF ObservedStreak, TrueStreak
      <3>4. day = led.day /\ missed = led.missed
        BY <3>1 DEF day, missed
      <3> QED
        BY <2>2, <3>2, <3>3, <3>4 DEF CountsWith
    <2>6. CASE led.close.closed /\ pf.quantity # 1
      <3>1. pf.quantity = 0 /\ led.missed = {"streak", "session"}
        BY <2>6 DEF FillsCounted
      <3>2. "streak" \in missed
        BY <2>4, <3>1
      <3>3. CASE reset
        <4>1. pf'.sessionPnl = 0 /\ day = 0
          BY <2>1, <3>3 DEF day
        <4> QED
          BY <2>2, <3>2, <4>1 DEF CountsWith
      <3>4. CASE ~reset
        BY <2>2, <3>1, <3>2, <3>4 DEF CountsWith, missed
      <3> QED
        BY <3>3, <3>4
    <2>7. CASE ~led.close.closed
      <3>1. close = NoClose
        BY <2>7, <1>0 DEF CloseReports
      <3>2. pf'.losses = pf.losses
        BY <2>1, <3>1 DEF ObservedStreak, NoClose
      <3>3. CountsWith(pf.losses, pf.sessionPnl)
        BY <2>7 DEF FillsCounted
      <3>4. CASE reset
        <4>1. pf'.sessionPnl = 0 /\ day = 0
          BY <2>1, <3>4 DEF day
        <4> QED
          BY <2>2, <2>4, <3>2, <3>3, <4>1 DEF CountsWith
      <3>5. CASE ~reset
        <4>1. pf'.sessionPnl = pf.sessionPnl
          BY <2>1, <3>1, <3>5, <1>0 DEF NoClose
        <4>2. day = led.day /\ missed = led.missed
          BY <3>5 DEF day, missed
        <4> QED
          BY <2>2, <3>2, <3>3, <4>1, <4>2 DEF CountsWith
      <3> QED
        BY <3>4, <3>5
    <2> QED
      BY <2>5, <2>6, <2>7
  <1>3. ASSUME auth # NoAuth, pf' = pf, ad'.pos = Flat,
               NEW pos \in Position, ad.pos = pos,
               NEW price \in Nat, led' = Closed(pos, price, led.cash, FALSE)
        PROVE FillsCounted'
    <2> DEFINE pnl == price - pos.entry
    <2>1. Reported
      BY <1>3, FillAfterReport
    <2>2. CountsWith(pf.losses, pf.sessionPnl) /\ pf.quantity = 1
      BY <2>1, <1>3 DEF FillsCounted, Reported, Position
    <2>3. /\ led'.close.closed /\ led'.close.pnl = pnl
          /\ led'.streak = TrueStreak(led.streak, pnl) /\ led'.day = led.day + pnl
          /\ led'.missed = MissedBy(pnl, FALSE)
      BY <1>3 DEF Closed
    <2>4. pnl \in Int
      BY <1>3 DEF Position
    <2> HIDE DEF pnl
    <2>5. led'.streak = TrueStreak(pf.losses, pnl) \/ "streak" \in led'.missed
      BY <2>2, <2>3, <2>4 DEF CountsWith, TrueStreak, MissedBy
    <2>6. led'.day = pf.sessionPnl + pnl \/ "session" \in led'.missed
      BY <2>2, <2>3, <2>4 DEF CountsWith, MissedBy
    <2> QED
      BY <2>2, <2>3, <2>5, <2>6, <1>3 DEF FillsCounted, CountsWith
  <1>4. ASSUME auth # NoAuth, pf' = pf, led'.close = led.close, led'.streak = led.streak,
               led'.day = led.day, led'.missed = led.missed
        PROVE FillsCounted'
    <2>1. ~led.close.closed
      BY <1>4, FillAfterReport DEF Reported
    <2> QED
      BY <2>1, <1>4 DEF FillsCounted, CountsWith
  <1>5. ASSUME NEW c \in Bars, ProcessHold(c)  PROVE FillsCounted'
    <2> DEFINE price == IF ad.pos = Flat THEN 0 ELSE ProtectiveExit(ad.pos, c)
    <2>1. auth # NoAuth /\ pf' = pf
      BY <1>5 DEF ProcessHold
    <2>2. CASE price = 0
      BY <2>1, <2>2, <1>4, <1>5 DEF ProcessHold
    <2>3. CASE price # 0
      <3>1. ad' = [pos |-> Flat, last |-> auth.time]
            /\ led' = Closed(ad.pos, price, led.cash, FALSE)
        BY <2>3, <1>5 DEF ProcessHold
      <3>2. ad.pos \in Position
        BY <2>3, <1>1 DEF RiskShape
      <3>3. price \in Nat
        BY <3>2, ExitPrice
      <3> HIDE DEF price
      <3> QED
        BY <2>1, <3>1, <3>2, <3>3, <1>3
    <2> QED
      BY <2>2, <2>3
  <1>6. ASSUME NEW c \in Bars, ProcessExit(c)  PROVE FillsCounted'
    <2>1. auth # NoAuth /\ pf' = pf /\ ad' = [pos |-> Flat, last |-> auth.time]
          /\ led' = Closed(ad.pos, c.open, led.cash, FALSE)
      BY <1>6 DEF ProcessExit
    <2>2. ad.pos \in Position /\ c.open \in Nat
      BY <1>1, <1>6 DEF ProcessExit, RiskShape, Bars, RiskAssumption
    <2> QED
      BY <2>1, <2>2, <1>3
  <1>7. ASSUME NEW c \in Bars, NEW bracket \in Brackets, ProcessEnter(c, bracket)
        PROVE FillsCounted'
    <2> DEFINE pos == [quantity |-> 1, entry |-> c.open,
                       stop |-> bracket[1], target |-> bracket[2]]
               price == ProtectiveExit(pos, c)
    <2>1. auth # NoAuth /\ pf' = pf /\ ad.pos = Flat
      BY <1>7 DEF ProcessEnter
    <2>2. CASE price = 0
      <3>1. led' = [led EXCEPT !.cash = led.cash - c.open]
        BY <1>7, <2>2 DEF ProcessEnter
      <3>2. /\ led'.close = led.close /\ led'.streak = led.streak
            /\ led'.day = led.day /\ led'.missed = led.missed
        BY <3>1, <1>0 DEF Ledgers
      <3> QED
        BY <2>1, <3>2, <1>4
    <2>3. CASE price # 0
      <3>1. led' = Closed(pos, price, led.cash - c.open, TRUE)
        BY <1>7, <2>3 DEF ProcessEnter
      <3>2. pf.quantity = 0
        BY <2>1, FillAfterReport DEF Reported, Flat
      <3> HIDE DEF pos, price
      <3>3. led'.close.closed /\ led'.missed = {"streak", "session"}
        BY <3>1 DEF Closed, MissedBy
      <3> QED
        BY <2>1, <3>2, <3>3 DEF FillsCounted
    <2> QED
      BY <2>2, <2>3
  <1>8. ASSUME pf' = pf, ad' = ad, led' = led  PROVE FillsCounted'
    BY <1>8 DEF FillsCounted, CountsWith
  <1> QED
    BY <1>2, <1>5, <1>6, <1>7, <1>8
       DEF RiskNext, riskVars, KillSwitchObserve, KillSwitchReset, Authorize, Abandon

\* A caller that finishes each bar has, once it has observed it, the position the fills
\* amount to in its portfolio state (apply_portfolio_observation), and their loss streak
\* and session PnL as far as no trade was opened and closed within one bar: the streak
\* then counts short or long until the next trade that does not lose, the PnL until the
\* next session, and nothing else makes them differ, whatever the fills were.
THEOREM StateTheorem ==
    ASSUME Prompt
    PROVE RiskSpec => []StateFollowsFills
  <1>1. RiskInit => FillsCounted
    BY DEF RiskInit, FillsCounted, CountsWith, NoClose
  <1>2. RiskInv /\ FillsCounted /\ [RiskNext]_riskVars => FillsCounted'
    BY RiskAssumption, CountedStep
  <1>3. RiskInv /\ FillsCounted => StateFollowsFills
    BY DEF RiskInv, FillsSeen, Reported, FillsCounted, CountsWith, StateFollowsFills
  <1> QED
    BY <1>1, <1>2, <1>3, RiskInvariant, PTL DEF RiskSpec
=============================================================================
