---------------------------- MODULE CandleStore ----------------------------
(***************************************************************************)
(* P1 market data (yatl/data) of one symbol and interval: the SQLite candle*)
(* store, the kline stream with its REST handoff after a disconnect, the   *)
(* dataset build with its health gate and manifest, and the rebuild of an  *)
(* accepted checkpoint.  Candle t covers interval t; candle `now` is the   *)
(* one the exchange still updates.  A stored candle is the state of its    *)
(* row: open rows carry whatever update came last, a closed row the final  *)
(* values.  The build and the stream may share one database.  A REST answer*)
(* may leave out candles that were asked for: download_range takes any page*)
(* whose rows are ordered and in range, and stops at an empty one.         *)
(***************************************************************************)
EXTENDS Integers, Sequences, FiniteSets

CONSTANTS
    LastInterval,            \* bound: last interval of the clock
    MaxMessages,     \* max_messages of one stream run
    MaxReconnects,   \* max_reconnects
    MaxBackfill,     \* MAX_BACKFILL_CANDLES
    PageLimit,       \* page_limit of download_range
    MaxQueue,        \* bound: messages in flight
    Days,            \* candles of a dataset
    Rebuilders       \* processes rebuilding a checkpoint

ASSUME DataAssumption ==
    /\ {LastInterval, MaxMessages, MaxBackfill, PageLimit, MaxQueue, Days} \subseteq Nat \ {0}
    /\ MaxReconnects \in Nat

VARIABLES
    now,       \* interval the exchange is in
    store,     \* candle -> "absent", "open", "closed"
    stream,    \* PublicKlineStream; missed (history): candles a backfill was not
               \* given, and those that ended between a backfill and its connection
    queue,     \* events of the connection, not yet received
    build,     \* build_datasets
    manifest,  \* candles of the written manifest, {} when there is none
    rebuild,   \* Rebuilders -> state of rebuild_accepted_database
    checkpoint       \* who made the checkpoint database last, "nobody" when absent

dataVars == <<now, store, stream, queue, build, manifest, rebuild, checkpoint>>

Candles == 0 .. LastInterval
NoTime == -1
NoRows == {}

DataInit ==
    /\ now = 0
    /\ store = [t \in Candles |-> "absent"]
    /\ stream = [pc |-> "new", last |-> NoTime, first |-> NoTime, messages |-> 0,
                 reconnects |-> 0, rows |-> NoRows, missed |-> NoRows]
    /\ queue = <<>>
    /\ build = [pc |-> "idle", time |-> 0, known |-> NoRows, cursor |-> 0, rows |-> NoRows]
    /\ manifest = {}
    /\ rebuild = [r \in Rebuilders |-> "new"]
    /\ checkpoint = "nobody"
-----------------------------------------------------------------------------
(* Store *)

\* normalize_rest_kline: closed when the server time is behind the interval
NormalizeRest(t, time) == IF time > t THEN "closed" ELSE "open"

ConflictsNever(t, state) == FALSE

\* CandleStore._write: an identical row is unchanged, a closed one never
\* becomes anything else
Conflicts(t, state) == store[t] = "closed" /\ state # "closed"

\* The exchange
Tick ==
    /\ now < LastInterval
    /\ stream.pc = "connected" => Len(queue) < MaxQueue
    /\ now' = now + 1
    /\ stream' = IF stream.pc \in {"backfill", "connecting"}
                 THEN [stream EXCEPT !.missed = @ \cup {now}] ELSE stream
    /\ queue' = IF stream.pc = "connected"
                THEN Append(queue, [t |-> now, state |-> "closed"]) ELSE queue
    /\ UNCHANGED <<store, build, manifest, rebuild, checkpoint>>

Update ==
    /\ stream.pc = "connected" /\ Len(queue) < MaxQueue
    /\ queue' = Append(queue, [t |-> now, state |-> "open"])
    /\ UNCHANGED <<now, store, stream, build, manifest, rebuild, checkpoint>>
-----------------------------------------------------------------------------
(* Stream *)

\* run: the first connection is made without a backfill
Connect ==
    /\ stream.pc \in {"new", "connecting"}
    /\ stream' = [stream EXCEPT !.pc = "connected"]
    /\ queue' = <<>>
    /\ UNCHANGED <<now, store, build, manifest, rebuild, checkpoint>>

\* _consume of a kline event: an older one or a conflicting one ends the run
Consume ==
    LET event == Head(queue)
    IN /\ stream.pc = "connected" /\ queue # <<>>
       /\ IF event.t < stream.last \/ Conflicts(event.t, event.state)
          THEN /\ stream' = [stream EXCEPT !.pc = "failed"]
               /\ queue' = <<>>
               /\ UNCHANGED store
          ELSE /\ store' = [store EXCEPT ![event.t] = event.state]
               /\ stream' =
                    [stream EXCEPT !.last = event.t,
                                   !.first = IF @ = NoTime THEN event.t ELSE @,
                                   !.messages = @ + 1,
                                   !.pc = IF stream.messages + 1 = MaxMessages
                                          THEN "done" ELSE @]
               /\ queue' = IF stream.messages + 1 = MaxMessages THEN <<>> ELSE Tail(queue)
       /\ UNCHANGED <<now, build, manifest, rebuild, checkpoint>>

MayReconnect == stream.reconnects < MaxReconnects

\* A closed connection, a timeout, serverShutdown or a refused connection
Disconnect ==
    /\ stream.pc \in {"new", "connected", "connecting"}
    /\ stream' = IF MayReconnect
                 THEN [stream EXCEPT !.pc = "backoff", !.reconnects = @ + 1]
                 ELSE [stream EXCEPT !.pc = "failed"]
    /\ queue' = <<>>
    /\ UNCHANGED <<now, store, build, manifest, rebuild, checkpoint>>

BackfillAfterLast(last) == last + 1

BackfillFrom(last) == last

\* _backfill: asks for the last observed candle to the last finished interval and
\* takes what it is given, without a look at what is not there
Backfill ==
    LET start == BackfillFrom(stream.last)
        asked == start .. now - 1
    IN /\ stream.pc = "backoff"
       /\ IF stream.last = NoTime \/ now <= start
          THEN stream' = [stream EXCEPT !.pc = "connecting"]
          ELSE IF now - start > MaxBackfill
          THEN stream' = [stream EXCEPT !.pc = "failed"]
          ELSE \E given \in SUBSET asked :
                 stream' = [stream EXCEPT !.pc = IF given = {} THEN "connecting" ELSE "backfill",
                                          !.rows = given, !.missed = @ \cup (asked \ given)]
       /\ UNCHANGED <<now, store, queue, build, manifest, rebuild, checkpoint>>

BackfillRow ==
    /\ stream.pc = "backfill"
    /\ \E t \in stream.rows :
          /\ \A u \in stream.rows : t <= u
          /\ store' = [store EXCEPT ![t] = "closed"]
          /\ stream' = [stream EXCEPT !.rows = @ \ {t}, !.last = t,
                                      !.pc = IF stream.rows = {t} THEN "connecting" ELSE @]
    /\ UNCHANGED <<now, queue, build, manifest, rebuild, checkpoint>>

\* PublicRestError, NormalizationError, StorageError, a validation failure
StreamError ==
    /\ stream.pc \in {"backoff", "backfill", "connected"}
    /\ stream' = [stream EXCEPT !.pc = "failed", !.rows = NoRows]
    /\ queue' = <<>>
    /\ UNCHANGED <<now, store, build, manifest, rebuild, checkpoint>>
-----------------------------------------------------------------------------
(* Dataset build *)

DatasetRange(time) == {t \in Candles : time - Days <= t /\ t < time}

\* The server time fixes the range; what the store has of it, open rows
\* included, will not be downloaded.
BuildStart ==
    /\ build.pc = "idle" /\ now >= Days
    /\ build' = [pc |-> "page", time |-> now, known |-> {t \in DatasetRange(now) : store[t] # "absent"},
                 cursor |-> now - Days, rows |-> NoRows]
    /\ UNCHANGED <<now, store, stream, queue, manifest, rebuild, checkpoint>>

\* download_range: a page of at most PageLimit candles from the cursor on, the next
\* one asked for behind its last; an empty page ends the download
BuildPage ==
    LET rest == {t \in DatasetRange(build.time) : build.cursor <= t}
    IN /\ build.pc = "page"
       /\ \/ build' = [build EXCEPT !.pc = "write"]
          \/ \E page \in SUBSET rest, last \in rest :
                /\ last \in page /\ \A t \in page : t <= last
                /\ Cardinality(page) <= PageLimit
                /\ build' = [build EXCEPT !.rows = @ \cup (page \ build.known),
                                          !.cursor = last + 1]
       /\ UNCHANGED <<now, store, stream, queue, manifest, rebuild, checkpoint>>

\* write_many is one transaction: a conflict writes nothing
BuildWrite ==
    /\ build.pc = "write"
    /\ IF \E t \in build.rows : Conflicts(t, NormalizeRest(t, build.time))
       THEN /\ build' = [build EXCEPT !.pc = "idle"]
            /\ UNCHANGED store
       ELSE /\ store' = [t \in Candles |->
                IF t \in build.rows THEN NormalizeRest(t, build.time) ELSE store[t]]
            /\ build' = [build EXCEPT !.pc = "health"]
    /\ UNCHANGED <<now, stream, queue, manifest, rebuild, checkpoint>>

\* build_health_report on a range that ends with the last finished interval:
\* no gap, no open row, the latest required candle closed
Healthy(range) ==
    /\ \A t \in range : store[t] # "absent"
    /\ \A t \in range : store[t] # "open"

BuildHealth ==
    /\ build.pc = "health"
    /\ build' = [build EXCEPT !.pc = "idle"]
    /\ manifest' = IF Healthy(DatasetRange(build.time)) THEN DatasetRange(build.time) ELSE manifest
    /\ UNCHANGED <<now, store, stream, queue, rebuild, checkpoint>>

BuildError ==
    /\ build.pc \in {"page", "write"}
    /\ build' = [build EXCEPT !.pc = "idle"]
    /\ UNCHANGED <<now, store, stream, queue, manifest, rebuild, checkpoint>>
-----------------------------------------------------------------------------
(* Checkpoint rebuild *)

RebuildCheck(r) ==
    /\ rebuild[r] = "new"
    /\ rebuild' = [rebuild EXCEPT ![r] = IF checkpoint = "nobody" THEN "filling" ELSE "refused"]
    /\ UNCHANGED <<now, store, stream, queue, build, manifest, checkpoint>>

\* Every dataset downloaded into the temporary file and compared, or not
RebuildFill(r) ==
    /\ rebuild[r] = "filling"
    /\ \E outcome \in {"filled", "failed"} : rebuild' = [rebuild EXCEPT ![r] = outcome]
    /\ UNCHANGED <<now, store, stream, queue, build, manifest, checkpoint>>

\* temporary.replace(target)
RebuildReplace(r) ==
    /\ rebuild[r] = "filled"
    /\ rebuild' = [rebuild EXCEPT ![r] = "done"]
    /\ checkpoint' = r
    /\ UNCHANGED <<now, store, stream, queue, build, manifest>>

DataNext ==
    \/ Tick \/ Update
    \/ Connect \/ Consume \/ Disconnect \/ Backfill \/ BackfillRow \/ StreamError
    \/ BuildStart \/ BuildPage \/ BuildWrite \/ BuildHealth \/ BuildError
    \/ \E r \in Rebuilders : RebuildCheck(r) \/ RebuildFill(r) \/ RebuildReplace(r)

DataSpec == DataInit /\ [][DataNext]_dataVars
-----------------------------------------------------------------------------
\* No candle is stored closed before its interval is over.
DataTypes ==
    /\ store \in [Candles -> {"absent", "open", "closed"}]
    /\ \A t \in Candles : store[t] = "closed" => t < now
    /\ stream.messages \in 0 .. MaxMessages /\ stream.reconnects \in 0 .. MaxReconnects
    /\ manifest \subseteq Candles /\ build.cursor <= build.time

\* A closed candle stays closed whatever late, repeated or conflicting event
\* the stream, its backfill or a dataset build brings.
ClosedIsFinalStep ==
    \A t \in Candles : store[t] = "closed" => store'[t] = "closed"

ClosedIsFinal == [][ClosedIsFinalStep]_dataVars

\* Between the first and the last candle a stream run has observed nothing is
\* missing and nothing is left open, disconnects included, but for the candles no
\* backfill was given and no connection announced.
StreamLeavesNoHole ==
    stream.first # NoTime =>
        \A t \in stream.first .. stream.last - 1 :
            store[t] = "closed" \/ t \in stream.missed

\* Every candle of a written manifest is in the store, closed, for good.
ManifestIsStored == \A t \in manifest : store[t] = "closed"

\* Whatever a stream missed while it was down, the candles it has taken leave no hole
\* but where the exchange left candles out of the answer to its backfill or an interval
\* ended between that answer and the connection: nobody looks for those. A manifest
\* names a range whose candles are all stored, closed, however short the pages of the
\* build were (PublicKlineStream, download_range, build_datasets).
CandlesAreWhole == StreamLeavesNoHole /\ ManifestIsStored

\* A rebuilt checkpoint is never replaced by another rebuild.
CheckpointKeptStep == checkpoint # "nobody" => checkpoint' = checkpoint

CheckpointKept == [][CheckpointKeptStep]_dataVars
=============================================================================
