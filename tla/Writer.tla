-------------------------------- MODULE Writer --------------------------------
(***************************************************************************)
(* The writer service: members of one Kafka consumer group that take the   *)
(* events of three single-partition topics, persist each one in a          *)
(* TimescaleDB transaction together with a checkpoint and two metrics of   *)
(* their own, and commit the Kafka offset afterwards.  A member exits on   *)
(* the first failure and is restarted by its supervisor; a member the      *)
(* group has given up on (max.poll.interval exceeded, a rolling update)    *)
(* may still be running its last transaction.                              *)
(*                                                                         *)
(* Postgres is READ COMMITTED: a statement sees the rows committed when it *)
(* starts, a transaction's writes appear at its commit, and a lock (an     *)
(* advisory lock or the row lock of an upsert) is kept to the end of the   *)
(* transaction.                                                            *)
(***************************************************************************)
EXTENDS Naturals, Sequences, FiniteSets

CONSTANTS
    Writers,        \* members of the consumer group
    NoWriter,       \* owner of a partition nobody is assigned
    Keys,           \* logical identities: track, segment, metric with its labels
    TopicOf,        \* the topic the events of each identity are published on
    RunOf,          \* the run each identity belongs to
    AppendOnly,     \* metrics whose scope label is not replay safe
    Versions,       \* contents (ts included) an event can carry
    Forms,          \* forms of the events published, see AllForms
    MaxLog,         \* bound: events published per topic
    MaxOf           \* bound: how often each disruption may strike

MetadataTopic == "audio.metadata"
FeatureTopic == "audio.features"
MetricTopic == "system.metrics"
Topics == {MetadataTopic, FeatureTopic, MetricTopic}

\* A record the writer persists; one with a run_id it must reject; one it cannot decode.
AllForms == {"valid", "invalid", "undecodable"}
Disruptions == {"crash", "error", "rebalance", "eviction"}

ASSUME KeysAssumption ==
    /\ TopicOf \in [Keys -> Topics]
    /\ DOMAIN RunOf = Keys
    /\ AppendOnly \subseteq {k \in Keys : TopicOf[k] = MetricTopic}
ASSUME BoundsAssumption ==
    /\ MaxLog \in Nat
    /\ MaxOf \in [Disruptions -> Nat]
    /\ Forms \subseteq AllForms
ASSUME WritersAssumption == NoWriter \notin Writers

VARIABLES
    \* Kafka
    log,            \* log[t]: the events of topic t; offsets count from 1 here
    owner,          \* owner[t]: the member topic t is assigned to
    position,       \* position[t]: last offset the owner has fetched
    committed,      \* committed[t]: last offset committed by the group
    \* the members
    pc,             \* pc[w]: the stage member w is in
    current,        \* current[w]: the record it works on
    failure,        \* failure[w]: the failure class it is about to report
    \* TimescaleDB
    held,           \* held[w]: locks of w's open transaction
    found,          \* found[w]: statements of the transaction that met an existing row
    rows,           \* rows[k]: committed rows of identity k
    checkpoint,     \* checkpoint[t][r]: run_checkpoints row, 0 if there is none
    own,            \* own[m]: committed rows of the writer's own metric m
    \* the environment
    struck          \* struck[d]: how often disruption d has struck

kafka == <<log, owner, position, committed>>
member == <<pc, current, failure>>
transaction == <<held, found>>
database == <<rows, checkpoint, own>>
vars == <<kafka, member, transaction, database, struck>>

-----------------------------------------------------------------------------
Events == [key : Keys, version : Versions, form : AllForms]
Row == [ts : Versions, version : Versions]
Runs == {RunOf[k] : k \in Keys}
Offsets == 1..MaxLog
Records == [topic : Topics, offset : Offsets]

\* Every write_failures row carries one of these classes in its labels.
FailureClasses == {"envelope_invalid", "feature_natural_key_conflict",
                   "writer_persistence_failed", "offset_commit_failed"}
SuccessMetrics == {"write_ms", "rows_upserted"}
OwnMetrics == [name : SuccessMetrics \cup FailureClasses, record : Records]

\* The statements of the transaction, in the order _persist_record runs them.
Statements == {"payload", "checkpoint", "write_ms", "rows_upserted"}
InTransaction == Statements \cup {"commit"}
Stages == {"down", "idle", "offset", "failed"} \cup InTransaction

NoRecord == [topic |-> "none", offset |-> 0]
Event(w) == log[current[w].topic][current[w].offset]
Own(name, w) == [name |-> name, record |-> current[w]]

\* Locks, named by what they protect.
RowLock(k) == <<"row", k>>
CheckpointLock(t, r) == <<"checkpoint", t, r>>
OwnLock(m) == <<"own", m>>
Locks == {RowLock(k) : k \in Keys}
         \cup {CheckpointLock(t, r) : t \in Topics, r \in Runs}
         \cup {OwnLock(m) : m \in OwnMetrics}

\* Mutants of LocksOf: a feature or metric is looked up and inserted without
\* its advisory lock; the checkpoint statement also locks every row of the run.
LocksOfNoRow(w, s) ==
    IF s = "payload" THEN {}
    ELSE IF s = "checkpoint" THEN {CheckpointLock(current[w].topic, RunOf[Event(w).key])}
    ELSE {OwnLock(Own(s, w))}

LocksOfWholeRun(w, s) ==
    IF s = "payload" THEN {RowLock(Event(w).key)}
    ELSE IF s = "checkpoint" THEN {RowLock(k) : k \in {x \in Keys : RunOf[x] = RunOf[Event(w).key]}}
    ELSE {OwnLock(Own(s, w))}

\* What statement s of w's transaction has to lock: nothing for a plain INSERT.
LocksOf(w, s) ==
    LET k == Event(w).key IN
    IF s = "payload" THEN IF k \in AppendOnly THEN {} ELSE {RowLock(k)}
    ELSE IF s = "checkpoint" THEN {CheckpointLock(current[w].topic, RunOf[k])}
    ELSE {OwnLock(Own(s, w))}

Obtainable(w, locks) == \A v \in Writers \ {w} : locks \cap held[v] = {}

\* Mutants of Upserted: an append-only metric is replaced; a conflict is ignored.
UpsertedReplacing(k, v, old, existing) == <<[ts |-> v, version |-> v]>>

UpsertedDoingNothing(k, v, old, existing) ==
    IF ~existing THEN Append(old, [ts |-> v, version |-> v]) ELSE old

\* The rows of identity k after an event with version v: an INSERT if the
\* statement found no row, else an UPDATE (features keep their ts, the ON
\* CONFLICT of metadata sets every column, a metric is deleted and inserted).
Upserted(k, v, old, existing) ==
    IF ~existing THEN Append(old, [ts |-> v, version |-> v])
    ELSE IF TopicOf[k] = FeatureTopic THEN [i \in DOMAIN old |-> [old[i] EXCEPT !.version = v]]
    ELSE <<[ts |-> v, version |-> v]>>

\* Mutant of Recounted: the metric is inserted without deleting the old one.
RecountedInserting(n, existing) == n + 1

\* The number of rows of an own metric: replay safe, so it is replaced or inserted.
Recounted(n, existing) == IF existing THEN 1 ELSE n + 1

Strikes(d) ==
    /\ struck[d] < MaxOf[d]
    /\ struck' = [struck EXCEPT ![d] = @ + 1]

-----------------------------------------------------------------------------
Init ==
    /\ log = [t \in Topics |-> <<>>]
    /\ owner = [t \in Topics |-> NoWriter]
    /\ position = [t \in Topics |-> 0]
    /\ committed = [t \in Topics |-> 0]
    /\ pc = [w \in Writers |-> "down"]
    /\ current = [w \in Writers |-> NoRecord]
    /\ failure = [w \in Writers |-> "none"]
    /\ held = [w \in Writers |-> {}]
    /\ found = [w \in Writers |-> {}]
    /\ rows = [k \in Keys |-> <<>>]
    /\ checkpoint = [t \in Topics |-> [r \in Runs |-> 0]]
    /\ own = [m \in OwnMetrics |-> 0]
    /\ struck = [d \in Disruptions |-> 0]

\* Ingestion or processing publishes an event.
Publish(t) ==
    /\ Len(log[t]) < MaxLog
    /\ \E k \in Keys, v \in Versions, f \in Forms :
          /\ TopicOf[k] = t
          /\ log' = [log EXCEPT ![t] = Append(@, [key |-> k, version |-> v, form |-> f])]
    /\ UNCHANGED <<owner, position, committed, member, transaction, database, struck>>

\* The supervisor starts the service; it joins the group with no assignment.
Start(w) ==
    /\ pc[w] = "down"
    /\ pc' = [pc EXCEPT ![w] = "idle"]
    /\ UNCHANGED <<kafka, current, failure, transaction, database, struck>>

\* The group assigns a free topic; fetching resumes after the committed offset.
Assign(t, w) ==
    /\ owner[t] = NoWriter
    /\ pc[w] = "idle"
    /\ owner' = [owner EXCEPT ![t] = w]
    /\ position' = [position EXCEPT ![t] = committed[t]]
    /\ UNCHANGED <<log, committed, member, transaction, database, struck>>

\* A member that rejoins between two polls loses a topic to a rebalance.
Revoke(t) ==
    /\ owner[t] \in Writers
    /\ pc[owner[t]] = "idle"
    /\ Strikes("rebalance")
    /\ owner' = [owner EXCEPT ![t] = NoWriter]
    /\ UNCHANGED <<log, position, committed, member, transaction, database>>

\* The group drops everything that was assigned to w.
Abandoned(w) == [t \in Topics |-> IF owner[t] = w THEN NoWriter ELSE owner[t]]

\* The group gives up on a member that is still busy with a record.
Evict(w) ==
    /\ pc[w] \notin {"down", "idle"}
    /\ Strikes("eviction")
    /\ owner' = Abandoned(w)
    /\ UNCHANGED <<log, position, committed, member, transaction, database>>

\* Mutant of Validated: a record that cannot be persisted is skipped.
ValidatedSkipping(form) == IF form = "valid" THEN "payload" ELSE "offset"

\* Where decoding and validation leave a record of this form.
Validated(form) == IF form = "valid" THEN "payload" ELSE "failed"

\* The loop's poll returns the next record of an assigned topic, which is
\* decoded and validated before a transaction is opened.
Poll(w, t) ==
    /\ pc[w] = "idle"
    /\ owner[t] = w
    /\ position[t] < Len(log[t])
    /\ position' = [position EXCEPT ![t] = @ + 1]
    /\ current' = [current EXCEPT ![w] = [topic |-> t, offset |-> position[t] + 1]]
    /\ LET form == log[t][position[t] + 1].form IN
          /\ pc' = [pc EXCEPT ![w] = Validated(form)]
          /\ failure' = [failure EXCEPT ![w] = IF form = "valid" THEN "none" ELSE "envelope_invalid"]
    /\ UNCHANGED <<log, owner, committed, transaction, database, struck>>

\* Mutant of Release: a connection goes back to its pool with its locks.
ReleaseLeaking(w) ==
    /\ found' = [found EXCEPT ![w] = {}]
    /\ UNCHANGED held

\* The transaction is over, by commit or by rollback.
Release(w) ==
    /\ held' = [held EXCEPT ![w] = {}]
    /\ found' = [found EXCEPT ![w] = {}]

\* Mutants of Fails: the failure is logged and the loop goes on to the offset;
\* the metric gets a class nobody knows.
FailsLogged(w, class) ==
    /\ pc' = [pc EXCEPT ![w] = "offset"]
    /\ failure' = [failure EXCEPT ![w] = class]

FailsUnclassified(w, class) ==
    /\ pc' = [pc EXCEPT ![w] = "failed"]
    /\ failure' = [failure EXCEPT ![w] = "unexpected"]

Fails(w, class) ==
    /\ pc' = [pc EXCEPT ![w] = "failed"]
    /\ failure' = [failure EXCEPT ![w] = class]

\* A statement runs once its lock is free and remembers whether it met a row.
Execute(w, s, met, next) ==
    /\ pc[w] = s
    /\ Obtainable(w, LocksOf(w, s))
    /\ held' = [held EXCEPT ![w] = @ \cup LocksOf(w, s)]
    /\ found' = [found EXCEPT ![w] = IF met THEN @ \cup {s} ELSE @]
    /\ pc' = [pc EXCEPT ![w] = next]
    /\ UNCHANGED <<kafka, current, failure, database, struck>>

\* The row of the record's identity; a feature whose natural key resolves to
\* several rows is an error, which rolls the transaction back.
PersistPayload(w) ==
    LET k == Event(w).key IN
    /\ pc[w] = "payload"
    /\ IF TopicOf[k] = FeatureTopic /\ Len(rows[k]) > 1
       THEN /\ Obtainable(w, LocksOf(w, "payload"))
            /\ Release(w)
            /\ Fails(w, "feature_natural_key_conflict")
            /\ UNCHANGED <<kafka, current, database, struck>>
       ELSE Execute(w, "payload", rows[k] # <<>> /\ k \notin AppendOnly, "checkpoint")

\* Mutant of PersistCheckpoint: the checkpoint is stored outside the transaction.
PersistCheckpointAtOnce(w) ==
    /\ pc[w] = "checkpoint"
    /\ Obtainable(w, LocksOf(w, "checkpoint"))
    /\ checkpoint' = [checkpoint EXCEPT
                         ![current[w].topic][RunOf[Event(w).key]] = current[w].offset]
    /\ pc' = [pc EXCEPT ![w] = "write_ms"]
    /\ UNCHANGED <<kafka, current, failure, transaction, rows, own, struck>>

PersistCheckpoint(w) ==
    Execute(w, "checkpoint", FALSE, "write_ms")

PersistWriteMs(w) ==
    /\ pc[w] = "write_ms"
    /\ Execute(w, "write_ms", own[Own("write_ms", w)] > 0, "rows_upserted")

PersistRowsUpserted(w) ==
    /\ pc[w] = "rows_upserted"
    /\ Execute(w, "rows_upserted", own[Own("rows_upserted", w)] > 0, "commit")

\* The writes of w's transaction become visible, all at once.
Install(w) ==
    LET t == current[w].topic
        k == Event(w).key
    IN  /\ rows' = [rows EXCEPT ![k] = Upserted(k, Event(w).version, @, "payload" \in found[w])]
        /\ checkpoint' = [checkpoint EXCEPT ![t][RunOf[k]] = current[w].offset]
        /\ own' = [own EXCEPT
                      ![Own("write_ms", w)] = Recounted(@, "write_ms" \in found[w]),
                      ![Own("rows_upserted", w)] = Recounted(@, "rows_upserted" \in found[w])]

CommitTransaction(w) ==
    /\ pc[w] = "commit"
    /\ Install(w)
    /\ Release(w)
    /\ pc' = [pc EXCEPT ![w] = "offset"]
    /\ UNCHANGED <<kafka, current, failure, struck>>

\* A database error: the transaction is rolled back, or its commit took
\* effect and only the acknowledgement was lost.
TransactionFails(w) ==
    /\ pc[w] \in InTransaction
    /\ Strikes("error")
    /\ \/ UNCHANGED database
       \/ pc[w] = "commit" /\ Install(w)
    /\ Release(w)
    /\ Fails(w, "writer_persistence_failed")
    /\ UNCHANGED <<kafka, current>>

CommitOffset(w) ==
    /\ pc[w] = "offset"
    /\ owner[current[w].topic] = w
    /\ committed' = [committed EXCEPT ![current[w].topic] = current[w].offset]
    /\ pc' = [pc EXCEPT ![w] = "idle"]
    /\ current' = [current EXCEPT ![w] = NoRecord]
    /\ UNCHANGED <<log, owner, position, failure, transaction, database, struck>>

\* The group rejects the commit of a member it has given up on.
OffsetCommitFenced(w) ==
    /\ pc[w] = "offset"
    /\ owner[current[w].topic] # w
    /\ Fails(w, "offset_commit_failed")
    /\ UNCHANGED <<kafka, current, transaction, database, struck>>

\* The synchronous commit raises; the broker may have stored the offset.
OffsetCommitFails(w) ==
    /\ pc[w] = "offset"
    /\ owner[current[w].topic] = w
    /\ Strikes("error")
    /\ \/ UNCHANGED committed
       \/ committed' = [committed EXCEPT ![current[w].topic] = current[w].offset]
    /\ Fails(w, "offset_commit_failed")
    /\ UNCHANGED <<log, owner, position, current, transaction, database>>

\* The process is gone: its transaction is rolled back, its topics are free.
Gone(w) ==
    /\ pc' = [pc EXCEPT ![w] = "down"]
    /\ current' = [current EXCEPT ![w] = NoRecord]
    /\ failure' = [failure EXCEPT ![w] = "none"]
    /\ owner' = Abandoned(w)
    /\ Release(w)
    /\ UNCHANGED <<log, position, committed>>

\* The write_failures metric is stored in a transaction of its own, unless
\* the event had no readable run_id; then the exception ends the process.
EmitFailureMetric(w) ==
    LET m == Own(failure[w], w) IN
    /\ pc[w] = "failed"
    /\ IF Event(w).form = "undecodable" THEN UNCHANGED own
       ELSE own' = [own EXCEPT ![m] = Recounted(@, @ > 0)]
    /\ Gone(w)
    /\ UNCHANGED <<rows, checkpoint, struck>>

\* Storing the metric fails too, which is logged and swallowed.
EmitFailureMetricFails(w) ==
    /\ pc[w] = "failed"
    /\ Strikes("error")
    /\ Gone(w)
    /\ UNCHANGED database

\* The process is killed, at any point, or leaves between two polls.
Crash(w) ==
    /\ pc[w] # "down"
    /\ Strikes("crash")
    /\ Gone(w)
    /\ UNCHANGED database

\* The record loop of one member, disruptions left out.
Work(w) ==
    \/ PersistPayload(w) \/ PersistCheckpoint(w)
    \/ PersistWriteMs(w) \/ PersistRowsUpserted(w)
    \/ CommitTransaction(w) \/ CommitOffset(w)
    \/ OffsetCommitFenced(w) \/ EmitFailureMetric(w)

Disrupt(w) ==
    \/ Evict(w) \/ TransactionFails(w) \/ OffsetCommitFails(w)
    \/ EmitFailureMetricFails(w) \/ Crash(w)

Next ==
    \/ \E t \in Topics : Publish(t) \/ Revoke(t)
    \/ \E w \in Writers : Start(w) \/ Work(w) \/ Disrupt(w)
    \/ \E w \in Writers, t \in Topics : Assign(t, w) \/ Poll(w, t)

Spec == Init /\ [][Next]_vars

\* A supervisor restarts the service, the group assigns its topics, and a
\* running member keeps polling and finishes what it took.
Fairness ==
    /\ \A w \in Writers : WF_vars(Start(w)) /\ WF_vars(Work(w))
    /\ \A t \in Topics : WF_vars(\E w \in Writers : Assign(t, w))
    /\ \A t \in Topics : WF_vars(\E w \in Writers : Poll(w, t))

FairSpec == Spec /\ Fairness

-----------------------------------------------------------------------------
TypeOK ==
    /\ log \in [Topics -> Seq(Events)]
    /\ owner \in [Topics -> Writers \cup {NoWriter}]
    /\ position \in [Topics -> Nat]
    /\ committed \in [Topics -> Nat]
    /\ pc \in [Writers -> Stages]
    /\ current \in [Writers -> Records \cup {NoRecord}]
    /\ failure \in [Writers -> FailureClasses \cup {"none"}]
    /\ held \in [Writers -> SUBSET Locks]
    /\ found \in [Writers -> SUBSET Statements]
    /\ rows \in [Keys -> Seq(Row)]
    /\ checkpoint \in [Topics -> [Runs -> 0..MaxLog]]
    /\ own \in [OwnMetrics -> Nat]
    /\ struck \in [Disruptions -> Nat]

\* Everything one record leaves in the sink: a row of its identity, and one
\* row of each of the writer's success metrics.
Persisted(t, o) ==
    /\ rows[log[t][o].key] # <<>>
    /\ \A name \in SuccessMetrics :
          own[[name |-> name, record |-> [topic |-> t, offset |-> o]]] = 1

\* An offset is committed only after its record is persisted and checkpointed
\* ("commit Kafka offsets only after persistence and checkpoint update"), so
\* no crash, lost acknowledgement, rebalance or evicted member loses a record.
CommittedIsPersisted ==
    \A t \in Topics : \A o \in 1..committed[t] :
        Persisted(t, o) /\ checkpoint[t][RunOf[log[t][o].key]] > 0

\* A checkpoint row appears together with the row and the metrics of the
\* record it names: a failure between two statements leaves nothing behind.
CheckpointIsPersisted ==
    \A t \in Topics, r \in Runs :
        LET o == checkpoint[t][r] IN
        o > 0 => o <= Len(log[t]) /\ Persisted(t, o) /\ RunOf[log[t][o].key] = r

\* Replays, retries and two members working on the same record never leave
\* two rows for a track, a segment, a replay-safe metric or a writer metric.
OneRowPerIdentity ==
    /\ \A k \in Keys \ AppendOnly : Len(rows[k]) <= 1
    /\ \A m \in OwnMetrics : own[m] <= 1

\* An append-only metric may be stored twice, but none of its committed
\* samples is missing.
AppendOnlyKeepsAll ==
    \A k \in AppendOnly :
        Cardinality({o \in 1..committed[MetricTopic] : log[MetricTopic][o].key = k}) <= Len(rows[k])

\* There is no dead-letter topic: a record the writer cannot persist is never
\* skipped, neither by its owner nor by the next one.
InvalidBlocks ==
    \A t \in Topics : \A o \in 1..committed[t] : log[t][o].form = "valid"

\* w waits for a lock of v.
WaitsFor(w, v) ==
    /\ w # v
    /\ pc[w] \in Statements
    /\ LocksOf(w, pc[w]) \cap held[v] # {}

\* The transactions of overlapping members never wait for each other in a
\* circle (payload lock, checkpoint row, write_ms, rows_upserted: one order).
NoLockCycle ==
    \A S \in SUBSET Writers : S # {} => \E w \in S : \A v \in S : ~WaitsFor(w, v)

-----------------------------------------------------------------------------
\* The inductive invariant behind the safety properties above.

Busy == Stages \ {"down", "idle"}

\* Every event is on the topic of its identity, and the group's offsets are
\* offsets of the log.
LogIsSound ==
    \A t \in Topics :
        /\ Len(log[t]) <= MaxLog
        /\ committed[t] <= Len(log[t])
        /\ position[t] <= Len(log[t])
        /\ \A o \in 1..Len(log[t]) : TopicOf[log[t][o].key] = t

\* A busy member has a record; past validation it is a valid one.
RecordIsSound ==
    \A w \in Writers :
        /\ pc[w] \in Busy => /\ current[w] \in Records
                             /\ current[w].offset <= Len(log[current[w].topic])
        /\ pc[w] \in InTransaction \cup {"offset"} => Event(w).form = "valid"
        /\ pc[w] = "failed" => failure[w] \in FailureClasses

\* The owner of a topic is running, has fetched nothing beyond the record it
\* works on, and has committed everything before it.
OwnerIsInStep ==
    \A t \in Topics : \A w \in Writers : owner[t] = w =>
        /\ pc[w] # "down"
        /\ IF pc[w] \in Busy /\ current[w].topic = t
           THEN /\ position[t] = current[w].offset
                /\ committed[t] \in {position[t] - 1, position[t]}
                /\ pc[w] # "failed" => committed[t] = position[t] - 1
           ELSE position[t] = committed[t]

\* No two transactions hold the same lock, and only a transaction holds any.
LocksAreExclusive ==
    /\ \A w, v \in Writers : w # v => held[w] \cap held[v] = {}
    /\ \A w \in Writers : pc[w] \notin InTransaction => held[w] = {}

\* Statements a transaction has run when its member is at a stage.
Executed(stage) ==
    {s \in Statements :
        \/ stage = "commit"
        \/ stage = "rows_upserted" /\ s # "rows_upserted"
        \/ stage = "write_ms" /\ s \in {"payload", "checkpoint"}
        \/ stage = "checkpoint" /\ s = "payload"}

\* A transaction holds the locks of the statements it has run and no others,
\* and what a statement saw is still what is committed.
FoundIsCurrent ==
    \A w \in Writers :
        /\ found[w] \subseteq Executed(pc[w])
        /\ \A s \in Executed(pc[w]) : LocksOf(w, s) \subseteq held[w]
        /\ \A l \in held[w] : \E s \in Executed(pc[w]) : l \in LocksOf(w, s)
        /\ "payload" \in Executed(pc[w]) =>
              ("payload" \in found[w] <=> /\ rows[Event(w).key] # <<>>
                                         /\ Event(w).key \notin AppendOnly)
        /\ \A s \in Executed(pc[w]) \cap SuccessMetrics : (s \in found[w] <=> own[Own(s, w)] > 0)

\* Between the two commits the record is in the sink.
OffsetFollowsTransaction ==
    \A w \in Writers : pc[w] = "offset" =>
        /\ Persisted(current[w].topic, current[w].offset)
        /\ checkpoint[current[w].topic][RunOf[Event(w).key]] > 0

IndInv ==
    /\ TypeOK
    /\ LogIsSound
    /\ RecordIsSound
    /\ OwnerIsInStep
    /\ LocksAreExclusive
    /\ FoundIsCurrent
    /\ OffsetFollowsTransaction
    /\ CommittedIsPersisted
    /\ CheckpointIsPersisted
    /\ OneRowPerIdentity
    /\ InvalidBlocks

-----------------------------------------------------------------------------
\* The last offset of topic t that any checkpoint row records.
LastCheckpoint(t) ==
    CHOOSE o \in {0} \cup {checkpoint[t][r] : r \in Runs} :
        \A r \in Runs : checkpoint[t][r] <= o

Sink == INSTANCE EventSink WITH applied <- [t \in Topics |-> LastCheckpoint(t)]

\* As long as no evicted member keeps running, the database is the log applied
\* in order, each event once, and the checkpoints say how far: neither a row
\* nor a checkpoint ever goes back to an older event.
AppliesInOrder == Sink!Spec

\* Every published event is committed in the end.
EventuallyCommitted ==
    \A t \in Topics : \A o \in Offsets : (o <= Len(log[t])) ~> (o <= committed[t])
=============================================================================
