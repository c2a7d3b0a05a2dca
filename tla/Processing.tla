------------------------------ MODULE Processing ------------------------------
(***************************************************************************)
(* The processing service: replicas of one Kafka consumer group that take  *)
(* audio.segment.ready events, load the claim-check artifact each event    *)
(* names, publish audio.features and the run's silent_ratio, save the set  *)
(* of processed segments in the run's state file and then commit the       *)
(* offset.  That set is read from the file once per process and run and    *)
(* kept in memory afterwards.  A replica exits on the first failure that   *)
(* is not retried and is restarted by its supervisor.                      *)
(***************************************************************************)
EXTENDS Naturals, Sequences, FiniteSets

CONSTANTS
    Replicas,       \* members of the consumer group, sharing the artifacts volume
    NoReplica,      \* owner of the topic when it is assigned to nobody
    Segments,       \* logical segments (track_id, segment_idx)
    RunOf,          \* the run each segment belongs to
    Contents,       \* audio contents an artifact can hold
    Silent,         \* the contents the silence gate flags
    Forms,          \* forms of the events published, see AllForms
    MaxAttempts,    \* artifact_retry_attempts
    MaxLog,         \* bound: events published
    MaxOf           \* bound: how often each disruption may strike

\* An event that can be processed; one that fails validation; one that cannot be decoded
\* or has another sample rate than the service; one whose URI is not its segment's; one
\* whose sample rate or duration is not the artifact's, or whose artifact is no mono WAV.
AllForms == {"valid", "invalid", "undecodable", "misnamed", "misdescribed"}
Disruptions == {"crash", "error", "rebalance", "eviction", "rewrite"}

ASSUME SegmentsAssumption == DOMAIN RunOf = Segments
ASSUME ReplicasAssumption == NoReplica \notin Replicas
ASSUME ContentsAssumption ==
    /\ Silent \subseteq Contents
    /\ Contents \cap {"missing", "torn"} = {}
    /\ Forms \subseteq AllForms
ASSUME BoundsAssumption ==
    /\ MaxAttempts \in Nat \ {0}
    /\ MaxLog \in Nat
    /\ MaxOf \in [Disruptions -> Nat]

VARIABLES
    \* the claim-check store and its writer, ingestion
    artifact,       \* artifact[s]: what the WAV of segment s holds
    \* Kafka
    ready,          \* the audio.segment.ready log; offsets count from 1 here
    owner,          \* the replica the topic is assigned to
    position,       \* last offset the owner has fetched
    committed,      \* last offset committed by the group
    features,       \* the audio.features events published
    ratio,          \* ratio[r]: the set behind the last silent_ratio published for r
    errors,         \* the feature_errors published, one per offset and class
    \* the replicas
    pc,             \* pc[p]: the stage replica p is in
    current,        \* current[p]: the offset it works on, 0 between records
    attempt,        \* attempt[p]: which attempt at loading the artifact this is
    audio,          \* audio[p]: the content of the artifact p has loaded
    loaded,         \* loaded[p]: the runs whose metrics p holds in memory
    cache,          \* cache[p][r]: the processed segments p remembers for run r
    next,           \* next[p]: those segments with the current one added
    failure,        \* failure[p]: the failure class it is about to report
    \* the run's state directory on the artifacts volume
    temp,           \* temp[r]: processing_metrics.json.tmp, a set of sets: {} if absent
    stateFile,      \* stateFile[r]: the outcomes in processing_metrics.json
    struck          \* struck[d]: how often disruption d has struck

kafka == <<ready, owner, position, committed>>
topics == <<features, ratio, errors>>
progress == <<pc, current, attempt, failure>>
memory == <<audio, loaded, cache, next>>
disk == <<temp, stateFile>>
vars == <<artifact, kafka, topics, progress, memory, disk, struck>>

-----------------------------------------------------------------------------
Runs == {RunOf[s] : s \in Segments}
Events == [segment : Segments, content : Contents, form : AllForms]

\* One entry of processed_segments: a segment and its silent_flag.
Outcomes == [segment : Segments, silent : BOOLEAN]
Features == [segment : Segments, content : Contents, silent : BOOLEAN]
SegmentsOf(outcomes) == {x.segment : x \in outcomes}

FailureClasses == {"envelope_invalid", "processing_failed", "artifact_not_ready",
                   "checksum_mismatch", "artifact_load_failed", "metrics_state_failed",
                   "feature_publish_failed", "metric_publish_failed"}
Busy == {"load", "record", "features", "metrics", "persist", "replace", "offset", "failed"}
Stages == {"down", "idle"} \cup Busy

Event(p) == ready[current[p]]
Run(p) == RunOf[Event(p).segment]

\* The silence gate looks at the audio loaded, the event names the checksum.
Outcome(p) == [segment |-> Event(p).segment, silent |-> audio[p] \in Silent]
FeatureOf(p) == [segment |-> Event(p).segment, content |-> Event(p).content,
                 silent |-> audio[p] \in Silent]

Strikes(d) ==
    /\ struck[d] < MaxOf[d]
    /\ struck' = [struck EXCEPT ![d] = @ + 1]

GoTo(p, stage) == pc' = [pc EXCEPT ![p] = stage]

Fails(p, class) ==
    /\ GoTo(p, "failed")
    /\ failure' = [failure EXCEPT ![p] = class]

-----------------------------------------------------------------------------
Init ==
    /\ artifact = [s \in Segments |-> "missing"]
    /\ ready = <<>>
    /\ owner = NoReplica
    /\ position = 0
    /\ committed = 0
    /\ features = {}
    /\ ratio = [r \in Runs |-> {}]
    /\ errors = {}
    /\ pc = [p \in Replicas |-> "down"]
    /\ current = [p \in Replicas |-> 0]
    /\ attempt = [p \in Replicas |-> 0]
    /\ audio = [p \in Replicas |-> "missing"]
    /\ loaded = [p \in Replicas |-> {}]
    /\ cache = [p \in Replicas |-> [r \in Runs |-> {}]]
    /\ next = [p \in Replicas |-> {}]
    /\ failure = [p \in Replicas |-> "none"]
    /\ temp = [r \in Runs |-> {}]
    /\ stateFile = [r \in Runs |-> {}]
    /\ struck = [d \in Disruptions |-> 0]

\* Ingestion overwrites an artifact in place: a reader meets a truncated file.
BeginRewrite(s) ==
    /\ artifact[s] \in Contents
    /\ Strikes("rewrite")
    /\ artifact' = [artifact EXCEPT ![s] = "torn"]
    /\ UNCHANGED <<kafka, topics, progress, memory, disk>>

FinishWrite(s) ==
    /\ artifact[s] \notin Contents
    /\ \E c \in Contents : artifact' = [artifact EXCEPT ![s] = c]
    /\ UNCHANGED <<kafka, topics, progress, memory, disk, struck>>

\* Ingestion announces a segment with the checksum of what it wrote.
Publish(s) ==
    /\ Len(ready) < MaxLog
    /\ artifact[s] \in Contents
    /\ \E f \in Forms :
          ready' = Append(ready, [segment |-> s, content |-> artifact[s], form |-> f])
    /\ UNCHANGED <<artifact, owner, position, committed, topics, progress, memory, disk, struck>>

-----------------------------------------------------------------------------
\* A new process starts with nothing in memory.
Start(p) ==
    /\ pc[p] = "down"
    /\ GoTo(p, "idle")
    /\ UNCHANGED <<artifact, kafka, topics, current, attempt, failure, memory, disk, struck>>

Assign(p) ==
    /\ owner = NoReplica
    /\ pc[p] = "idle"
    /\ owner' = p
    /\ position' = committed
    /\ UNCHANGED <<artifact, ready, committed, topics, progress, memory, disk, struck>>

\* A rebalance takes the topic from a replica between two of its polls.
Revoke(p) ==
    /\ owner = p
    /\ pc[p] = "idle"
    /\ Strikes("rebalance")
    /\ owner' = NoReplica
    /\ UNCHANGED <<artifact, ready, position, committed, topics, progress, memory, disk>>

\* The group gives up on a replica that is still busy with a record.
Evict(p) ==
    /\ owner = p
    /\ pc[p] \in Busy
    /\ Strikes("eviction")
    /\ owner' = NoReplica
    /\ UNCHANGED <<artifact, ready, position, committed, topics, progress, memory, disk>>

Poll(p) ==
    /\ owner = p
    /\ pc[p] = "idle"
    /\ position < Len(ready)
    /\ position' = position + 1
    /\ current' = [current EXCEPT ![p] = position + 1]
    /\ attempt' = [attempt EXCEPT ![p] = 1]
    /\ LET form == ready[position + 1].form IN
          CASE form = "invalid" -> Fails(p, "envelope_invalid")
            [] form = "undecodable" -> Fails(p, "processing_failed")
            [] OTHER -> GoTo(p, "load") /\ UNCHANGED failure
    /\ UNCHANGED <<artifact, ready, owner, committed, topics, memory, disk, struck>>

\* Mutant of Load: the checksum of the bytes is not compared.
LoadUnchecked(p) ==
    /\ pc[p] = "load"
    /\ Event(p).form = "valid"
    /\ artifact[Event(p).segment] \in Contents
    /\ audio' = [audio EXCEPT ![p] = artifact[Event(p).segment]]
    /\ GoTo(p, "record")
    /\ UNCHANGED <<artifact, kafka, topics, current, attempt, failure, loaded, cache, next, disk, struck>>

\* The bytes read have the checksum of the event, and their audio is as it says.
Load(p) ==
    /\ pc[p] = "load"
    /\ Event(p).form = "valid"
    /\ artifact[Event(p).segment] = Event(p).content
    /\ audio' = [audio EXCEPT ![p] = artifact[Event(p).segment]]
    /\ GoTo(p, "record")
    /\ UNCHANGED <<artifact, kafka, topics, current, attempt, failure, loaded, cache, next, disk, struck>>

\* Mutant of RetriesLeft: one attempt too many.
RetriesLeftByOne(p) == attempt[p] <= MaxAttempts

RetriesLeft(p) == attempt[p] < MaxAttempts

\* A missing artifact or a wrong checksum is retried a bounded number of times.
LoadUnready(p) ==
    /\ pc[p] = "load"
    /\ Event(p).form # "misnamed"
    /\ artifact[Event(p).segment] # Event(p).content
    /\ IF RetriesLeft(p)
       THEN attempt' = [attempt EXCEPT ![p] = @ + 1] /\ UNCHANGED <<pc, failure>>
       ELSE /\ Fails(p, IF artifact[Event(p).segment] = "missing"
                        THEN "artifact_not_ready" ELSE "checksum_mismatch")
            /\ UNCHANGED attempt
    /\ UNCHANGED <<artifact, kafka, topics, current, memory, disk, struck>>

\* An event that contradicts itself or the artifact is not retried: its URI is checked
\* before the store is read, the audio after the checksum.
LoadRejected(p) ==
    /\ pc[p] = "load"
    /\ \/ Event(p).form = "misnamed"
       \/ /\ Event(p).form = "misdescribed"
          /\ artifact[Event(p).segment] = Event(p).content
    /\ Fails(p, "artifact_load_failed")
    /\ UNCHANGED <<artifact, kafka, topics, current, attempt, memory, disk, struck>>

\* The store refuses the read, or the features of the audio cannot be computed.
LoadFails(p) ==
    /\ pc[p] = "load"
    /\ Strikes("error")
    /\ \/ Event(p).form # "misnamed" /\ Fails(p, "artifact_load_failed")
       \/ /\ Event(p).form = "valid"
          /\ artifact[Event(p).segment] = Event(p).content
          /\ Fails(p, "processing_failed")
    /\ UNCHANGED <<artifact, kafka, topics, current, attempt, memory, disk>>

\* The metrics of the run, from memory or else from the state file.
MetricsFor(p, r) == IF r \in loaded[p] THEN cache[p][r] ELSE stateFile[r]

\* Mutant of Drifted: a changed silent_flag goes unnoticed.
DriftedNever(base, outcome) == FALSE

\* An earlier outcome of the segment has the other silent_flag.
Drifted(base, outcome) ==
    \E x \in base : x.segment = outcome.segment /\ x.silent # outcome.silent

\* with_recorded_success: the new outcome joins the run's metrics, unless it drifts.
RecordSuccess(p) ==
    LET base == MetricsFor(p, Run(p)) IN
    /\ pc[p] = "record"
    /\ loaded' = [loaded EXCEPT ![p] = @ \cup {Run(p)}]
    /\ cache' = [cache EXCEPT ![p][Run(p)] = base]
    /\ IF Drifted(base, Outcome(p))
       THEN Fails(p, "metrics_state_failed") /\ UNCHANGED next
       ELSE /\ next' = [next EXCEPT ![p] = base \cup {Outcome(p)}]
            /\ GoTo(p, "features")
            /\ UNCHANGED failure
    /\ UNCHANGED <<artifact, kafka, topics, current, attempt, audio, disk, struck>>

\* Mutant of PublishFeatures: the delivery report is not awaited.
PublishFeaturesUnawaited(p) ==
    /\ pc[p] = "features"
    /\ features' \in {features, features \cup {FeatureOf(p)}}
    /\ GoTo(p, "metrics")
    /\ UNCHANGED <<artifact, kafka, ratio, errors, current, attempt, failure, memory, disk, struck>>

PublishFeatures(p) ==
    /\ pc[p] = "features"
    /\ features' = features \cup {FeatureOf(p)}
    /\ GoTo(p, "metrics")
    /\ UNCHANGED <<artifact, kafka, ratio, errors, current, attempt, failure, memory, disk, struck>>

\* Mutant of AfterMetrics: the state stays in memory.
AfterMetricsUnsaved(p) == "offset"

\* A segment seen before leaves nothing to save.
AfterMetrics(p) == IF next[p] = cache[p][Run(p)] THEN "offset" ELSE "persist"

\* Mutant of PublishMetrics: the ratio is the one before this segment.
PublishMetricsStale(p) ==
    /\ pc[p] = "metrics"
    /\ ratio' = [ratio EXCEPT ![Run(p)] = cache[p][Run(p)]]
    /\ GoTo(p, AfterMetrics(p))
    /\ UNCHANGED <<artifact, kafka, features, errors, current, attempt, failure, memory, disk, struck>>

\* processing_ms, then the run_total silent_ratio.
PublishMetrics(p) ==
    /\ pc[p] = "metrics"
    /\ ratio' = [ratio EXCEPT ![Run(p)] = next[p]]
    /\ GoTo(p, AfterMetrics(p))
    /\ UNCHANGED <<artifact, kafka, features, errors, current, attempt, failure, memory, disk, struck>>

\* A delivery report is an error or does not come in time; the event may be
\* in the topic all the same.
PublishFails(p) ==
    /\ Strikes("error")
    /\ \/ /\ pc[p] = "features"
          /\ features' \in {features, features \cup {FeatureOf(p)}}
          /\ Fails(p, "feature_publish_failed")
          /\ UNCHANGED ratio
       \/ /\ pc[p] = "metrics"
          /\ ratio' \in {ratio, [ratio EXCEPT ![Run(p)] = next[p]]}
          /\ Fails(p, "metric_publish_failed")
          /\ UNCHANGED features
    /\ UNCHANGED <<artifact, kafka, errors, current, attempt, memory, disk>>

\* The state is written to one temporary file per run, shared by all replicas.
PersistTemp(p) ==
    /\ pc[p] = "persist"
    /\ temp' = [temp EXCEPT ![Run(p)] = {next[p]}]
    /\ GoTo(p, "replace")
    /\ UNCHANGED <<artifact, kafka, topics, current, attempt, failure, memory, stateFile, struck>>

\* os.replace moves it over the state file; then memory follows.
ReplaceState(p) ==
    LET r == Run(p) IN
    /\ pc[p] = "replace"
    /\ temp' = [temp EXCEPT ![r] = {}]
    /\ IF temp[r] = {}
       THEN Fails(p, "metrics_state_failed") /\ UNCHANGED <<stateFile, cache>>
       ELSE /\ stateFile' = [stateFile EXCEPT ![r] = CHOOSE outcomes \in temp[r] : TRUE]
            /\ cache' = [cache EXCEPT ![p][r] = next[p]]
            /\ GoTo(p, "offset")
            /\ UNCHANGED failure
    /\ UNCHANGED <<artifact, kafka, topics, current, attempt, audio, loaded, next, struck>>

\* The volume refuses the write or the move.
PersistFails(p) ==
    /\ pc[p] \in {"persist", "replace"}
    /\ Strikes("error")
    /\ Fails(p, "metrics_state_failed")
    /\ UNCHANGED <<artifact, kafka, topics, current, attempt, memory, disk>>

CommitOffset(p) ==
    /\ pc[p] = "offset"
    /\ owner = p
    /\ committed' = current[p]
    /\ GoTo(p, "idle")
    /\ current' = [current EXCEPT ![p] = 0]
    /\ UNCHANGED <<artifact, ready, owner, position, topics, attempt, failure, memory, disk, struck>>

\* Mutant of Gone: the topic stays with a process that has forgotten its record.
GoneKeepingTopic(p) ==
    /\ GoTo(p, "down")
    /\ current' = [current EXCEPT ![p] = 0]
    /\ attempt' = [attempt EXCEPT ![p] = 0]
    /\ failure' = [failure EXCEPT ![p] = "none"]
    /\ audio' = [audio EXCEPT ![p] = "missing"]
    /\ loaded' = [loaded EXCEPT ![p] = {}]
    /\ cache' = [cache EXCEPT ![p] = [r \in Runs |-> {}]]
    /\ next' = [next EXCEPT ![p] = {}]
    /\ UNCHANGED <<artifact, ready, owner, position, disk>>

\* The process is gone and its memory with it.
Gone(p) ==
    /\ GoTo(p, "down")
    /\ current' = [current EXCEPT ![p] = 0]
    /\ attempt' = [attempt EXCEPT ![p] = 0]
    /\ failure' = [failure EXCEPT ![p] = "none"]
    /\ audio' = [audio EXCEPT ![p] = "missing"]
    /\ loaded' = [loaded EXCEPT ![p] = {}]
    /\ cache' = [cache EXCEPT ![p] = [r \in Runs |-> {}]]
    /\ next' = [next EXCEPT ![p] = {}]
    /\ owner' = IF owner = p THEN NoReplica ELSE owner
    /\ UNCHANGED <<artifact, ready, position, disk>>

\* A commit that is fenced, or that fails with or without effect, ends the
\* process without a metric.
OffsetCommitFenced(p) ==
    /\ pc[p] = "offset"
    /\ owner # p
    /\ Gone(p)
    /\ UNCHANGED <<committed, topics, struck>>

OffsetCommitFails(p) ==
    /\ pc[p] = "offset"
    /\ owner = p
    /\ Strikes("error")
    /\ committed' \in {committed, current[p]}
    /\ Gone(p)
    /\ UNCHANGED topics

\* The terminal failure is published as feature_errors; then the process exits.
EmitFailureMetric(p) ==
    /\ pc[p] = "failed"
    /\ errors' = errors \cup {[offset |-> current[p], class |-> failure[p]]}
    /\ Gone(p)
    /\ UNCHANGED <<committed, features, ratio, struck>>

\* Publishing it fails as well, which is logged and swallowed.
EmitFailureMetricFails(p) ==
    /\ pc[p] = "failed"
    /\ Strikes("error")
    /\ Gone(p)
    /\ UNCHANGED <<committed, topics>>

\* The process is killed, at any point, or leaves between two polls.
Crash(p) ==
    /\ pc[p] # "down"
    /\ Strikes("crash")
    /\ Gone(p)
    /\ UNCHANGED <<committed, topics>>

Work(p) ==
    \/ Load(p) \/ LoadUnready(p) \/ LoadRejected(p) \/ RecordSuccess(p)
    \/ PublishFeatures(p) \/ PublishMetrics(p)
    \/ PersistTemp(p) \/ ReplaceState(p)
    \/ CommitOffset(p) \/ OffsetCommitFenced(p) \/ EmitFailureMetric(p)

Disrupt(p) ==
    \/ Revoke(p) \/ Evict(p) \/ Crash(p)
    \/ LoadFails(p) \/ PublishFails(p) \/ PersistFails(p) \/ OffsetCommitFails(p) \/ EmitFailureMetricFails(p)

Next ==
    \/ \E s \in Segments : BeginRewrite(s) \/ FinishWrite(s) \/ Publish(s)
    \/ \E p \in Replicas : Start(p) \/ Assign(p) \/ Poll(p) \/ Work(p) \/ Disrupt(p)

Spec == Init /\ [][Next]_vars

\* Ingestion finishes the artifacts it writes; a supervisor restarts the
\* service, the group assigns the topic, and a replica keeps working.
Fairness ==
    /\ \A s \in Segments : WF_vars(FinishWrite(s))
    /\ \A p \in Replicas : WF_vars(Start(p)) /\ WF_vars(Work(p)) /\ WF_vars(Poll(p))
    /\ WF_vars(\E p \in Replicas : Assign(p))

FairSpec == Spec /\ Fairness

-----------------------------------------------------------------------------
TypeOK ==
    /\ artifact \in [Segments -> Contents \cup {"missing", "torn"}]
    /\ ready \in Seq(Events)
    /\ owner \in Replicas \cup {NoReplica}
    /\ position \in Nat
    /\ committed \in Nat
    /\ features \subseteq Features
    /\ ratio \in [Runs -> SUBSET Outcomes]
    /\ errors \subseteq [offset : Nat, class : FailureClasses]
    /\ pc \in [Replicas -> Stages]
    /\ current \in [Replicas -> Nat]
    /\ attempt \in [Replicas -> 0..MaxAttempts]
    /\ audio \in [Replicas -> Contents \cup {"missing", "torn"}]
    /\ loaded \in [Replicas -> SUBSET Runs]
    /\ cache \in [Replicas -> [Runs -> SUBSET Outcomes]]
    /\ next \in [Replicas -> SUBSET Outcomes]
    /\ failure \in [Replicas -> FailureClasses \cup {"none"}]
    /\ temp \in [Runs -> SUBSET SUBSET Outcomes]
    /\ stateFile \in [Runs -> SUBSET Outcomes]
    /\ struck \in [Disruptions -> Nat]

CommittedEvents == {ready[o] : o \in 1..committed}
CommittedSegments(r) == {e.segment : e \in {x \in CommittedEvents : RunOf[x.segment] = r}}

\* An offset is committed only once the features of its segment and a silent
\* ratio of its run are published: no crash, lost delivery report, rebalance or
\* evicted replica loses a segment, and no event that cannot be processed is skipped.
CommittedIsPublished ==
    \A e \in CommittedEvents :
        /\ e.form = "valid"
        /\ \E f \in features : f.segment = e.segment /\ f.content = e.content
        /\ ratio[RunOf[e.segment]] # {}

\* Features are computed from the bytes whose checksum they carry, although
\* ingestion may be rewriting the artifact while it is read.
FeaturesMatchChecksum ==
    \A f \in features : f.silent = (f.content \in Silent)

\* The state file never forgets a committed segment, so a restarted replica
\* resumes from everything that will not be redelivered to it.
StateCoversCommitted ==
    \A r \in Runs : CommittedSegments(r) \subseteq SegmentsOf(stateFile[r])

\* The silent_ratio on display counts every committed segment and nothing
\* that was not published ("the current replay-stable silent ratio for this
\* run"), whatever was replayed in between.
RatioIsReplayStable ==
    \A r \in Runs :
        /\ CommittedSegments(r) \subseteq SegmentsOf(ratio[r])
        /\ \A x \in ratio[r] : \E f \in features : f.segment = x.segment /\ f.silent = x.silent

\* Two features events of one segment agree on its silent flag, whatever was
\* ingested again under the same run: a drift stops the replica instead.
SilentFlagIsStable ==
    \A f, g \in features : f.segment = g.segment => f.silent = g.silent

\* Every announced segment is processed and committed in the end.
EventuallyCommitted ==
    \A o \in 1..MaxLog : (o <= Len(ready)) ~> (o <= committed)
=============================================================================
