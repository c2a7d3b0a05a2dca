# Event-driven audio analytics in TLA+

Specifications, model-checking configurations and proofs for the pipeline in
`src/src/event_driven_audio_analytics/` (paths below are relative to it unless they
start with `src/`). This file is the inventory of the system and the account of what
is modelled, checked and proved, and of what is not.

## 1. The system

    ingestion --audio.metadata----------------------------> writer --> TimescaleDB -->
review         |     --audio.segment.ready--> processing --audio.features--> |
--> dataset exporter         |     --system.metrics-------------|--------system.metrics-->
|            --> Grafana         +--> claim-check store (local files or MinIO) <--+

Every topic has one partition (`src/infra/kafka/create-topics.sh`). `audio.dlq` is a
reserved name that nothing writes to. Services run under K3s deployments, which
restart them and, during a rolling update or after `kubectl scale`, run several.

| component | state it keeps | operations | interacts through |
|---|---|---|---|
| ingestion (`ingestion/`) | artifacts and run manifest in the store, run totals in memory | per track: validate, segment, write WAVs, merge the manifest, verify, publish metadata and segment events; run totals at the end | store, Kafka |
| processing (`processing/`) | per run: processed segments with their silent flag, in memory and in `state/processing_metrics.json`; Welford state in memory | poll, load artifact (bounded retries), compute, publish features, publish metrics, save state, commit offset; failure metric and exit | store, state file, Kafka |
| writer (`writer/`) | tables `track_metadata`, `audio_features`, `system_metrics`, `run_checkpoints` | poll, validate, one transaction (payload, checkpoint, `write_ms`, `rows_upserted`), commit offset; failure metric and exit | Kafka, TimescaleDB locks |
| shared (`shared/`) | none | envelopes and their validation, awaited delivery, transactions and advisory locks, store backends | all |
| dataset exporter | bundle directories | snapshot, classify tracks, split, publish bundle | TimescaleDB, store |
| review | none | paginated queries | TimescaleDB |

What is hard here: deliveries are at least once and every failure ends the
process, so every record is replayed after every kind of partial step; a member
that the group has evicted may still be running its last record next to the new
owner; artifacts are overwritten in place while others read them; a delivery
report, a database commit or an offset commit can fail *after* it took effect;
and progress rests on nothing but restart, reassignment and redelivery.
`PROJECT.json` lists these hazards line by line with the properties that cover them.

What makes each component correct:
- *writer*: an offset is committed only after its record is persisted; a
  checkpoint never runs ahead of its record; one row per identity; nothing
  unpersistable is skipped; no deadlock between members; events applied in order.
- *processing*: a committed segment is published and in the state file; features
  belong to the bytes whose checksum they carry; the silent ratio is stable under
  replay; a silent flag never changes within a run.
- *ingestion*: what is announced is stored and, when one job writes the run, listed in
  its manifest; a job that was stopped and started again ends with a whole run and its
  totals, whatever versions of a file came before; segments tile the track; one bad file
  does not end a job (one catalogue row can: see `RejectsAreAnnounceable`).
- *shared*: a URI names one object; what a producer can send a consumer accepts; an
  idempotency key names the row that is replaced.
- *exporter*: a bundle that passes has every segment of one version of each of its
  tracks; no row is lost between its lists; the splits partition it; an unfinished bundle is never published.
- *review*: paging misses nothing; a header is not ahead of its page; what is listed
  has an artifact; a stage that says ready is.

## 2. Modules

| module | stands for |
|---|---|
| `Writer` | the writer service as any number of members of one consumer group |
| `EventSink` | abstract specification of the writer: logs applied in order, each event once |
| `Processing` | the processing service as any number of replicas sharing a volume |
| `Ingestion` | the ingestion service as jobs that each take a part of a run |
| `Segmenter` | how a waveform is cut into segments |
| `ClaimChecks` | run ids, object keys, URIs, and which store an URI leads to |
| `Envelopes` | envelopes and payloads: building, validating, trace ids, idempotency keys |
| `RunPublication` | abstract specification of ingestion: what readers of a run may rely on |
| `RunStore` | a run under way: `RunPublication`, and the rows the writer stores of it |
| `DatasetBundle` | the exporter's classification of rows, its verdict and its splits |
| `Exporter` | an execution of the exporter, read by read and file operation by file operation |
| `Review` | the review service, request by request and query by query |
| `Surfaces` | `RunStore` with the exporter, the review service or its list of runs next to it |
| `WriterProofs`, `ProcessingProofs` | proofs about the two consumers |
| `IngestionProofs`, `SegmenterProofs`, `EnvelopeProofs` | proofs about ingestion and its pure parts; `EnvelopeProofs` is also about `ClaimChecks` |
| `SurfacesProofs`, `DatasetBundleProofs`, `ReviewProofs` | proofs about the readers and their pure parts |
| `MCWriter`, `MCProcessing`, `MCIngestion`, `MCSurfaces` | constants for TLC |

How they compose. `Ingestion` extends `Segmenter` and `Envelopes` (which extends
`ClaimChecks`) and is shown to implement `RunPublication`. `RunStore` takes
`RunPublication` for the producer, so that the readers are checked against what
ingestion promises and not against one schedule of it; `Exporter` and `Review` extend
`RunStore`, and `Surfaces` composes the three. `Writer` and `Processing` stand on
topics, and each starts from whatever its topics can hold.

### Writer and the code

State: `log`, `owner`, `position`, `committed` are the three topics and the
consumer group; `pc`, `current`, `failure` are a member's place in
`WriterPipeline.run`; `rows`, `checkpoint`, `own` are committed rows of the payload
tables, of `run_checkpoints` and of the writer's own metrics; `held` and `found` are
an open transaction: the locks it holds and which of its statements met a row.

| code | actions |
|---|---|
| `app.main`, `build_writer_consumer` | `Start`, `Assign` |
| `poll_record`, `deserialize_envelope`, `validate_envelope_dict`, `coerce_payload_model` | `Poll` (one step: nothing in it is visible outside the process) |
| `persist_audio_features`, `persist_track_metadata`, `persist_system_metrics` for the event | `PersistPayload` |
| `persist_checkpoint`, the two own metrics | `PersistCheckpoint`, `PersistWriteMs`, `PersistRowsUpserted` |
| `pooled_transaction_cursor` | `CommitTransaction`, `TransactionFails` (rolled back, or committed with the acknowledgement lost) |
| `consumer.commit` | `CommitOffset`, `OffsetCommitFenced`, `OffsetCommitFails` (with or without effect) |
| `except` branch, `_emit_failure_metric`, `finally` | `EmitFailureMetric`, `EmitFailureMetricFails` |
| signals, kills, the group | `Crash`, `Revoke`, `Evict` |

The branch of `build_commit_decision` that refuses is never taken: each statement
affects at least one row. A payload whose identity resolves to several feature rows
(`feature_natural_key_conflict`) is modelled, and is unreachable by `OneRowPerIdentity`.

Abstractions. A payload is a `version`, an identity is a model value. Under READ
COMMITTED an update takes what is committed when it runs; as every statement first
locks its row (`FoundIsCurrent`), applying a transaction's writes at its commit is the
same. The primary key of `audio_features` contains `ts`; under the advisory lock it is
never hit. Two identities whose 64-bit lock keys collide would wait for each other
more than modelled; that is left out. Connection-pool limits are left out: a member
uses one connection at a time.

### Processing and the code

State: `artifact` is what the WAV of a segment holds (missing, torn, or a content);
`features`, `ratio`, `errors` are what has been published; `cache`, `loaded`, `next`,
`audio` are the replica's memory (`_run_metrics_by_run_id`, the metrics with the current
segment, the waveform); `temp` and `stateFile` are the state directory of the run.

| code | actions |
|---|---|
| `LocalClaimCheckStore.write_bytes`, publication by ingestion | `BeginRewrite`, `FinishWrite`, `Publish` |
| `poll_record`, decoding and validation | `Poll` (fails for an event that is invalid or cannot be decoded) |
| `load_segment_artifact`, `_process_with_retry` | `Load`, `LoadUnready` (a missing artifact and a wrong checksum are retried), `LoadRejected` and `LoadFails` (what is not retried: `artifact_load_failed`, `processing_failed`) |
| `classify_processing_failure` | `FailureClasses`, at the step that fails |
| `run_metrics_for`, `with_recorded_success` | `RecordSuccess` |
| `publish_audio_features_event`, `_publish_success_metrics` | `PublishFeatures`, `PublishMetrics`, `PublishFails` (with or without delivery) |
| `ProcessingRunMetrics.persist` | `PersistTemp`, `ReplaceState`, `PersistFails` |
| `consumer.commit` | `CommitOffset`, `OffsetCommitFenced`, `OffsetCommitFails` |
| `except` branch, `_emit_failure_metric`, `finally` | `EmitFailureMetric`, `EmitFailureMetricFails` |
| start, signals, the group | `Start`, `Crash`, `Assign`, `Revoke`, `Evict` |

The form of an event (`AllForms`) says where it goes wrong: not at all, at its
validation, at its decoding, at its URI (checked before the store is read), or at what it
says of the audio (checked after the checksum).

Abstractions. Features carry the content their checksum names and the silence verdict;
RMS, log-mel and Welford are floating-point data. `processing_ms` is published with the
ratio and has no identity, so only the ratio is kept. Writing the temporary file is one
step; os.replace moves whatever file has that name, or fails if there is none. A
delivery that arrives after its timeout is decided when the timeout strikes.

### Ingestion and the code

State: `catalogue`, `files` and `allowed` are the CSV rows, the audio files with their
versions, each of its own form and length, and the allowlists of the jobs; `audio` is the
version that is there; `artifact`, `file` and `manifest` are the claim-check store, the
manifest as the content its row names for each segment; `metadata`, `announced` and
`total` are the last event of each identity; `todo`, `track`, `idx`, `seen`, `merged`,
`counted` and `sent` are the memory of a job and are lost with it.

| code | actions and operators |
|---|---|
| `IngestionPipeline.run`, `load_metadata_records` | `Start`, `Selected`, `LoadableCatalogue`, `NoMoreTracks` |
| `process_record`, `validate_audio_record`, `segment_audio` | `TakeTrack`, `Verdict` (the checks in their order), `SegmentCount`, `Count` |
| `write_segment_artifacts`, `write_bytes` of both stores | `BeginWrite`, `FinishWrite` (S3 replaces in one step) |
| the manifest merge, its write | `Merge`, `BeginStore`, `FinishStore` |
| `verify_manifest_consistency` | `Verify` |
| `_build_metadata_payload`, `publish_metadata`, `publish_segment_ready` | `MetadataPayload`, `PublishMetadata`, `PublishSegment` |
| `IngestionRunMetrics`, `publish_run_metrics` | `Counted`, `PublishTotal` |
| delivery reports, exceptions, kills | `DeliveryFails`, `Stopped` |

Abstractions. All segments of a track hold its content, so a version of the audio is one
value. The manifest has a row per segment, and a new row replaces the last one of its
run, track and segment (`ingestion/modules/artifact_writer.py:226`). So a version with
fewer segments leaves rows, artifacts and announcements of a longer one behind: nothing
removes them. Reading the manifest (`Merge`) and writing it (`BeginStore`, `FinishStore`)
are separate steps, which is where jobs that share a run lose each other's rows.
A duration in the catalogue is a number, not finite (NaN and infinity, `"nan"`), or null
for a text that is no number. The loader refuses null and numbers that are not positive
(`ingestion/modules/metadata_loader.py:152`), and neither NaN nor infinity is one of
these. `artifact_write_ms` is left out.

### The pure parts

`Segmenter` gives full windows and the padded tail by their defining conditions;
`ClaimChecks` splits paths into parts, drops those that `PurePosixPath` drops, refuses
those that the code refuses (`Unsafe`), and keeps scheme, bucket and query;
`Envelopes` keeps for each field which kind of value it is, so that `Accepts` is the
contract of a field and `Payloads` are payloads with at most one field that is not
plain. What should hold of them is stated as the set of counterexamples (`Untiled`,
`Misnaming`, `Unreadable`, `Unconsumed`, `ConfusedEvents`, and `Unaccounted`,
`Unpartitioned` of `DatasetBundle`), which TLC evaluates once, and again by a conjunct
about the state, for what a job or the exporter has in hand.

### Exporter, Review and the code

State of `RunStore`: the variables of `RunPublication`, and of the database `status` and
`feature` (rows of `track_metadata` and `audio_features`), the two totals the readers
use, and whether there are error rows; and of the processing service whether its state
file can be parsed (`stateReadable`), which a save by replicas that share a temporary file
may change either way (`SaveState`). The four kinds of rows are stored in any order,
because the topics are consumed independently. The views are operators (`RunSummary`,
`PersistedOf`, `Coalesced`).

| code | actions and operators |
|---|---|
| `load_source_snapshot` | `QueryRunSummary`, `QueryTracks`, `QueryFeatures` |
| `_load_manifest_rows`, the artifact checks | `LoadManifest`, `CheckArtifact` |
| `_classify_bundle`, the verdict | `Bundle` and its parts in `DatasetBundle` |
| `_build_track_split_assignments`, `_split_group_counts`, `_build_training_rows_by_split` | `SplitOf`, `TrainingRows` |
| `build_dataset_bundle`, `_publish_bundle_files` | `ClearStaging`, `WriteFiles`, `WriteBuildManifest`, `BeginRemoval`, `FinishRemoval`, `PublishBundle` |
| a stop or an exception | `ExportCrash` |
| `list_runs`, `list_tracks_for_run`, pagination | `Browse`, `ShowPage`, `Page`, `PageLimit` |
| `get_run_detail`, `derive_run_state`, the stages | `QuerySummary`, `QueryOutcomes`, `CheckManifest`, `ReadState`, `RunState`, `PipelineStages` |
| `get_track_detail` | `QueryTrack`, `QuerySegments` |
| `media_segment` | `LookupSegment`, `CheckExists`, `CompareChecksum`, `SendSegment` |

Abstractions. A list is a function from its rows to what they are ordered by; the place
of a row on it (`Place`) is the number of rows up to it, and a page holds the rows at the
places it asks for (LIMIT and OFFSET). `recency` is the place of each run on the list of
runs. The order that the hash of a group yields is any order (`Orders`). In
`Surfaces` a torn artifact is one with another checksum. Readers write nothing that the
pipeline or another reader reads, so `Surfaces` has one of them at a time, chosen in the
initial state; this shows all that each of them can see. The exporter runs one
execution at a time, as it is started by hand.

## 3. Runs

All runs are exhaustive. Every disruption is bounded by `MaxOf` (crash, error,
rebalance, eviction, rewrite; in `Ingestion` failure and rewrite), the logs by `MaxLog`,
executions and requests by `MaxExports`, `MaxCrashes`, `MaxRequests`. CHECK_DEADLOCK is
FALSE because a service with nothing to consume polls for ever, jobs end, and the
bounded readers stop asking; stopping for good where it should go on is what the
liveness properties look for.

| run | instance | shows |
|---|---|---|
| `writer_overlap` | 2 members, 2 segments of a run, 2 versions, 2 events; crash, error, eviction once each | `OneRowPerIdentity`, `NoLockCycle`, `CommittedIsPersisted` |
| `writer_mix` | 2 members, a run total and an append-only sample of another run; valid, invalid and undecodable records | `TypeOK`, `CheckpointIsPersisted`, `AppendOnlyKeepsAll`, `InvalidBlocks`, `IndInv` |
| `writer_order` | 2 members, a segment and an append-only sample; one error, no eviction | `AppliesInOrder` (refinement of `EventSink`) |
| `writer_live` | 2 members, a track with 2 events; every disruption once | `EventuallyCommitted` |
| `processing_lone` | 1 replica, 2 segments, 2 contents, 3 events; crash, error, rebalance, rewrite once each | `TypeOK`, `StateCoversCommitted`, `RatioIsReplayStable`, `SilentFlagIsStable` |
| `processing_overlap` | 2 replicas, 1 segment, 2 contents, 2 events; crash, error, eviction, rewrite; events that are invalid, undecodable, name another object or contradict their artifact | `CommittedIsPublished`, `FeaturesMatchChecksum` |
| `processing_scaled` | 2 replicas that take turns, no failure, 3 events | **violates** `RatioIsReplayStable` |
| `processing_live` | 2 replicas, 1 segment with 2 events; every disruption but a plain rebalance | `EventuallyCommitted` |
| `ingestion` | 2 jobs, 2 tracks, 2 versions of a file, both backends; one failure, one file replaced by a longer, a shorter or a rejected one | `TypeOK`, `RejectsAreAnnounceable`, `DoneMeansAnnounced`, `TotalsCountTheRun`, `RunIsPublished` (refinement of `RunPublication`), `JobsRecover`, `SegmentsTileTheTrack`, `UrisNameOneObject`, `BuiltEnvelopesValidate`, `KeysNameTheRowsReplaced` |
| `surfaces` | a run of up to 3 tracks and 2 segments, 2 contents; 2 executions of which 1 stops, 1 request | `TypeOK`, `PassHasWholeTracks`, `PublishedIsWhole`, `EveryRowAccounted`, `SplitsPartitionTheBundle`, `PagingMissesNothing`, `HeaderNeverAhead`, `ListedIsFound`, `CountedArtifactsAreReady` |
| `export_replace` | the same | **violates** `ReplacedAtomically` |
| `review_state` | the same | **violates** `MetadataOnlyMeansNoSegments` |

Why the bounds are enough for the interesting cases. Two members are what an
overlap takes: the evicted one and the new owner. Two events of one identity give a
replay that meets newer content, two identities of one run give two checkpoints that
meet in one row. With one crash, one error and one eviction a record is delivered up to
four times, after a failure at every stage and with a failed offset commit following an
eviction. Two segments and three events are the least at which a stale set of processed
segments can leave something out. The theorems below are for every value of all of
these.

`MCInputs` gives the first track every form of file (missing, unprobeable, undecodable,
silent, sound), lengths on both sides of the minimum duration and of the tail
threshold, and rows that the loader selects, skips or refuses, with durations that are not
finite for a file that cannot be probed and for one that can be until it is replaced. The
version that replaces it is as long, longer, shorter or rejected. The two tracks are
ingested by one job or by two. One failure lets a job stop at each of its
steps and start again; one rewrite changes a file before, during or after that.
`Lengths` goes from 0 to 40 in half seconds, with every boundary of windows of 3 s every
1.5 s among them. `Surfaces` looks at seven runs (`MCRuns`), because everything at once
multiplies the states without adding a case: two tracks of one version written by one
job, or by two; a track of two segments that is replaced by two; one that is replaced by a
single one; a track of one segment with torn writes and a second export; one with
rejections, totals, errors and a torn processing state; and three
tracks to page through with pages of one and two. Over each of them the exporter's five
reads, or the steps of a request, fall between any two steps of ingestion and writer.
`MCCases` adds snapshots that the pipeline seldom produces: up to three tracks over all
assignments of artists, four tracks of three artists, and runs whose tracks, features,
manifest and artifacts contradict each other.

`AppliesInOrder` is checked without evictions on purpose: the checkpoint upsert takes
whatever offset it is given (`writer/modules/checkpoint_store.py:29`), so an evicted
member that is still running can put an older row and an older checkpoint back. The
repository makes no promise about that.

### Fairness

`Start` is weakly fair because deployments are restarted; `Assign` because the group
coordinator assigns every free partition to some member; `Poll` and `Work` because the
loop of a running process goes on without any outside help, and a blocked statement
proceeds once its lock is free. A job of `Ingestion` is weakly
fair (`Step`): its loop goes on, and whoever operates it starts it again after a failure
(the deployed jobs do not restart by themselves, `backoffLimit: 0`; inspecting the logs
and running the job again is what
`src/docs/runbooks/final-release-validation-scenarios.md` does), so `JobsRecover` is
about a job that somebody keeps starting. Disruptions are never fair, and they are bounded, so the
liveness properties say: *if failures stop, everything published is committed*. They use valid
records only, as an invalid one blocks its partition (`InvalidBlocks`), and a content
that a rewrite restores, as an artifact overwritten for good blocks its event.

`JobsRecover` leaves out jobs that share a local manifest, which can truncate it under
each other's eyes for ever, and a local manifest that a kill has left torn: `Merge` then
fails in every later execution, until the file is removed by hand. It also leaves out a
job that is given a track whose file has no length and whose catalogue duration is NaN or
infinite: `build_envelope` refuses its metadata in every execution
(`RejectsAreAnnounceable`).

### Disagreements between code and documentation

`processing_scaled`: `run_metrics_for` (`processing/pipeline.py:211`) trusts its memory
for ever. Replica A processes segment 1 and loses the topic; B reads the state file and
processes segment 2; A gets the topic back, still remembers only segment 1, and the next
`silent_ratio` it publishes leaves segment 2 out, as does the state file it saves. The
docstring of `silent_ratio` (`processing/modules/metrics.py:56`) calls it "the current
replay-stable silent ratio for this run", and `src/deploy/k3s/README.md:111` scales the
service to several replicas. With one replica (`processing_lone`) the property holds,
and is proved.

`export_replace`: `_publish_bundle_files` (`dataset_exporter/exporter.py:1582`) removes
the published directory and then renames the staging directory, so a reader, or a stop
in between, finds a part of the old bundle or none;
`src/docs/runbooks/final-release-validation-scenarios.md:38` expects "Bundle is replaced
atomically". `PublishedIsWhole` is what does hold: an unfinished bundle is never in the
output directory, and one stop leaves a whole bundle there or in the staging directory.

`review_state`: `derive_run_state` (`review/schemas.py:87`) falls through to
`metadata_only` for a run with persisted segments as soon as it has an error event and a
rejected track, with a reason (line 91) that says no segments have been persisted.

## 4. Proofs

| module | theorem | states |
|---|---|---|
| `WriterProofs` | `Invariance` | `Spec => []IndInv` |
| | `TypeCorrect` | `Spec => []TypeOK` |
| | `OffsetsFollowPersistence` | `Spec => []CommittedIsPersisted` |
| | `CheckpointsFollowPersistence` | `Spec => []CheckpointIsPersisted` |
| | `PersistenceIsIdempotent` | `Spec => []OneRowPerIdentity` |
| | `SamplesAreNotLost` | `Spec => []AppendOnlyKeepsAll` |
| | `PoisonBlocks` | `Spec => []InvalidBlocks` |
| | `TransactionsDoNotDeadlock` | `Spec => []NoLockCycle` |
| | `Implementation` | no eviction: `Spec => AppliesInOrder` (implements `EventSink`) |
| `ProcessingProofs` | `TypeCorrect` | `Spec => []TypeOK` |
| | `OffsetsFollowPublication` | `Spec => []CommittedIsPublished` |
| | `FeaturesAreOfTheirBytes` | `Spec => []FeaturesMatchChecksum` |
| | `StateIsComplete` | one replica: `Spec => []StateCoversCommitted` |
| | `RatioIsStable` | one replica: `Spec => []RatioIsReplayStable` |
| | `FlagIsStable` | one replica: `Spec => []SilentFlagIsStable` |
| `IngestionProofs` | `Invariance` | `Spec => []Inv` |
| | `TypeCorrect` | `Spec => []TypeOK` |
| | `EveryTrackAnnounced` | `Spec => []DoneMeansAnnounced` |
| | `TotalsAreOfTheRun` | `Spec => []TotalsCountTheRun` |
| | `RejectsAnnounceable` | `Spec => []RejectsAreAnnounceable` |
| | `AudioIsTiled` | `Spec => []SegmentsTileTheTrack` |
| | `UrisAreSound` | `Spec => []UrisNameOneObject` |
| | `BuiltValidates` | `Spec => []BuiltEnvelopesValidate` |
| | `KeysNameRowsReplaced` | `Spec => []KeysNameTheRowsReplaced` |
| | `Implementation` | `Spec => RunIsPublished` (implements `RunPublication`) |
| `SegmenterProofs` | `EveryLengthIsTiled` | a waveform of any length is tiled by its segments |
| `EnvelopeProofs` | `NoneMisnamed`, `NoneUnreadable` | no URI names two objects; what a backend writes is read from it |
| `DatasetBundleProofs` | `RowsAreAccounted` | every row of any snapshot is in exactly the lists it belongs to |
| | `SplitsArePartition` | the splits of any snapshot partition its segments by group |
| `SurfacesProofs` | `TypeCorrect` | `Spec => []TypeOK` |
| | `PassIsWhole` | `Spec => []PassHasWholeTracks` |
| | `PublicationIsWhole` | `Spec => []PublishedIsWhole` |
| | `EveryRowIsAccounted` | `Spec => []EveryRowAccounted` |
| | `BundleIsPartitioned` | `Spec => []SplitsPartitionTheBundle` |
| | `CountedAreReady` | `Spec => []CountedArtifactsAreReady` |
| | `PagingIsComplete` | `Spec => []PagingMissesNothing` |
| | `HeaderIsNeverAhead` | `Spec => []HeaderNeverAhead` |
| | `ListedAreFound` | `Spec => []ListedIsFound` |

They hold for every set of members, replicas, jobs, identities, segments, tracks,
contents, forms, inputs and runs, and every bound. Assumptions are those that the modules
declare by name, and TLC evaluates them in every run that uses the module:

- `Writer`: `KeysAssumption`, `BoundsAssumption`, `WritersAssumption`.
- `Processing`: `SegmentsAssumption`, `ReplicasAssumption`, `ContentsAssumption`,
  `BoundsAssumption`.
- `Ingestion`: `IngestionAssumption` (finitely many jobs and tracks, track ids are
  numbers), `InputsAssumption` (no version of a file has more segments than the
  bound; a duration is a number, not finite, or null),
  `AllowlistsAssumption` (allowlists are disjoint, as the deployment has it),
  `DecimalAssumption` and, for URIs, `NamesAssumption` (numbers have different texts, none
  of them a part that a key may not have), `PlainRunAssumption` (a run id that is valid),
  `SegmenterAssumption` (a hop is at least one sample and no longer than a window),
  `LengthsAssumption`.
- The readers: `RunStoreAssumption` (finitely many tracks), `ExporterAssumption` (a
  content is not one of the words for its absence), `CasesAssumption` (one row per track
  in the cases looked at), `ReviewAssumption` (finitely many runs, a positive default
  limit).

### Writer

None of the properties is inductive alone. `CommittedIsPersisted` needs
that a member about to commit has installed its transaction
(`OffsetFollowsTransaction`) and that it commits the next offset and not a later one
(`OwnerIsInStep`: an owner has fetched nothing beyond its current record and everything
before that is committed). `OneRowPerIdentity` needs that an INSERT still finds no row
when it becomes visible (`FoundIsCurrent`), which holds because any other transaction on
that row needs a lock that is taken (`LocksAreExclusive`). `RecordIsSound` says that only
valid records get past validation, and `LogIsSound` ties events to topics. `IndInv` is
their conjunction; `writer_mix` checks it with TLC. In `WriterProofs` the conjuncts about
members are first regrouped per member (`Grouped`), frame lemmas (`Frame`, `SinkFrame`,
`OffsetFrame`) dispose of everything an action leaves alone, and one lemma per action
treats the rest. `NoLockCycle` follows from `IndInv` with no further induction: a member
waits only behind one that has run the same statement, so in any set of members the one
farthest in its transaction waits for none of them.

`AppendOnlyKeepsAll` counts, and is carried next to `IndInv`: every sample below the
committed offset has a row of its own, and so has, for a member that owns the topic and
is about to commit, every sample up to its record (`SamplesKept`). The new row of a record
makes up for the one sample that its offset adds, because the owner is in step.

The refinement holds while no member outlives its assignment (`NoEvictions`, which
`writer_order` has too, for the reason given in section 3). Then only owners work, the
last event applied to a topic is at its committed offset or one after it, and its row
still holds what that event left there (`InOrder`). So the commit of a transaction
applies the next event or the last one again; the second changes no row but one of an
append-only metric, which `EventSink` allows. Every other step leaves the abstract state
alone, or publishes.

### Processing

For any number of replicas `Inv` says how far each has brought its record (`Holds`: the
stage it is at tells what it has loaded, published and counted) and that an owner works
on the first offset that is not committed (`InStep`). A replica that has been evicted
keeps `Holds`, because what is published stays published (`GoesOn`); it cannot commit.
What a replica remembers of its run does not matter for these three theorems.

It does for the others, and there they hold of a service with one replica only
(`Lone`); `processing_scaled` shows the first of them fail with two. `LoneInv` adds what
ties memory, state file and silent ratio together: memory is what the file says
(`Memory`), the file is within the ratio (`FileIsSound`), the ratio within what is
published (`RatioIsPublished`), and features that are not in the file are those of the
one record after the last committed one, with a flag that does not contradict the file
(`FeaturesAreSaved`, `Unsaved`). The last is what a restart needs: between publication
and `os.replace` a crash loses the memory, and the record is delivered again.

### Ingestion

`Inv` of `IngestionProofs` is one invariant per job (`JobInv`): what it has in hand is a
track of its own that it has not put aside (`InHand`), the artifacts it has written so
far hold what it found (`Filled`), so do the manifest rows while no other job writes them
(`Rows`), what it has brought to an end is announced as one version of it, the one that is
there unless a file was replaced (`Announced`, `DeliveredAs`, `Current`), and its
totals are the cardinalities of what is announced in this execution (`Counting`): of the
segments of the announced versions (`AnnouncedCounts`), not of all that were ever
announced. Next to the jobs, a manifest that names a segment of a track has all rows of one
version of it (`RowsAreWhole`), which a merge segment by segment preserves because it
brings all rows of a version at once. The
argument that carries all of it is that allowlists are disjoint: the frame lemma says
that a step of one job leaves the tracks of another alone (`Undisturbed`), and the only
things jobs share, manifest and run totals, are mentioned only for a run with a single
job. Restarts need nothing more, because a job that ends forgets its totals and is asked
to announce everything again. `TotalsCountTheRun` then follows by counting the announced
segments of one more track at a time (`TotalsOfOneMore`). `RejectsAnnounceable` is an
equivalence: besides the one case it admits, every field of the metadata payload is of a
kind that the contract accepts, and in that case `build_envelope` does refuse it.

For `RunIsPublished`, every step of a job is a step of `RunPublication` or changes
nothing its readers see (`JobStepImplements`); which step, follows from `Filled` and
`Rows`. As `RunStore` takes `RunPublication` for its producer, what is proved of the
readers is proved of readers of what ingestion does.

The pure parts are proved for all arguments and not only for the enumerated ones. The
windows that fit form an initial segment of the indexes (`FullWindowsAreFirst`), so a
sample lies in the last segment that starts at or before it, or after the end of all
(`EveryLengthIsTiled`). A payload that `build_envelope` accepts has in its JSON exactly
what the consumer's checks ask for (`BuiltIsValid`); idempotency keys are tuples whose
components determine the row and are determined by it (`KeysNameRows`). A path without
parts that are dropped is kept as it is (`PlainPath`, by the least index at which it would
not be), so a URI parses back to the key it was written for (`ParsedAsWritten`), and the
key of a segment has its track and its index for parts (`NoneMisnamed`). That numbers
written in decimal differ is assumed, not proved.

### Readers

`Inv` of `SurfacesProofs` has four ideas. What is stored was announced, and what was
announced is in the manifest unless jobs share the run (`StoredIsListed`). A manifest that
was loaded lists, of a track that it lists, every segment of one version (`LoadedLists`;
it may list some left of a longer one, and `MergeKeepsWhole` shows that no merge takes
this away), so a feature that agrees with its row brings all rows of that version along,
and a row without its feature makes the bundle fail: this gives `PassHasWholeTracks`
without any assumption on the moments of the five reads. The exporter removes the
published bundle only when the next one is complete (`BundleIsKept`, which counts the
stops). Last, `CountedAreReady` follows a run detail from read to read (`CountIsOfStored`): once
segments are counted the manifest exists and stays, so that the stage can only be degraded
by the state file that is read after it. `RowsAreAccounted` and `SplitsArePartition` are
about the classification alone, for any snapshot with one row per track; the two
invariants follow because the query of the tracks returns one (`TracksRead`).

What `Review` answers rests on a second invariant, `AnswersInv`: while a request is under
way rows and artifacts are only added (`RowsAreAdded`), so a header read first is not
ahead of the rows read later (`HeaderIsBehind`), and a row that was found has an artifact
(`MediaIsStored`). For the lists, every row that was there on the first page has been
shown or is at a place that is still to come (`PagesGoOn`). A row that is added to the
list of tracks moves others to later places only (`PlacesGrow`); a run that becomes active
moves to the first place and those before it one further, so that only that run itself can
be skipped (`ActivityMovesRuns`, `ActivityKeepsPages`). The page that says there are no more is the
one that reaches the last place (`LastPage`).

### Only model-checked

Liveness: `EventuallyCommitted` of both services and `JobsRecover`; ENABLED is out of the
prover's reach. The three violated properties are what TLC finds. All other properties of
the runs are proved, with the restrictions the table names: one replica for three
properties of `Processing`, and no eviction for the refinement of `EventSink`. Both are
restrictions of the code and not of the proofs: without the first, `processing_scaled`
finds a violation, and without the second an evicted member may put an older row back.

## 5. Not modelled

- Feature computation (RMS, log-mel, Welford statistics): floating point. The Welford
  state of a run is updated by every replay and read by nothing.
- The temporary state file of `Processing` is written in one step. Written in two, a
  replica that has been evicted could truncate it between another's write and move; the
  shared name and a vanished file are modelled (`PersistTemp`, `ReplaceState`), and the
  torn file that may come of it as the review service meets it (`SaveState` of
  `RunStore`), but not what it does to the replica that reads it next.
- `segments_total` among the signals of a run detail, the contents of the processing
  state and the checkpoints it copies, provenance labels; label map, normalization statistics and
  dataset card of a bundle: contents of files and answers that nothing else depends on.
- The verdict on a run whose totals are not stored yet: the view turns a missing total
  into 0, and the repository promises nothing about it.
- Two executions of the exporter at once, which share a staging directory: they are
  started by hand.
- Start-up probes, settings and logging, evaluation reports, smoke verifiers and
  dashboards: they change no state that the pipeline depends on.

What could follow: the two-step write of the temporary state file in `Processing`, with a
run that shows what a torn state file does to a scaled service; `Processing` and `Writer`
composed over `audio.features`; `NoEvictions` weakened to members that are
evicted before they have begun a transaction.
