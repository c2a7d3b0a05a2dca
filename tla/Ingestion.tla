------------------------------ MODULE Ingestion ------------------------------
(***************************************************************************)
(* The ingestion service: jobs that each take the tracks of a run that     *)
(* their allowlist selects from the catalogue, validate the audio, cut it  *)
(* into segments, write these and their manifest rows to the claim-check   *)
(* store, announce the track and then its segments, and at the end the     *)
(* totals of the run.  A job ends at its first exception and is started    *)
(* again by whoever operates it.  Several jobs of one run share its        *)
(* manifest.                                                               *)
(***************************************************************************)
EXTENDS Envelopes, Segmenter

CONSTANTS
    Jobs,           \* ingestion processes
    Tracks,         \* track ids of the catalogue
    Inputs,         \* what a run is given: its catalogue, the versions of its audio files
                    \* and those it begins with, the allowlists
    MaxTracks,      \* max_tracks: how many selected tracks a job takes
    MinDuration,    \* min_duration_s, in samples
    Contents,       \* versions of the audio, and of the segments cut from it
    MaxSegments,    \* bound: segments of one track
    MaxOf           \* bound: how often each disruption may strike

\* A failure: a process is stopped, a call raises, or an event is not delivered in time.
Disruptions == {"failure", "rewrite"}

ASSUME IngestionAssumption ==
    /\ Tracks \subseteq Nat
    /\ IsFiniteSet(Tracks) /\ IsFiniteSet(Jobs)
    /\ MinDuration \in Nat
    /\ MaxSegments \in Nat \ {0}
    /\ Contents \cap {"missing", "torn", "none"} = {}
    /\ MaxOf \in [Disruptions -> Nat]

\* Numbers written in decimal are told apart by their text.
ASSUME DecimalAssumption == \A m, n \in Tracks : ToString(m) = ToString(n) => m = n

\* Jobs of one run are given disjoint allowlists.
ASSUME AllowlistsAssumption ==
    \A input \in Inputs : \A j, k \in Jobs :
        j # k => input.allowed[j] \cap input.allowed[k] = {}

\* What a file turns out to be when it is looked for, probed and decoded.
Forms == {"missing", "unprobeable", "undecodable", "silent", "sound"}
AudioFiles == [form : Forms, length : Nat]

\* Durations are numbers, "nan" when not finite, null when the text is no number; and no
\* version of a file has more segments than the bound.
ASSUME InputsAssumption ==
    \A input \in Inputs :
        /\ input.allowed \in [Jobs -> SUBSET Tracks]
        /\ \A t \in Tracks : input.catalogue[t].duration.is \in {"float", "nan", "null"}
        /\ input.files \in [Tracks -> [Contents -> AudioFiles]]
        /\ \A t \in Tracks, c \in Contents :
              SegmentCount(input.files[t][c].length) <= MaxSegments
        /\ input.audio \in [Tracks -> Contents]

VARIABLES
    \* what the job is given
    backend,        \* the claim-check backend configured for the run
    allowed,        \* allowed[j]: the allowlist of job j
    catalogue,      \* catalogue[t]: the row of track t in tracks.csv
    files,          \* files[t][c]: the form and length of version c of its file
    audio,          \* audio[t]: the version that is there
    \* the claim-check store
    artifact,       \* artifact[s]: what the artifact of segment s holds
    file,           \* the manifest file: absent, torn or whole
    manifest,       \* manifest[s]: the content its row names for segment s
    \* Kafka
    metadata,       \* metadata[t]: the last validation_status published for t
    announced,      \* announced[s]: the last content announced for segment s
    total,          \* total[m]: the last run total published for metric m
    \* the jobs
    pc,             \* pc[j]: the stage of job j
    todo,           \* todo[j]: the tracks it has not begun
    track,          \* track[j]: the track it works on
    idx,            \* idx[j]: the segment it writes or announces
    seen,           \* seen[j]: what validation found of that track's audio
    merged,         \* merged[j]: the manifest it is about to store
    counted,        \* counted[j]: the run totals it has accumulated
    sent,           \* sent[j]: how many of them it has published
    outcome,        \* outcome[j]: how its last execution ended
    struck          \* struck[d]: how often disruption d has struck

config == <<backend, allowed, catalogue, files>>
store == <<artifact, file, manifest>>
topics == <<metadata, announced, total>>
work == <<todo, track, idx, seen, merged, counted, sent>>
vars == <<config, audio, store, topics, pc, work, outcome, struck>>

-----------------------------------------------------------------------------
Segments == Tracks \X (0 .. MaxSegments - 1)
NoRows == [s \in Segments |-> "missing"]
Statuses == {"missing_file", "probe_failed", "too_short", "decode_failed", "silent",
             "no_segments", "validated"}
Stages == {"down", "next", "write", "writing", "merge", "store", "storing", "verify",
           "metadata", "segments", "totals"}

\* The totals in the order in which they are published; artifact_write_ms is left out.
TotalNames == <<"tracks_total", "segments_total", "validation_failures">>
Totals == [Range(TotalNames) -> Nat]
NoTotals == [m \in Range(TotalNames) |-> 0]

\* What a job has found out about the audio of a track.
Verdicts == [status : Statuses, length : Nat, content : Contents \cup {"missing"}]
Unseen == [status |-> "missing_file", length |-> 0, content |-> "missing"]

\* Rows of the small subset with a genre, in the allowlist, the first MaxTracks of them.
Selected(j) ==
    LET rows == {t \in allowed[j] : /\ catalogue[t].subset = "small"
                                    /\ catalogue[t].genre # ""}
    IN  {t \in rows : Cardinality({u \in rows : u <= t}) <= MaxTracks}

\* A duration that is null or not positive is refused; NaN and infinity are neither.
LoadableCatalogue(j) ==
    \A t \in Selected(j) :
        catalogue[t].duration.is # "null" /\ ~Below("one", catalogue[t].duration)

\* Mutant of Verdict: a silent file is given a status nobody knows.
VerdictMisspelt(t, c) ==
    LET form == files[t][c].form
        length == files[t][c].length
    IN  [status |-> CASE form = "sound" /\ SegmentCount(length) > 0 -> "validated"
                      [] form = "silent" -> "silence"
                      [] OTHER -> "missing_file",
         length |-> length, content |-> c]

\* The checks of one audio file in their order, and the segmenter's verdict after them.
Verdict(t, c) ==
    LET form == files[t][c].form
        length == files[t][c].length
        status == IF form = "missing" THEN "missing_file"
                  ELSE IF form = "unprobeable" THEN "probe_failed"
                  ELSE IF length < MinDuration THEN "too_short"
                  ELSE IF form = "undecodable" THEN "decode_failed"
                  ELSE IF form = "silent" THEN "silent"
                  ELSE IF SegmentCount(length) = 0 THEN "no_segments" ELSE "validated"
    IN  [status |-> status,
         \* duration_s is None when the file was not probed
         length |-> IF status \in {"missing_file", "probe_failed"} THEN 0 ELSE length,
         content |-> IF form = "missing" THEN "missing" ELSE c]

\* The segments of a version: a rejected file has none, whatever the reason.
Count(t, c) ==
    IF Verdict(t, c).status = "validated" THEN SegmentCount(files[t][c].length) ELSE 0

\* Mutant of Duration: without the fallback to the catalogue.
DurationProbed(j) == IF seen[j].length > 0 THEN Val("float", "1") ELSE Val("null", "null")

\* duration_s of the metadata event: what the probe said, else what the catalogue says.
Duration(j) ==
    IF seen[j].length > 0 THEN Val("float", "1") ELSE catalogue[track[j]].duration

MetadataPayload(j) ==
    [f \in Required("audio.metadata") \cup Optional("audio.metadata") |->
        CASE f = "track_id" -> Val("integer", ToString(track[j]))
          [] f = "duration_s" -> Duration(j)
          [] f = "validation_status" -> Val("string", seen[j].status)
          [] f = "manifest_uri" /\ seen[j].status # "validated" -> Val("null", "null")
          [] f = "checksum" /\ seen[j].content = "missing" -> Val("null", "null")
          [] OTHER -> Plain(f)]

MetadataIsBuildable(j) ==
    Buildable("audio.metadata", "ingestion", MetadataPayload(j), <<>>)

Segment(j) == <<track[j], idx[j]>>
LastIdx(j) == SegmentCount(seen[j].length) - 1

Strikes(d) ==
    /\ struck[d] < MaxOf[d]
    /\ struck' = [struck EXCEPT ![d] = @ + 1]

GoTo(j, stage) == pc' = [pc EXCEPT ![j] = stage]

\* Mutant of Ends: the totals are kept for the next execution.
EndsKeepingTotals(j, how) ==
    /\ GoTo(j, "down")
    /\ outcome' = [outcome EXCEPT ![j] = how]
    /\ todo' = [todo EXCEPT ![j] = {}]
    /\ track' = [track EXCEPT ![j] = 0]
    /\ idx' = [idx EXCEPT ![j] = 0]
    /\ seen' = [seen EXCEPT ![j] = Unseen]
    /\ merged' = [merged EXCEPT ![j] = NoRows]
    /\ sent' = [sent EXCEPT ![j] = 0]
    /\ UNCHANGED counted

\* A process that ends keeps nothing.
Ends(j, how) ==
    /\ GoTo(j, "down")
    /\ outcome' = [outcome EXCEPT ![j] = how]
    /\ todo' = [todo EXCEPT ![j] = {}]
    /\ track' = [track EXCEPT ![j] = 0]
    /\ idx' = [idx EXCEPT ![j] = 0]
    /\ seen' = [seen EXCEPT ![j] = Unseen]
    /\ merged' = [merged EXCEPT ![j] = NoRows]
    /\ counted' = [counted EXCEPT ![j] = NoTotals]
    /\ sent' = [sent EXCEPT ![j] = 0]

-----------------------------------------------------------------------------
Init ==
    /\ backend \in Backends
    /\ \E input \in Inputs :
          /\ allowed = input.allowed /\ catalogue = input.catalogue
          /\ files = input.files /\ audio = input.audio
    /\ artifact = [s \in Segments |-> "missing"]
    /\ file = "absent"
    /\ manifest = NoRows
    /\ metadata = [t \in Tracks |-> "none"]
    /\ announced = [s \in Segments |-> "none"]
    /\ total = NoTotals
    /\ pc = [j \in Jobs |-> "down"]
    /\ todo = [j \in Jobs |-> {}]
    /\ track = [j \in Jobs |-> 0]
    /\ idx = [j \in Jobs |-> 0]
    /\ seen = [j \in Jobs |-> Unseen]
    /\ merged = [j \in Jobs |-> NoRows]
    /\ counted = [j \in Jobs |-> NoTotals]
    /\ sent = [j \in Jobs |-> 0]
    /\ outcome = [j \in Jobs |-> "none"]
    /\ struck = [d \in Disruptions |-> 0]

\* Mutant of Start: tracks that have been announced are not taken again.
StartResuming(j) ==
    /\ pc[j] = "down"
    /\ outcome[j] \in {"none", "failed"}
    /\ allowed[j] # {} /\ LoadableCatalogue(j)
    /\ todo' = [todo EXCEPT ![j] = {t \in Selected(j) : metadata[t] = "none"}]
    /\ GoTo(j, "next")
    /\ UNCHANGED <<config, audio, store, topics, track, idx, seen, merged, counted, sent,
                   outcome, struck>>

\* Mutant of Start: a job that failed is not started again.
StartOnce(j) ==
    /\ pc[j] = "down"
    /\ outcome[j] = "none"
    /\ allowed[j] # {}
    /\ todo' = [todo EXCEPT ![j] = Selected(j)]
    /\ GoTo(j, "next")
    /\ UNCHANGED <<config, audio, store, topics, track, idx, seen, merged, counted, sent,
                   outcome, struck>>

\* The dependencies are there; one bad duration among the selected rows ends the job.
Start(j) ==
    /\ pc[j] = "down"
    /\ outcome[j] \in {"none", "failed"}
    /\ allowed[j] # {}
    /\ \/ /\ LoadableCatalogue(j)
          /\ todo' = [todo EXCEPT ![j] = Selected(j)]
          /\ GoTo(j, "next")
          /\ UNCHANGED outcome
       \/ /\ ~LoadableCatalogue(j)
          /\ outcome' = [outcome EXCEPT ![j] = "rejected"]
          /\ UNCHANGED <<todo, pc>>
    /\ UNCHANGED <<config, audio, store, topics, track, idx, seen, merged, counted, sent, struck>>

\* process_record begins: validate and segment the next track.
TakeTrack(j) ==
    /\ pc[j] = "next"
    /\ todo[j] # {}
    /\ LET t == Min(todo[j])
           verdict == Verdict(t, audio[t])
       IN  /\ track' = [track EXCEPT ![j] = t]
           /\ todo' = [todo EXCEPT ![j] = @ \ {t}]
           /\ seen' = [seen EXCEPT ![j] = verdict]
           /\ GoTo(j, IF verdict.status = "validated" THEN "write" ELSE "metadata")
    /\ idx' = [idx EXCEPT ![j] = 0]
    /\ UNCHANGED <<config, audio, store, topics, merged, counted, sent, outcome, struck>>

\* The local store truncates the artifact and then fills it, S3 replaces it at once.
BeginWrite(j) ==
    /\ pc[j] = "write"
    /\ backend = "local"
    /\ artifact' = [artifact EXCEPT ![Segment(j)] = "torn"]
    /\ GoTo(j, "writing")
    /\ UNCHANGED <<config, audio, file, manifest, topics, work, outcome, struck>>

FinishWrite(j) ==
    /\ \/ pc[j] = "writing"
       \/ pc[j] = "write" /\ backend = "minio"
    /\ artifact' = [artifact EXCEPT ![Segment(j)] = seen[j].content]
    /\ IF idx[j] = LastIdx(j)
       THEN GoTo(j, "merge") /\ idx' = [idx EXCEPT ![j] = 0]
       ELSE GoTo(j, "write") /\ idx' = [idx EXCEPT ![j] = @ + 1]
    /\ UNCHANGED <<config, audio, file, manifest, topics, todo, track, seen, merged, counted,
                   sent, outcome, struck>>

\* The manifest rows of the segments the job has written.
RowsOf(j) == {track[j]} \X (0 .. LastIdx(j))

\* Mutant of Merge: the manifest holds the rows of this track only.
MergeReplacing(j) ==
    /\ pc[j] = "merge"
    /\ merged' = [merged EXCEPT ![j] =
           [s \in Segments |-> IF s \in RowsOf(j) THEN seen[j].content ELSE "missing"]]
    /\ GoTo(j, "store")
    /\ UNCHANGED <<config, audio, store, topics, todo, track, idx, seen, counted, sent,
                   outcome, struck>>

\* A row replaces an older one of its segment, all others are kept as they are read.
Merge(j) ==
    /\ pc[j] = "merge"
    /\ \/ /\ file # "torn"
          /\ merged' = [merged EXCEPT ![j] =
                 [s \in Segments |-> IF s \in RowsOf(j) THEN seen[j].content ELSE manifest[s]]]
          /\ GoTo(j, "store")
          /\ UNCHANGED <<todo, track, idx, seen, counted, sent, outcome>>
       \/ file = "torn" /\ Ends(j, "failed")
    /\ UNCHANGED <<config, audio, store, topics, struck>>

BeginStore(j) ==
    /\ pc[j] = "store"
    /\ backend = "local"
    /\ file' = "torn"
    /\ GoTo(j, "storing")
    /\ UNCHANGED <<config, audio, artifact, manifest, topics, work, outcome, struck>>

FinishStore(j) ==
    /\ \/ pc[j] = "storing"
       \/ pc[j] = "store" /\ backend = "minio"
    /\ file' = "whole"
    /\ manifest' = merged[j]
    /\ GoTo(j, "verify")
    /\ UNCHANGED <<config, audio, artifact, topics, work, outcome, struck>>

\* Before anything is announced: the artifacts and the rows are what was written.
Consistent(j) ==
    /\ file = "whole"
    /\ \A s \in RowsOf(j) : manifest[s] = seen[j].content /\ artifact[s] = seen[j].content

Verify(j) ==
    /\ pc[j] = "verify"
    /\ IF Consistent(j)
       THEN GoTo(j, "metadata") /\ UNCHANGED <<work, outcome>>
       ELSE Ends(j, "failed")
    /\ UNCHANGED <<config, audio, store, topics, struck>>

\* record_track: the totals of a track are counted once it is announced.
Counted(j, segments) ==
    counted' = [counted EXCEPT ![j] =
        [tracks_total |-> @["tracks_total"] + 1,
         segments_total |-> @["segments_total"] + segments,
         validation_failures |-> @["validation_failures"]
                                   + (IF seen[j].status = "validated" THEN 0 ELSE 1)]]

PublishMetadata(j) ==
    /\ pc[j] = "metadata"
    /\ \/ /\ MetadataIsBuildable(j)
          /\ metadata' = [metadata EXCEPT ![track[j]] = seen[j].status]
          /\ IF seen[j].status = "validated"
             THEN GoTo(j, "segments") /\ UNCHANGED counted
             ELSE GoTo(j, "next") /\ Counted(j, 0)
          /\ UNCHANGED <<todo, track, idx, seen, merged, sent, outcome>>
       \/ ~MetadataIsBuildable(j) /\ Ends(j, "failed") /\ UNCHANGED metadata
    /\ UNCHANGED <<config, audio, store, announced, total, struck>>

PublishSegment(j) ==
    /\ pc[j] = "segments"
    /\ announced' = [announced EXCEPT ![Segment(j)] = seen[j].content]
    /\ IF idx[j] = LastIdx(j)
       THEN GoTo(j, "next") /\ Counted(j, idx[j] + 1) /\ UNCHANGED idx
       ELSE idx' = [idx EXCEPT ![j] = @ + 1] /\ UNCHANGED <<pc, counted>>
    /\ UNCHANGED <<config, audio, store, metadata, total, todo, track, seen, merged, sent,
                   outcome, struck>>

NoMoreTracks(j) ==
    /\ pc[j] = "next"
    /\ todo[j] = {}
    /\ GoTo(j, "totals")
    /\ UNCHANGED <<config, audio, store, topics, work, outcome, struck>>

PublishTotal(j) ==
    /\ pc[j] = "totals"
    /\ LET name == TotalNames[sent[j] + 1]
       IN  total' = [total EXCEPT ![name] = counted[j][name]]
    /\ IF sent[j] + 1 = Len(TotalNames)
       THEN Ends(j, "done")
       ELSE sent' = [sent EXCEPT ![j] = @ + 1]
            /\ UNCHANGED <<pc, todo, track, idx, seen, merged, counted, outcome>>
    /\ UNCHANGED <<config, audio, store, metadata, announced, struck>>

(***************************************************************************)
(* No delivery report, or one with an error: the job ends, but the event   *)
(* may have been or may still be delivered by the flush on the way out.    *)
(***************************************************************************)
DeliveryFails(j) ==
    /\ pc[j] \in {"metadata", "segments", "totals"}
    /\ Strikes("failure")
    /\ \/ UNCHANGED topics
       \/ /\ pc[j] = "metadata" /\ MetadataIsBuildable(j)
          /\ metadata' = [metadata EXCEPT ![track[j]] = seen[j].status]
          /\ UNCHANGED <<announced, total>>
       \/ /\ pc[j] = "segments"
          /\ announced' = [announced EXCEPT ![Segment(j)] = seen[j].content]
          /\ UNCHANGED <<metadata, total>>
       \/ /\ pc[j] = "totals"
          /\ LET name == TotalNames[sent[j] + 1]
             IN  total' = [total EXCEPT ![name] = counted[j][name]]
          /\ UNCHANGED <<metadata, announced>>
    /\ Ends(j, "failed")
    /\ UNCHANGED <<config, audio, store>>

\* The process is killed, or any call raises.
Stopped(j) ==
    /\ pc[j] # "down"
    /\ Strikes("failure")
    /\ Ends(j, "failed")
    /\ UNCHANGED <<config, audio, store, topics>>

\* The audio file of a track is replaced between or during executions, by a longer one, a
\* shorter one or one that is rejected.
ReplaceAudio(t) ==
    /\ Strikes("rewrite")
    /\ \E c \in Contents \ {audio[t]} : audio' = [audio EXCEPT ![t] = c]
    /\ UNCHANGED <<config, store, topics, pc, work, outcome>>

Step(j) ==
    \/ Start(j) \/ TakeTrack(j) \/ BeginWrite(j) \/ FinishWrite(j) \/ Merge(j)
    \/ BeginStore(j) \/ FinishStore(j) \/ Verify(j) \/ PublishMetadata(j)
    \/ PublishSegment(j) \/ NoMoreTracks(j) \/ PublishTotal(j)

Next ==
    \/ \E j \in Jobs : Step(j) \/ DeliveryFails(j) \/ Stopped(j)
    \/ \E t \in Tracks : ReplaceAudio(t)

\* A job goes on until it ends, and a failed one is started again.
Fairness == \A j \in Jobs : WF_vars(Step(j))
Spec == Init /\ [][Next]_vars /\ Fairness

-----------------------------------------------------------------------------
Shared == Cardinality({j \in Jobs : allowed[j] # {}}) > 1

TypeOK ==
    /\ backend \in Backends /\ allowed \in [Jobs -> SUBSET Tracks]
    /\ files \in [Tracks -> [Contents -> AudioFiles]] /\ audio \in [Tracks -> Contents]
    /\ artifact \in [Segments -> Contents \cup {"missing", "torn"}]
    /\ file \in {"absent", "torn", "whole"}
    /\ manifest \in [Segments -> Contents \cup {"missing"}]
    /\ metadata \in [Tracks -> Statuses \cup {"none"}]
    /\ announced \in [Segments -> Contents \cup {"none"}]
    /\ total \in Totals
    /\ pc \in [Jobs -> Stages]
    /\ todo \in [Jobs -> SUBSET Tracks]
    /\ track \in [Jobs -> Tracks \cup {0}]
    /\ idx \in [Jobs -> 0 .. MaxSegments]
    /\ seen \in [Jobs -> Verdicts]
    /\ merged \in [Jobs -> [Segments -> Contents \cup {"missing"}]]
    /\ counted \in [Jobs -> Totals]
    /\ sent \in [Jobs -> 0 .. Len(TotalNames)]
    /\ outcome \in [Jobs -> {"none", "failed", "rejected", "done"}]
    /\ struck \in [Disruptions -> Nat]

(***************************************************************************)
(* One bad audio file does not end a job, with one exception: the metadata *)
(* event of every record the catalogue loader lets through is accepted by  *)
(* build_envelope, whatever validation found, unless the file is missing,  *)
(* empty or cannot be probed and the duration in its catalogue row is NaN  *)
(* or infinite, which the loader does not refuse.  Then no execution of    *)
(* the job gets past that track (_build_metadata_payload).                 *)
(***************************************************************************)
RejectsAreAnnounceable ==
    \A j \in Jobs : pc[j] = "metadata" =>
        (MetadataIsBuildable(j) <=>
            seen[j].length > 0 \/ catalogue[track[j]].duration.is # "nan")

\* The version of a track that was announced last, by its first segment.
Latest(t) == announced[<<t, 0>>]

(***************************************************************************)
(* A job that ends normally has announced every track it was given with    *)
(* the status of one version of its audio, the one that is there unless it *)
(* was replaced meanwhile, and every segment of a validated version with   *)
(* what its artifact holds and, unless jobs share the run, with what the   *)
(* manifest says; over crashes, failed deliveries and executions before,   *)
(* of longer and of shorter versions.                                      *)
(***************************************************************************)
DoneMeansAnnounced ==
    \A j \in Jobs : outcome[j] = "done" => \A t \in Selected(j) : \E c \in Contents :
        /\ struck["rewrite"] = 0 => c = audio[t]
        /\ metadata[t] = Verdict(t, c).status
        /\ \A i \in 0 .. Count(t, c) - 1 :
              /\ announced[<<t, i>>] = c
              /\ artifact[<<t, i>>] = c
              /\ Shared \/ manifest[<<t, i>>] = c

(***************************************************************************)
(* The run totals published at the end are those of the run and not of the *)
(* executions: they count each announced track once, and each segment of   *)
(* the version of it that was announced last, however often the job was    *)
(* started and although the segments of a longer version before it were    *)
(* announced as well.  Jobs that share a run overwrite each other's        *)
(* totals, so it holds of a run with one job only.                         *)
(***************************************************************************)
TotalsCountTheRun ==
    \A j \in Jobs : outcome[j] = "done" /\ ~Shared =>
        total = [tracks_total |-> Cardinality({t \in Tracks : metadata[t] # "none"}),
                 segments_total |-> Cardinality({s \in Segments :
                     metadata[s[1]] = "validated" /\ s[2] < Count(s[1], Latest(s[1]))}),
                 validation_failures |->
                     Cardinality({t \in Tracks : metadata[t] \notin {"none", "validated"}})]

(***************************************************************************)
(* The segments tile the track: their indexes count from zero, every       *)
(* sample lies in one of them except for a suffix no longer than the tail  *)
(* threshold, no segment is mere padding, and exactly the one that starts  *)
(* last is flagged; for the audio a job has validated, and for lengths     *)
(* around every boundary (segment_audio).                                  *)
(***************************************************************************)
SegmentsTileTheTrack ==
    /\ Untiled = {}
    /\ \A j \in Jobs : seen[j].status = "validated" => Tiled(seen[j].length)

(***************************************************************************)
(* A URI that passes validation for a segment is resolved to that segment  *)
(* and to no other object by the store the readers choose from it, in the  *)
(* bucket it names; and the URIs of the segments and manifests that are    *)
(* written to the backend of the run pass it (storage.py, the checks every *)
(* reader makes before it opens an artifact another service named).        *)
(***************************************************************************)
UrisNameOneObject == Misnaming = {} /\ backend \notin Unreadable

(***************************************************************************)
(* Whatever a service gets past build_envelope, its consumers accept from  *)
(* the topic, the metadata a job is about to send among it: the producer's *)
(* check of a dataclass and the consumer's check of the JSON agree, and    *)
(* both derive the same idempotency key, although fields that are None     *)
(* exist on one side only.                                                 *)
(***************************************************************************)
BuiltEnvelopesValidate ==
    /\ Unconsumed = {}
    /\ \A j \in Jobs : pc[j] = "metadata" /\ MetadataIsBuildable(j) =>
          ValidEnvelope("audio.metadata",
                        Envelope("audio.metadata", "ingestion", MetadataPayload(j), <<>>))

(***************************************************************************)
(* The idempotency key of an event names what the writer replaces when it  *)
(* stores it: two events that replace a row have the same key exactly when *)
(* they replace the same row, as the metadata that two jobs are about to   *)
(* send (the scopes are listed once in envelope.py and once in             *)
(* write_metrics.py).                                                      *)
(***************************************************************************)
KeysNameTheRowsReplaced ==
    /\ ConfusedEvents = {}
    /\ \A j, k \in {j \in Jobs : pc[j] = "metadata"} :
          (IdempotencyKey("audio.metadata", MetadataPayload(j))
             = IdempotencyKey("audio.metadata", MetadataPayload(k)))
          = (track[j] = track[k])

\* The abstract run: tracks are validated or rejected, whatever the reason.
Published == INSTANCE RunPublication WITH
    shared <- Shared,
    count <- [t \in Tracks |-> [c \in Contents |-> Count(t, c)]],
    readable <- file # "torn",
    metadata <- [t \in Tracks |-> IF metadata[t] \in {"none", "validated"}
                                  THEN metadata[t] ELSE "rejected"]

(***************************************************************************)
(* The jobs implement what RunPublication promises the readers of a run: a *)
(* track is announced as validated only when all its segments are stored,  *)
(* a segment only as what its artifact holds, and rows are lost only when  *)
(* jobs share the run (write_segment_artifacts, verify_manifest_consistency*)
(* and the order of the publications in process_record).                   *)
(***************************************************************************)
RunIsPublished == Published!Spec

(***************************************************************************)
(* A job that is started again after each failure gets through, unless a   *)
(* kill in the middle of a local manifest write has left a manifest no     *)
(* execution can read, or a track of it has neither a file with a length   *)
(* nor a finite duration.  Jobs that share a local manifest can truncate   *)
(* it under each other's eyes for ever, so they are left out.              *)
(***************************************************************************)
JobsRecover ==
    <>[](\A j \in Jobs : \/ outcome[j] \in {"done", "rejected"}
                         \/ allowed[j] = {}
                         \/ backend = "local" /\ (Shared \/ file = "torn")
                         \/ \E t \in Selected(j) : /\ catalogue[t].duration.is = "nan"
                                                  /\ Verdict(t, audio[t]).length = 0)

=============================================================================
