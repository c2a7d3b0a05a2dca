------------------------------- MODULE RunStore -------------------------------
(***************************************************************************)
(* What the readers of a run look at: the claim-check store, as            *)
(* RunPublication lets ingestion change it, and the rows the writer has    *)
(* stored of what was announced.  The topics are consumed independently,   *)
(* so the rows of a track, of its segments, the totals and the error       *)
(* events of a run are stored in any order and any time later.  Next to it *)
(* the processing service keeps its state file of the run.                 *)
(***************************************************************************)
EXTENDS Integers, FiniteSets

CONSTANTS
    Tracks,
    MaxSegments,    \* bound: segments of one track
    Contents,       \* what the segments of a track may hold
    Runs            \* bound: the runs to look at, and what may befall their tracks

VARIABLES
    \* ingestion, as in RunPublication
    shared, count, artifact, manifest, readable, metadata, announced,
    may,            \* may[t]: the contents, statuses and events track t can meet
    stateReadable,  \* the processing state file of the run is absent or can be parsed
    \* the database
    status,         \* track_metadata: validation_status of track t, "none" without a row
    feature,        \* audio_features: checksum of segment s, "none" without a row
    tracksTotal,    \* system_metrics: the run total tracks_total, or Unreported
    failures,       \* the run total validation_failures, or Unreported
    errors          \* the rows of feature_errors and write_failures

ASSUME RunStoreAssumption ==
    MaxSegments \in Nat /\ Tracks \subseteq Nat /\ IsFiniteSet(Tracks)

Ingested == INSTANCE RunPublication

inputs == <<shared, count, may>>
run == <<artifact, manifest, readable, metadata, announced>>
database == <<status, feature, tracksTotal, failures, errors>>
storeVars == <<inputs, run, stateReadable, database>>

Segments == Ingested!Segments
Unreported == 0 - 1
Totals == {Unreported} \cup 0 .. Cardinality(Tracks)

RunStoreTypeOK ==
    /\ Ingested!TypeOK
    /\ stateReadable \in BOOLEAN
    /\ status \in [Tracks -> {"none", "validated", "rejected"}]
    /\ feature \in [Segments -> Contents \cup {"none"}]
    /\ tracksTotal \in Totals /\ failures \in Totals
    /\ errors \in 0 .. 1

-----------------------------------------------------------------------------
StoreInit ==
    /\ Ingested!Init
    /\ \E r \in Runs : shared = r.shared /\ count = r.count /\ may = r.may
    /\ stateReadable = TRUE
    /\ status = [t \in Tracks |-> "none"]
    /\ feature = [s \in Segments |-> "none"]
    /\ tracksTotal = Unreported /\ failures = Unreported
    /\ errors = 0

\* Ingestion goes on as RunPublication says, within what may befall the run.
Ingest ==
    /\ Ingested!Publish
    /\ \A s \in Segments : artifact'[s] \in may[s[1]] \cup {artifact[s]}
    /\ \A s \in Segments : manifest'[s] \in may[s[1]] \cup {"missing"}
    /\ \A t \in Tracks : metadata'[t] \in may[t] \cup {metadata[t]}
    /\ readable' \in {readable, TRUE} \/ \E t \in Tracks : "torn" \in may[t]
    /\ UNCHANGED <<may, stateReadable, database>>

\* The writer stores what was announced of a track or of a segment.
PersistTrack(t) ==
    /\ metadata[t] # "none"
    /\ status' = [status EXCEPT ![t] = metadata[t]]
    /\ UNCHANGED <<inputs, run, stateReadable, feature, tracksTotal, failures, errors>>

PersistFeature(s) ==
    /\ announced[s] # "none"
    /\ feature' = [feature EXCEPT ![s] = announced[s]]
    /\ UNCHANGED <<inputs, run, stateReadable, status, tracksTotal, failures, errors>>

\* The tracks of a job that has announced them all: those of the run, unless it is shared.
Completed == {done \in SUBSET Tracks :
                 /\ \A t \in done : metadata[t] # "none"
                 /\ ~shared => done = {t \in Tracks : may[t] # {}}}

\* Mutant of PersistTracksTotal: the total of a rerun is added to the one before.
PersistTracksTotalAdding ==
    /\ \E t \in Tracks : "totals" \in may[t]
    /\ \E done \in Completed :
          tracksTotal' = Cardinality(done) + (IF tracksTotal > 0 THEN tracksTotal ELSE 0)
    /\ UNCHANGED <<inputs, run, stateReadable, status, feature, failures, errors>>

PersistTracksTotal ==
    /\ \E t \in Tracks : "totals" \in may[t]
    /\ \E done \in Completed : tracksTotal' = Cardinality(done)
    /\ UNCHANGED <<inputs, run, stateReadable, status, feature, failures, errors>>

PersistFailures ==
    /\ \E t \in Tracks : "totals" \in may[t]
    /\ \E done \in Completed : failures' = Cardinality({t \in done : metadata[t] = "rejected"})
    /\ UNCHANGED <<inputs, run, stateReadable, status, feature, tracksTotal, errors>>

\* A segment or a record failed for good: the service that stopped left an error event.
PersistError ==
    /\ \E s \in Segments : announced[s] # "none" /\ "error" \in may[s[1]]
    /\ errors' = 1
    /\ UNCHANGED <<inputs, run, stateReadable, status, feature, tracksTotal, failures>>

(***************************************************************************)
(* Processing saves its state of the run next to an announced segment.     *)
(* Replicas write the same temporary file, so one may move into place what *)
(* another has only begun to write, and the next save may mend it.         *)
(***************************************************************************)
SaveState ==
    /\ \E s \in Segments : announced[s] # "none" /\ "scaled" \in may[s[1]]
    /\ stateReadable' \in BOOLEAN
    /\ UNCHANGED <<inputs, run, database>>

StoreNext ==
    \/ Ingest \/ SaveState
    \/ \E t \in Tracks : PersistTrack(t)
    \/ \E s \in Segments : PersistFeature(s)
    \/ PersistTracksTotal \/ PersistFailures \/ PersistError

-----------------------------------------------------------------------------
\* The views the readers query; COALESCE turns a missing total into 0.
Coalesced(total) == IF total = Unreported THEN 0 ELSE total

StoredTracks == {t \in Tracks : status[t] # "none"}
StoredFeatures == {s \in Segments : feature[s] # "none"}
PersistedOf(t) == Cardinality({s \in StoredFeatures : s[1] = t})

\* vw_dashboard_run_summary: a run is in it as soon as one row names it.
RunIsKnown ==
    \/ StoredTracks # {} \/ StoredFeatures # {}
    \/ {tracksTotal, failures} # {Unreported} \/ errors > 0

RunSummary ==
    [tracks_total |-> Coalesced(tracksTotal),
     validation_failures |-> Coalesced(failures),
     segments_persisted |-> Cardinality(StoredFeatures),
     error_count |-> errors]
=============================================================================
