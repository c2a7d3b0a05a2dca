------------------------------- MODULE Exporter -------------------------------
(***************************************************************************)
(* The dataset exporter: it reads the run summary, the tracks and the      *)
(* features of a run in three queries, then the manifest, then checks the  *)
(* artifact of each feature, while ingestion and the writer go on.  It     *)
(* writes the bundle it makes of all this (DatasetBundle) next to the      *)
(* published one and replaces that.  It may be stopped anywhere and is run *)
(* again by hand, one execution at a time.                                 *)
(***************************************************************************)
EXTENDS RunStore, DatasetBundle

CONSTANTS
    ArtistOf,       \* ArtistOf[t]: the artist of track t
    MaxExports,     \* bound: executions
    MaxCrashes      \* bound: executions that are stopped

ASSUME ExporterAssumption ==
    /\ MaxExports \in Nat /\ MaxCrashes \in Nat
    /\ Contents \cap {"missing", "torn", "none"} = {}

VARIABLES
    epc,            \* the stage of the execution
    snapshot,       \* what it has read of the database
    loaded,         \* the manifest as it has loaded it
    found,          \* what it has found of the features it has checked
    staging,        \* .<run>.tmp: "absent", "partial" or "whole"
    output,         \* <run>: the same, or "removing" when it is partly removed
    published,      \* history: a bundle has been published
    exports, crashes    \* bounded counters of executions

reading == <<snapshot, loaded, found>>
files == <<staging, output, published>>
exportVars == <<epc, reading, files, exports, crashes>>

NoSnapshot == [summary |-> [validation_failures |-> 0, processing_error_count |-> 0,
                            writer_error_count |-> 0, silent |-> FALSE],
               tracks |-> {}, features |-> {}]
NoManifest == [named |-> TRUE, file |-> "absent", rows |-> {}]

ExportStages == {"down", "summary", "tracks", "features", "manifest", "check", "clear",
                 "write", "seal", "remove", "removing", "publish"}

\* The stages at which the bundle has been classified.
Classified == epc \in {"clear", "write", "seal", "remove", "removing", "publish"}

-----------------------------------------------------------------------------
\* The rows the queries return.
TrackRows == {[id |-> t, status |-> status[t], subset |-> "small", artist |-> ArtistOf[t],
               segments |-> PersistedOf(t)] : t \in StoredTracks}
FeatureRows == {[track |-> s[1], idx |-> s[2], uri |-> "local", checksum |-> feature[s],
                 manifest_uri |-> "local", mel |-> TRUE] : s \in StoredFeatures}
ManifestFile ==
    LET listed == {s \in Segments : manifest[s] # "missing"}
    IN  [named |-> TRUE,
         file |-> IF ~readable THEN "torn" ELSE IF listed # {} THEN "whole" ELSE "absent",
         rows |-> {[track |-> s[1], idx |-> s[2], uri |-> "local", checksum |-> manifest[s],
                    manifest_uri |-> "local", own |-> TRUE] : s \in listed}]

-----------------------------------------------------------------------------
ExportInit ==
    /\ epc = "down"
    /\ snapshot = NoSnapshot /\ loaded = NoManifest /\ found = <<>>
    /\ staging = "absent" /\ output = "absent" /\ published = FALSE
    /\ exports = 0 /\ crashes = 0

\* An execution ends and forgets what it has read.
ExportEnds ==
    /\ epc' = "down"
    /\ snapshot' = NoSnapshot /\ loaded' = NoManifest /\ found' = <<>>

StartExport ==
    /\ epc = "down"
    /\ exports < MaxExports
    /\ exports = 0 \/ \E t \in Tracks : "again" \in may[t]
    /\ exports' = exports + 1
    /\ epc' = "summary"
    /\ UNCHANGED <<reading, files, crashes>>

\* An unknown run ends the execution.  One error counter stands for both services.
QueryRunSummary ==
    /\ epc = "summary"
    /\ IF RunIsKnown
       THEN /\ snapshot' = [snapshot EXCEPT
                  !.summary.validation_failures = RunSummary.validation_failures,
                  !.summary.processing_error_count = RunSummary.error_count]
            /\ epc' = "tracks"
            /\ UNCHANGED <<loaded, found>>
       ELSE ExportEnds
    /\ UNCHANGED <<files, exports, crashes>>

QueryTracks ==
    /\ epc = "tracks"
    /\ snapshot' = [snapshot EXCEPT !.tracks = TrackRows]
    /\ epc' = "features"
    /\ UNCHANGED <<loaded, found, files, exports, crashes>>

QueryFeatures ==
    /\ epc = "features"
    /\ snapshot' = [snapshot EXCEPT !.features = FeatureRows]
    /\ epc' = "manifest"
    /\ UNCHANGED <<loaded, found, files, exports, crashes>>

LoadManifest ==
    /\ epc = "manifest"
    /\ loaded' = ManifestFile
    /\ epc' = "check"
    /\ UNCHANGED <<snapshot, found, files, exports, crashes>>

\* Features are checked in the order of their keys; a torn artifact has another checksum.
CheckArtifact ==
    /\ epc = "check"
    /\ LET left == snapshot.features \ DOMAIN found
           next == CHOOSE f \in left : \A g \in left :
                      f.track < g.track \/ (f.track = g.track /\ f.idx <= g.idx)
       IN  IF left = {}
           THEN epc' = "clear" /\ UNCHANGED found
           ELSE /\ found' = [f \in DOMAIN found \cup {next} |->
                               IF f = next THEN artifact[Key(next)] ELSE found[f]]
                /\ UNCHANGED epc
    /\ UNCHANGED <<snapshot, loaded, files, exports, crashes>>

ClearStaging ==
    /\ epc = "clear"
    /\ staging' = "absent"
    /\ epc' = "write"
    /\ UNCHANGED <<reading, output, published, exports, crashes>>

\* Mutant of WriteFiles: the build manifest is left for after the publication.
WriteFilesOnly ==
    /\ epc = "write"
    /\ staging' = "partial"
    /\ epc' = "remove"
    /\ UNCHANGED <<reading, output, published, exports, crashes>>

\* The lists, the splits and the dataset card; the build manifest hashes them all.
WriteFiles ==
    /\ epc = "write"
    /\ staging' = "partial"
    /\ epc' = "seal"
    /\ UNCHANGED <<reading, output, published, exports, crashes>>

WriteBuildManifest ==
    /\ epc = "seal"
    /\ staging' = "whole"
    /\ epc' = "remove"
    /\ UNCHANGED <<reading, output, published, exports, crashes>>

\* rmtree removes the published files one by one.
BeginRemoval ==
    /\ epc = "remove"
    /\ output' = IF output = "absent" THEN "absent" ELSE "removing"
    /\ epc' = "removing"
    /\ UNCHANGED <<reading, staging, published, exports, crashes>>

FinishRemoval ==
    /\ epc = "removing"
    /\ output' = "absent"
    /\ epc' = "publish"
    /\ UNCHANGED <<reading, staging, published, exports, crashes>>

PublishBundle ==
    /\ epc = "publish"
    /\ output' = staging
    /\ staging' = "absent"
    /\ published' = TRUE
    /\ ExportEnds
    /\ UNCHANGED <<exports, crashes>>

\* The process is stopped, or a query or a file operation raises.
ExportCrash ==
    /\ epc # "down"
    /\ crashes < MaxCrashes
    /\ crashes' = crashes + 1
    /\ ExportEnds
    /\ UNCHANGED <<files, exports>>

ExportStep ==
    \/ StartExport \/ QueryRunSummary \/ QueryTracks \/ QueryFeatures \/ LoadManifest
    \/ CheckArtifact \/ ClearStaging \/ WriteFiles \/ WriteBuildManifest
    \/ BeginRemoval \/ FinishRemoval \/ PublishBundle \/ ExportCrash

-----------------------------------------------------------------------------
ExportTypeOK ==
    /\ epc \in ExportStages
    /\ staging \in {"absent", "partial", "whole"}
    /\ output \in {"absent", "partial", "whole", "removing"}
    /\ published \in BOOLEAN
    /\ exports \in 0 .. MaxExports /\ crashes \in 0 .. MaxCrashes

(***************************************************************************)
(* A bundle whose verdict is not "fail" has, of each of its tracks, every  *)
(* segment of one version of the audio, and of its other segments none has *)
(* an index of that version, however ingestion and the writer move on      *)
(* between the reads of the exporter and whichever manifest rows jobs that *)
(* share the run have lost: the features are read before the manifest, and *)
(* that lists all rows of one version or none.  What it does not exclude   *)
(* are segments after the last one: when a track is ingested again with    *)
(* fewer segments, the rows, artifacts and features of the longer version  *)
(* stay, agree with each other and pass with the new ones                  *)
(* (load_source_snapshot, _load_manifest_rows, _classify_bundle).          *)
(***************************************************************************)
PassHasWholeTracks ==
    Classified =>
        LET b == Bundle(snapshot, loaded, found)
        IN  b.verdict # "fail" => \A t \in b.tracks : \E c \in Contents :
                /\ count[t.id][c] > 0
                /\ \A idx \in 0 .. count[t.id][c] - 1 :
                       {f.checksum : f \in {f \in b.segments : Key(f) = <<t.id, idx>>}} = {c}

\* What the exporter has in hand when it classifies the run.
AtHand == [snapshot |-> snapshot, manifest |-> loaded, found |-> found]

(***************************************************************************)
(* Nothing of a run is lost between the lists of a bundle: every feature   *)
(* is an accepted or a rejected segment and not both, every manifest row   *)
(* belongs to a feature or is listed as rejected itself, every accepted    *)
(* segment belongs to exactly one accepted track, and every accepted track *)
(* has one (_classify_bundle).  Only features of a track of another subset *)
(* vanish; audio.metadata admits no other subset than "small".  It holds   *)
(* of what the exporter reads of a run that goes on, and of all cases.     *)
(***************************************************************************)
EveryRowAccounted == Unaccounted = {} /\ (Classified => RowsAccounted(AtHand))

(***************************************************************************)
(* Every accepted segment is in exactly one training split, whatever order *)
(* the hash yields; tracks of one artist stay in one split unless the      *)
(* bundle names the risk; the training split is not empty, and no split is *)
(* when there are three groups or the bundle claims a full artist-aware    *)
(* split (_assign_ordered_groups, _split_group_counts,                     *)
(* _build_track_split_assignments, _build_training_rows_by_split).         *)
(***************************************************************************)
SplitsPartitionTheBundle ==
    /\ Unpartitioned = {}
    /\ Classified => \A order \in Orders(BundleOf(AtHand)) :
                        SplitsPartition(BundleOf(AtHand), order)

(***************************************************************************)
(* The output directory never holds a bundle that was not finished, and as *)
(* long as no more than one execution was stopped, a whole bundle is there *)
(* once there has been one, in the output directory or next to it          *)
(* (build_dataset_bundle, _publish_bundle_files).                          *)
(***************************************************************************)
PublishedIsWhole ==
    /\ output # "partial"
    /\ published /\ epc = "down" /\ crashes <= 1 => "whole" \in {staging, output}

(***************************************************************************)
(* docs/runbooks/final-release-validation-scenarios.md, S11: "Bundle is    *)
(* replaced atomically".  The code removes the published directory file by *)
(* file before it moves the new one into its place.                        *)
(***************************************************************************)
ReplacedAtomically == [][output = "whole" => output' = "whole"]_output
=============================================================================
