---------------------------- MODULE SurfacesProofs ----------------------------
(***************************************************************************)
(* Proofs about Surfaces.tla, for any tracks, contents, runs and bounds.   *)
(*                                                                         *)
(* Three facts carry the safety of the exporter.  A manifest lists every   *)
(* segment of one version of a track, or none, so the exporter has loaded  *)
(* such a manifest (LoadedLists).  What is stored of a segment was         *)
(* announced before, and what is announced is in the manifest unless jobs  *)
(* share the run (StoredIsListed).  And the exporter removes the published *)
(* bundle only when the next one is complete (BundleIsKept).  Inv puts     *)
(* them together with the little typing they need.                         *)
(*                                                                         *)
(* What the review service answers rests on rows and artifacts only being  *)
(* added while it reads (RowsAreAdded): AnswersInv says, for each step of  *)
(* a request, that what was read is not ahead of what will be, and that    *)
(* the rows a list has still to show are at places it has still to come    *)
(* to.                                                                     *)
(***************************************************************************)
EXTENDS Surfaces, DatasetBundleProofs, ReviewProofs

-----------------------------------------------------------------------------
\* The rows of a manifest that names content m[s] for segment s.
ListedIn(m) ==
    {[track |-> s[1], idx |-> s[2], uri |-> "local", checksum |-> m[s],
      manifest_uri |-> "local", own |-> TRUE] : s \in {s \in Segments : m[s] # "missing"}}

Typed ==
    /\ count \in [Tracks -> [Contents -> 0 .. MaxSegments]]
    /\ manifest \in Ingested!Manifests /\ Ingested!HasWholeTracks(manifest)
    /\ feature \in [Segments -> Contents \cup {"none"}]
    /\ announced \in [Segments -> Contents \cup {"none"}]
    /\ crashes \in Nat

\* What is stored was announced, and what was announced is listed.
StoredIsListed ==
    \A s \in Segments :
        /\ feature[s] # "none" => announced[s] # "none"
        /\ announced[s] # "none" /\ ~shared => manifest[s] # "missing"

\* A manifest that has been loaded lists a track whole, in one version, or not at all.
LoadedLists ==
    epc = "check" \/ Classified =>
        /\ loaded.file \in {"absent", "torn", "whole"}
        /\ \E m \in Ingested!Manifests :
              Ingested!HasWholeTracks(m) /\ loaded.rows = ListedIn(m)

\* Where a whole bundle is, as long as at most one execution was stopped.
BundleIsKept ==
    /\ output # "partial"
    /\ epc \in {"remove", "removing", "publish"} => staging = "whole"
    /\ epc = "publish" => output = "absent"
    /\ published /\ crashes = 0 /\ epc \notin {"removing", "publish"} => output = "whole"
    /\ published /\ crashes <= 1 =>
          \/ "whole" \in {staging, output}
          \/ crashes = 1 /\ epc \in {"write", "seal"}

\* A run that is counted in an answer, or in one that is being made, has stored segments.
CountIsOfStored ==
    /\ rpc \in {"outcomes", "manifest", "state"} /\ seen.summary.segments_persisted > 0 =>
          StoredFeatures # {}
    /\ rpc = "state" /\ ~shared /\ seen.summary.segments_persisted > 0 => seen.exists
    /\ CountedArtifactsAreReady

\* The tracks the exporter has read.
SnapshotIsOfRun ==
    /\ DOMAIN snapshot = {"summary", "tracks", "features"}
    /\ OneRowPerTrack(snapshot.tracks)

Inv ==
    /\ Typed
    /\ StoredIsListed
    /\ LoadedLists
    /\ BundleIsKept
    /\ SnapshotIsOfRun
    /\ CountIsOfStored

\* The query of the tracks returns one row for each, and so does none.
LEMMA NothingRead ==
    /\ DOMAIN NoSnapshot = {"summary", "tracks", "features"}
    /\ OneRowPerTrack(NoSnapshot.tracks)
BY FS_EmptySet DEF OneRowPerTrack, NoSnapshot

\* The tracks a query returns carry each stored track once.
LEMMA TracksRead == OneRowPerTrack(TrackRows)
<1> DEFINE Row(t) == [id |-> t, status |-> status[t], subset |-> "small",
                      artist |-> ArtistOf[t], segments |-> PersistedOf(t)]
           row == [t \in StoredTracks |-> Row(t)]
<1>1. TrackRows = {Row(t) : t \in StoredTracks}
  BY DEF TrackRows
<1>2. IsFiniteSet(StoredTracks)
  BY RunStoreAssumption, FS_Subset DEF StoredTracks
<1>3. row \in Surjection(StoredTracks, TrackRows)
  BY <1>1 DEF Surjection
<1>4. IsFiniteSet(TrackRows)
  <2> HIDE DEF row
  <2> QED
    BY <1>2, <1>3, FS_Surjection
<1>5. \A t, u \in TrackRows : t.id = u.id => t = u
  BY <1>1
<1> QED
  BY <1>4, <1>5 DEF OneRowPerTrack

\* Nothing is listed, loaded or read before the first step.
LEMMA InitInv == Init => Inv
<1> SUFFICES ASSUME Init PROVE Inv
  OBVIOUS
<1> USE DEF Init, StoreInit, ExportInit, ReviewInit
<1>1. Typed
  BY DEF Typed, Ingested!Manifests, Ingested!HasWholeTracks, Ingested!Init, Segments,
         Ingested!Segments
<1>2. StoredIsListed
  BY DEF StoredIsListed, Ingested!Init, Segments, Ingested!Segments
<1>3. LoadedLists
  BY DEF LoadedLists, Classified
<1>4. BundleIsKept
  BY DEF BundleIsKept
<1>5. SnapshotIsOfRun
  BY NothingRead DEF SnapshotIsOfRun
<1>6. CountIsOfStored
  BY DEF CountIsOfStored, CountedArtifactsAreReady, None
<1> QED
  BY <1>1, <1>2, <1>3, <1>4, <1>5, <1>6 DEF Inv

-----------------------------------------------------------------------------
\* What a step of the run keeps: rows are only added, rows of the manifest not lost.
RunGoesOn ==
    /\ Typed' /\ StoredIsListed'
    /\ StoredFeatures \subseteq StoredFeatures'
    /\ UNCHANGED inputs

\* Merging the rows of a version keeps the tracks of a manifest whole.
LEMMA MergeKeepsWhole ==
    ASSUME count \in [Tracks -> [Contents -> 0 .. MaxSegments]],
           manifest \in Ingested!Manifests, Ingested!HasWholeTracks(manifest),
           NEW t \in Tracks, NEW c \in Contents, count[t][c] > 0,
           NEW merged,
           merged = [s \in Segments |->
                        IF s \in Ingested!SegmentsOf(t, c) THEN c ELSE manifest[s]]
    PROVE  merged \in Ingested!Manifests /\ Ingested!HasWholeTracks(merged)
<1> USE DEF Segments
<1>1. merged \in Ingested!Manifests
  BY DEF Ingested!Manifests
<1>2. \A s \in Segments : merged[s] = IF s \in Ingested!SegmentsOf(t, c) THEN c ELSE manifest[s]
  OBVIOUS
<1>3. \A u \in Tracks, d \in Contents : \A s \in Ingested!SegmentsOf(u, d) :
         s \in Segments /\ s[1] = u /\ s[2] < count[u][d]
  BY RunStoreAssumption DEF Ingested!SegmentsOf, Ingested!Segments
<1>4. ASSUME NEW s \in Segments, merged[s] # "missing"
      PROVE  s[2] < count[s[1]][merged[s]]
  <2>1. CASE s \in Ingested!SegmentsOf(t, c)
    BY <1>2, <1>3, <2>1
  <2>2. CASE s \notin Ingested!SegmentsOf(t, c)
    BY <1>2, <1>4, <2>2 DEF Ingested!HasWholeTracks
  <2> QED
    BY <2>1, <2>2
<1>5. ASSUME NEW s \in Segments, merged[s] # "missing"
      PROVE  \E d \in Contents :
                count[s[1]][d] > 0 /\ \A u \in Ingested!SegmentsOf(s[1], d) : merged[u] = d
  <2>1. CASE s[1] = t
    BY <1>2, <1>3, <2>1
  <2>2. CASE s[1] # t
    <3>1. s[1] \in Tracks /\ merged[s] = manifest[s]
      BY <1>2, <1>3, <2>2 DEF Ingested!Segments
    <3>2. PICK d \in Contents :
             count[s[1]][d] > 0 /\ \A u \in Ingested!SegmentsOf(s[1], d) : manifest[u] = d
      BY <1>5, <3>1 DEF Ingested!HasWholeTracks
    <3>3. \A u \in Ingested!SegmentsOf(s[1], d) : merged[u] = manifest[u]
      BY <1>2, <1>3, <2>2, <3>1
    <3> QED
      BY <3>2, <3>3
  <2> QED
    BY <2>1, <2>2
<1> QED
  BY <1>1, <1>4, <1>5 DEF Ingested!HasWholeTracks

\* A step of the ingestion run keeps the manifest's rows and lists what it stores.
LEMMA IngestStep ==
    ASSUME Typed, StoredIsListed, Ingest, UNCHANGED crashes
    PROVE  RunGoesOn
<1> USE DEF Typed, Ingest, inputs, database
<1>1. UNCHANGED inputs /\ StoredFeatures' = StoredFeatures /\ UNCHANGED feature
  BY DEF Ingested!Publish, Ingested!StoreRows, Ingested!AnnounceTrack, Ingested!WriteArtifact,
         Ingested!AnnounceSegment, Ingested!TruncateManifest, Ingested!inputs, StoredFeatures,
         Segments, Ingested!Segments
<1>2. \A m : Ingested!HasWholeTracks(m)' <=> Ingested!HasWholeTracks(m')
  BY <1>1 DEF Ingested!HasWholeTracks, Ingested!SegmentsOf, Ingested!Segments
<1>3. Ingested!Manifests' = Ingested!Manifests /\ Segments' = Segments
  BY DEF Ingested!Manifests, Segments, Ingested!Segments
<1> SUFFICES ASSUME TRUE
             PROVE  /\ manifest' \in Ingested!Manifests /\ Ingested!HasWholeTracks(manifest')
                    /\ announced' \in [Segments -> Contents \cup {"none"}]
                    /\ \A s \in Segments :
                          /\ announced[s] # "none" => announced'[s] # "none"
                          /\ announced'[s] # "none" /\ ~shared => manifest'[s] # "missing"
  BY <1>1, <1>2, <1>3 DEF RunGoesOn, StoredIsListed
<1>4. CASE UNCHANGED <<manifest, announced>>
  BY <1>4 DEF StoredIsListed
<1>5. ASSUME NEW t \in Tracks, Ingested!StoreRows(t)
      PROVE  /\ manifest' \in Ingested!Manifests /\ Ingested!HasWholeTracks(manifest')
             /\ UNCHANGED announced
             /\ ~shared => \A s \in Segments : manifest[s] # "missing" => manifest'[s] # "missing"
  <2>1. PICK c \in Contents :
           /\ count[t][c] > 0
           /\ \/ manifest' = [s \in Segments |->
                               IF s \in Ingested!SegmentsOf(t, c) THEN c ELSE manifest[s]]
              \/ /\ shared
                 /\ manifest' \in Ingested!Manifests /\ Ingested!HasWholeTracks(manifest')
    BY <1>5 DEF Ingested!StoreRows, Ingested!Stored, Segments
  <2>2. UNCHANGED announced
    BY <1>5 DEF Ingested!StoreRows
  <2>3. CASE shared /\ manifest' \in Ingested!Manifests /\ Ingested!HasWholeTracks(manifest')
    BY <2>2, <2>3
  <2>4. CASE manifest' = [s \in Segments |->
                            IF s \in Ingested!SegmentsOf(t, c) THEN c ELSE manifest[s]]
    <3>1. manifest' \in Ingested!Manifests /\ Ingested!HasWholeTracks(manifest')
      BY <2>1, <2>4, MergeKeepsWhole
    <3>2. \A s \in Segments : manifest[s] # "missing" => manifest'[s] # "missing"
      BY <2>4, ExporterAssumption
    <3> QED
      BY <2>2, <3>1, <3>2
  <2> QED
    BY <2>1, <2>3, <2>4
<1>6. CASE \E t \in Tracks : Ingested!StoreRows(t)
  BY <1>5, <1>6 DEF StoredIsListed
<1>7. ASSUME NEW s \in Segments, Ingested!AnnounceSegment(s)
      PROVE  /\ manifest' \in Ingested!Manifests /\ Ingested!HasWholeTracks(manifest')
             /\ announced' \in [Segments -> Contents \cup {"none"}]
             /\ \A r \in Segments :
                   /\ announced[r] # "none" => announced'[r] # "none"
                   /\ announced'[r] # "none" /\ ~shared => manifest'[r] # "missing"
  <2>1. PICK c \in Contents :
           /\ s \in Ingested!SegmentsOf(s[1], c) /\ Ingested!Listed(s[1], c)
           /\ announced' = [announced EXCEPT ![s] = c] /\ UNCHANGED manifest
    BY <1>7 DEF Ingested!AnnounceSegment
  <2>2. c # "none" /\ (~shared => manifest[s] # "missing")
    BY <2>1, ExporterAssumption DEF Ingested!Listed
  <2>3. \A r \in Segments : announced'[r] = IF r = s THEN c ELSE announced[r]
    BY <2>1
  <2>4. announced' \in [Segments -> Contents \cup {"none"}]
    BY <2>1
  <2> QED
    BY <2>1, <2>2, <2>3, <2>4 DEF StoredIsListed
<1>8. CASE \E s \in Segments : Ingested!AnnounceSegment(s)
  BY <1>7, <1>8
<1>9. CASE \E t \in Tracks : Ingested!AnnounceTrack(t)
  BY <1>4, <1>9 DEF Ingested!AnnounceTrack
<1>10. CASE \E s \in Segments : Ingested!WriteArtifact(s)
  BY <1>4, <1>10 DEF Ingested!WriteArtifact
<1>11. CASE Ingested!TruncateManifest
  BY <1>4, <1>11 DEF Ingested!TruncateManifest
<1> QED
  BY <1>6, <1>8, <1>9, <1>10, <1>11 DEF Ingested!Publish, Segments

\* The types and the whole tracks of a manifest that no step changes.
LEMMA TypedStays ==
    ASSUME Typed, UNCHANGED <<inputs, manifest, announced>>,
           feature' \in [Segments -> Contents \cup {"none"}], crashes' \in Nat
    PROVE  Typed'
BY DEF Typed, inputs, Ingested!Manifests, Ingested!HasWholeTracks, Ingested!SegmentsOf, Segments,
       Ingested!Segments

\* Whoever writes to the store, the run goes on: rows are added, never taken back.
LEMMA StoreStep ==
    ASSUME Typed, StoredIsListed, StoreNext, UNCHANGED crashes
    PROVE  RunGoesOn
<1>1. CASE Ingest
  BY <1>1, IngestStep
<1>2. ASSUME NEW s \in Segments, PersistFeature(s)
      PROVE  RunGoesOn
  <2>1. /\ announced[s] # "none"
        /\ feature' = [feature EXCEPT ![s] = announced[s]]
        /\ UNCHANGED <<inputs, manifest, announced>>
    BY <1>2 DEF PersistFeature, run
  <2> QED
    BY <2>1, TypedStays DEF RunGoesOn, Typed, StoredIsListed, StoredFeatures, inputs, Segments,
                            Ingested!Segments
<1>3. CASE \/ \E t \in Tracks : PersistTrack(t)
           \/ PersistTracksTotal \/ PersistFailures \/ PersistError \/ SaveState
  <2>1. UNCHANGED <<inputs, manifest, announced, feature>>
    BY <1>3 DEF PersistTrack, PersistTracksTotal, PersistFailures, PersistError, SaveState, run,
                database
  <2> QED
    BY <2>1, TypedStays DEF RunGoesOn, Typed, StoredIsListed, StoredFeatures, inputs, Segments,
                            Ingested!Segments
<1> QED
  BY <1>1, <1>2, <1>3 DEF StoreNext

-----------------------------------------------------------------------------
\* A step of the exporter keeps a whole bundle, and loads a manifest as it is.
LEMMA ExportKeepsBundle ==
    ASSUME crashes \in Nat, BundleIsKept, ExportStep
    PROVE  BundleIsKept' /\ crashes' \in Nat
<1> USE DEF BundleIsKept, files, reading
<1>1. CASE StartExport
  BY <1>1 DEF StartExport
<1>2. CASE QueryRunSummary
  BY <1>2 DEF QueryRunSummary, ExportEnds
<1>3. CASE QueryTracks \/ QueryFeatures \/ LoadManifest
  BY <1>3 DEF QueryTracks, QueryFeatures, LoadManifest
<1>4. CASE CheckArtifact
  BY <1>4 DEF CheckArtifact
<1>5. CASE ClearStaging
  BY <1>5 DEF ClearStaging
<1>6. CASE WriteFiles
  BY <1>6 DEF WriteFiles
<1>7. CASE WriteBuildManifest
  BY <1>7 DEF WriteBuildManifest
<1>8. CASE BeginRemoval
  BY <1>8 DEF BeginRemoval
<1>9. CASE FinishRemoval
  BY <1>9 DEF FinishRemoval
<1>10. CASE PublishBundle
  BY <1>10 DEF PublishBundle, ExportEnds
<1>11. CASE ExportCrash
  BY <1>11 DEF ExportCrash, ExportEnds
<1> QED
  BY <1>1, <1>2, <1>3, <1>4, <1>5, <1>6, <1>7, <1>8, <1>9, <1>10, <1>11 DEF ExportStep

\* The exporter's queries read what the run has stored by then.
LEMMA ExportReadsRun ==
    ASSUME SnapshotIsOfRun, ExportStep
    PROVE  SnapshotIsOfRun'
<1> USE DEF SnapshotIsOfRun, reading
<1>1. CASE QueryRunSummary
  <2>1. CASE RunIsKnown
    <3>1. PICK wrong, late :
             snapshot' = [snapshot EXCEPT !.summary.validation_failures = wrong,
                                          !.summary.processing_error_count = late]
      BY <1>1, <2>1 DEF QueryRunSummary
    <3>2. DOMAIN snapshot' = DOMAIN snapshot
      BY <3>1
    <3>3. snapshot'.tracks = snapshot.tracks
      BY <3>1
    <3> QED
      BY <3>2, <3>3
  <2>2. CASE ~RunIsKnown
    BY <1>1, <2>2, NothingRead DEF QueryRunSummary, ExportEnds
  <2> QED
    BY <2>1, <2>2
<1>2. CASE QueryTracks
  <2>1. snapshot'.tracks = TrackRows /\ DOMAIN snapshot' = DOMAIN snapshot
    BY <1>2 DEF QueryTracks
  <2> QED
    BY <2>1, TracksRead
<1>3. CASE QueryFeatures
  <2>1. snapshot'.tracks = snapshot.tracks /\ DOMAIN snapshot' = DOMAIN snapshot
    BY <1>3 DEF QueryFeatures
  <2> QED
    BY <2>1
<1>4. CASE PublishBundle \/ ExportCrash
  BY <1>4, NothingRead DEF PublishBundle, ExportCrash, ExportEnds
<1>5. CASE \/ StartExport \/ LoadManifest \/ CheckArtifact \/ ClearStaging \/ WriteFiles
           \/ WriteBuildManifest \/ BeginRemoval \/ FinishRemoval
  BY <1>5 DEF StartExport, LoadManifest, CheckArtifact, ClearStaging, WriteFiles,
              WriteBuildManifest, BeginRemoval, FinishRemoval
<1> QED
  BY <1>1, <1>2, <1>3, <1>4, <1>5 DEF ExportStep

\* What a manifest lists, and whether that is whole, depends on the versions only.
LEMMA ListsStay ==
    ASSUME UNCHANGED count
    PROVE  /\ Ingested!Manifests' = Ingested!Manifests
           /\ \A m : /\ Ingested!HasWholeTracks(m)' <=> Ingested!HasWholeTracks(m)
                     /\ ListedIn(m)' = ListedIn(m)
BY DEF Ingested!Manifests, Ingested!HasWholeTracks, Ingested!SegmentsOf, ListedIn, Segments,
       Ingested!Segments

\* What the exporter loads from the manifest is what the manifest listed.
LEMMA ExportLoadsLists ==
    ASSUME manifest \in Ingested!Manifests, Ingested!HasWholeTracks(manifest), LoadedLists,
           ExportStep, UNCHANGED storeVars
    PROVE  LoadedLists'
<1> USE DEF LoadedLists, Classified, reading
<1>1. /\ Ingested!Manifests' = Ingested!Manifests
      /\ \A m : /\ Ingested!HasWholeTracks(m)' <=> Ingested!HasWholeTracks(m)
                /\ ListedIn(m)' = ListedIn(m)
  BY ListsStay DEF storeVars, inputs
<1>2. CASE LoadManifest
  <2>1. ManifestFile.file \in {"absent", "torn", "whole"} /\ ManifestFile.rows = ListedIn(manifest)
    BY DEF ManifestFile, ListedIn
  <2> QED
    BY <1>1, <1>2, <2>1 DEF LoadManifest
<1>3. CASE CheckArtifact
  BY <1>1, <1>3 DEF CheckArtifact
<1>4. CASE \/ ClearStaging \/ WriteFiles \/ WriteBuildManifest \/ BeginRemoval \/ FinishRemoval
  BY <1>1, <1>4 DEF ClearStaging, WriteFiles, WriteBuildManifest, BeginRemoval, FinishRemoval
<1>5. CASE \/ StartExport \/ QueryRunSummary \/ QueryTracks \/ QueryFeatures
           \/ PublishBundle \/ ExportCrash
  BY <1>5 DEF StartExport, QueryRunSummary, QueryTracks, QueryFeatures, PublishBundle,
              ExportCrash, ExportEnds
<1> QED
  BY <1>2, <1>3, <1>4, <1>5 DEF ExportStep

-----------------------------------------------------------------------------
\* A run whose segments are counted has a manifest, unless jobs share it.
LEMMA CountedHasManifest ==
    ASSUME StoredIsListed, StoredFeatures # {}, ~shared
    PROVE  \E s \in Segments : manifest[s] # "missing"
BY DEF StoredIsListed, StoredFeatures

\* A step of the review service counts what is stored and looks for the manifest last.
LEMMA ReviewCountsStored ==
    ASSUME StoredIsListed, CountIsOfStored, ReviewStep \/ ListRunsStep, UNCHANGED storeVars
    PROVE  CountIsOfStored'
<1> USE DEF CountIsOfStored, CountedArtifactsAreReady, None
<1>1. StoredFeatures' = StoredFeatures /\ shared' = shared
  BY DEF StoredFeatures, storeVars, inputs, database, Segments, Ingested!Segments
<1>2. CASE QuerySummary
  <2>1. RunSummary.segments_persisted > 0 => StoredFeatures # {}
    BY FS_EmptySet DEF RunSummary
  <2> QED
    BY <1>1, <1>2, <2>1 DEF QuerySummary, Read, Answer
<1>3. CASE QueryOutcomes
  BY <1>1, <1>3 DEF QueryOutcomes, Read
<1>4. CASE CheckManifest
  <2> DEFINE exists == ~readable \/ \E s \in Segments : manifest[s] # "missing"
  <2>1. /\ rpc = "manifest" /\ rpc' = "state" /\ answer' = answer
        /\ seen' = [summary |-> seen.summary, outcomes |-> seen.outcomes, exists |-> exists]
    BY <1>4 DEF CheckManifest, Read
  <2>2. seen.summary.segments_persisted > 0 /\ ~shared => exists
    BY <2>1, CountedHasManifest
  <2> HIDE DEF exists
  <2>3. seen'.summary = seen.summary /\ (seen'.exists <=> exists)
    BY <2>1
  <2> QED
    BY <1>1, <2>1, <2>2, <2>3
<1>9. CASE ReadState
  <2> DEFINE readError == ~stateReadable
  <2>1. /\ rpc = "state" /\ rpc' = "idle"
        /\ answer'.summary = seen.summary /\ answer'.read_error = readError
        /\ answer'.stages = PipelineStages(seen.summary, seen.outcomes, seen.exists, readError)
    BY <1>9 DEF ReadState, Answer
  <2>2. answer'.stages.upstream.artifacts = ArtifactsStage(seen.summary, seen.exists, readError)
    BY <2>1 DEF PipelineStages
  <2>3. ASSUME ~shared, seen.summary.segments_persisted > 0
        PROVE  answer'.stages.upstream.artifacts
                  = IF answer'.read_error THEN "degraded" ELSE "ready"
    <3>1. seen.exists /\ seen.summary.segments_persisted # 0
      BY <2>1, <2>3
    <3> QED
      BY <2>1, <2>2, <3>1 DEF ArtifactsStage
  <2> QED
    BY <1>1, <2>1, <2>3
<1>5. CASE \/ AskRun \/ \E list \in Lists : Browse(list) \/ ShowPage(list)
  BY <1>1, <1>5 DEF AskRun, Ask, Browse, Refuse, ShowPage, Lists
<1>6. CASE AskTrack \/ QueryTrack \/ QuerySegments
  BY <1>1, <1>6 DEF AskTrack, Ask, Refuse, QueryTrack, QuerySegments, Read, Answer
<1>7. CASE AskMedia \/ LookupSegment \/ CheckExists \/ CompareChecksum \/ SendSegment
  BY <1>1, <1>7 DEF AskMedia, Ask, LookupSegment, CheckExists, CompareChecksum, SendSegment,
                    Read, Answer
<1>8. CASE \E r \in RunIds : RunActive(r)
  BY <1>1, <1>8 DEF RunActive
<1> QED
  BY <1>2, <1>3, <1>4, <1>5, <1>6, <1>7, <1>8, <1>9 DEF ReviewStep, ListRunsStep, Lists

-----------------------------------------------------------------------------
\* Inv reads nothing but the run, the exporter and the review service.
LEMMA StepInv == Inv /\ [Next]_vars => Inv'
<1> SUFFICES ASSUME Inv, [Next]_vars PROVE Inv'
  OBVIOUS
<1> USE DEF Inv
<1>1. ASSUME UNCHANGED storeVars
      PROVE  /\ crashes' \in Nat => Typed'
             /\ StoredIsListed'
             /\ UNCHANGED exportVars => LoadedLists'
  <2>1. UNCHANGED <<inputs, run, database>>
    BY <1>1 DEF storeVars
  <2>2. crashes' \in Nat => Typed'
    BY <2>1, TypedStays DEF Typed, run, database
  <2>3. StoredIsListed'
    BY <2>1 DEF StoredIsListed, inputs, run, database, Segments, Ingested!Segments
  <2>4. UNCHANGED exportVars => LoadedLists'
    BY <2>1, ListsStay DEF LoadedLists, Classified, inputs, exportVars, reading
  <2> QED
    BY <2>2, <2>3, <2>4
<1>2. UNCHANGED exportVars =>
        BundleIsKept' /\ SnapshotIsOfRun' /\ UNCHANGED <<crashes, epc, loaded>>
  BY DEF BundleIsKept, SnapshotIsOfRun, exportVars, files, reading
<1>3. CASE StoreNext /\ UNCHANGED <<exportVars, reviewVars, reader>>
  <2>1. RunGoesOn
    BY <1>2, <1>3, StoreStep
  <2>2. UNCHANGED count
    BY <2>1 DEF RunGoesOn, inputs
  <2>3. LoadedLists'
    BY <1>2, <1>3, <2>2, ListsStay DEF LoadedLists, Classified
  <2>4. CountIsOfStored'
    BY <1>3, <2>1 DEF RunGoesOn, inputs, CountIsOfStored, CountedArtifactsAreReady, reviewVars
  <2> QED
    BY <1>2, <1>3, <2>1, <2>3, <2>4 DEF RunGoesOn
<1>4. CASE ExportStep /\ UNCHANGED <<storeVars, reviewVars, reader>>
  <2>1. BundleIsKept' /\ crashes' \in Nat
    BY <1>4, ExportKeepsBundle DEF Typed
  <2>2. LoadedLists'
    BY <1>4, ExportLoadsLists DEF Typed
  <2>3. CountIsOfStored'
    BY <1>4 DEF CountIsOfStored, CountedArtifactsAreReady, reviewVars, storeVars, inputs,
       database, StoredFeatures, Segments, Ingested!Segments
  <2>4. SnapshotIsOfRun'
    BY <1>4, ExportReadsRun
  <2> QED
    BY <1>1, <1>4, <2>1, <2>2, <2>3, <2>4
<1>5. CASE (ReviewStep \/ ListRunsStep) /\ UNCHANGED <<storeVars, exportVars, reader>>
  <2>1. CountIsOfStored'
    BY <1>5, ReviewCountsStored
  <2> QED
    BY <1>1, <1>2, <1>5, <2>1 DEF Typed
<1>6. CASE UNCHANGED vars
  <2>1. CountIsOfStored'
    BY <1>6 DEF CountIsOfStored, CountedArtifactsAreReady, vars, reviewVars, storeVars, inputs,
       database, StoredFeatures, Segments, Ingested!Segments
  <2> QED
    BY <1>1, <1>2, <1>6, <2>1 DEF vars, Typed
<1> QED
  BY <1>3, <1>4, <1>5, <1>6 DEF Next

\* Inv holds of every behaviour of the store and its two readers.
THEOREM Invariance == Spec => []Inv
<1> QED
  BY InitInv, StepInv, PTL DEF Spec

-----------------------------------------------------------------------------
\* A bundle that passes has no feature rejected, no row orphaned and a whole manifest.
LEMMA PassIsClean ==
    ASSUME NEW source, NEW listing, NEW contents,
           Verdict(source, listing, contents) # "fail", source.features # {},
           listing.file \in {"absent", "torn", "whole"}
    PROVE  /\ AcceptedFeatures(source, listing, contents) = source.features
           /\ Orphans(source, listing) = {}
           /\ ManifestRequired(source)
           /\ ManifestRows(listing) = listing.rows
<1>1. ~Blocked(source, listing, contents)
  BY DEF Verdict
<1>2. /\ ManifestFaults(source, listing) = {}
      /\ AcceptedFeatures(source, listing, contents) = source.features
      /\ Orphans(source, listing) = {}
  BY <1>1 DEF Blocked
<1>3. ManifestRequired(source)
  BY DEF ManifestRequired
<1>4. listing.named /\ listing.file = "whole"
  BY <1>2, <1>3 DEF ManifestFaults
<1>5. \A row \in listing.rows : RowFaults(row) = {}
  BY <1>2, <1>4 DEF ManifestFaults
<1> QED
  BY <1>2, <1>3, <1>4, <1>5 DEF ManifestRows

\* So a bundle that passes holds every segment of one version of each of its tracks.
LEMMA InvMeansWhole == Inv => PassHasWholeTracks
<1> DEFINE b == Bundle(snapshot, loaded, found)
           Checksums(t, idx) ==
              {f.checksum : f \in {f \in b.segments : Key(f) = <<t.id, idx>>}}
<1> SUFFICES ASSUME Inv, Classified, Verdict(snapshot, loaded, found) # "fail", NEW t \in b.tracks
             PROVE  \E c \in Contents :
                       /\ count[t.id][c] > 0
                       /\ \A idx \in 0 .. count[t.id][c] - 1 : Checksums(t, idx) = {c}
  BY DEF PassHasWholeTracks, Bundle
<1> DEFINE features == AcceptedFeatures(snapshot, loaded, found)
<1>1. t \in AcceptedTracks(snapshot, features)
  BY DEF Bundle
<1>2. PICK f \in features : f.track = t.id
  BY <1>1, AcceptedTrack
<1>3. loaded.file \in {"absent", "torn", "whole"}
  BY DEF Inv, LoadedLists
<1>4. PICK m \in Ingested!Manifests : Ingested!HasWholeTracks(m) /\ loaded.rows = ListedIn(m)
  BY DEF Inv, LoadedLists
<1>5. snapshot.features # {}
  BY <1>2 DEF AcceptedFeatures
<1>6. /\ features = snapshot.features
      /\ Orphans(snapshot, loaded) = {}
      /\ ManifestRequired(snapshot)
      /\ ManifestRows(loaded) = loaded.rows
  BY <1>3, <1>5, PassIsClean
<1>7. \A g \in features : ArtifactRejections(snapshot, loaded, found, g) = {}
  BY AcceptedHasTrack DEF AcceptedFeatures
<1>8. ASSUME NEW row \in ManifestIndex(loaded)
      PROVE  /\ Key(row) \in Segments /\ m[Key(row)] # "missing"
             /\ row.checksum = m[Key(row)]
  <2>1. row \in ListedIn(m)
    BY <1>4, <1>6 DEF ManifestIndex
  <2>2. PICK s \in Segments :
           m[s] # "missing" /\ row.track = s[1] /\ row.idx = s[2] /\ row.checksum = m[s]
    BY <2>1 DEF ListedIn
  <2>3. Key(row) = s
    BY <2>2 DEF Key, Segments, Ingested!Segments
  <2> QED
    BY <2>2, <2>3
<1>9. ASSUME NEW s \in Segments, m[s] # "missing"
      PROVE  /\ \E g \in features : Key(g) = s
             /\ \A g \in features : Key(g) = s => g.checksum = m[s]
  <2> DEFINE row == [track |-> s[1], idx |-> s[2], uri |-> "local", checksum |-> m[s],
                     manifest_uri |-> "local", own |-> TRUE]
  <2>1. row \in ListedIn(m)
    BY <1>9 DEF ListedIn
  <2>2. Key(row) = s
    BY DEF Key, Segments, Ingested!Segments
  <2> HIDE DEF row
  <2>3. PICK first \in ManifestIndex(loaded) : Key(first) = s
    BY <1>4, <1>6, <2>1, <2>2, IndexKeepsKeys
  <2>4. first.checksum = m[s]
    BY <1>8, <2>3
  <2>5. \E g \in features : Key(g) = s
    BY <1>6, <2>3 DEF Orphans, KeysOf
  <2>6. ASSUME NEW g \in features, Key(g) = s PROVE g.checksum = m[s]
    BY <1>7, <2>3, <2>4, <2>6, AcceptedIsListed
  <2> QED
    BY <2>5, <2>6
<1>10. PICK s \in Segments : m[s] # "missing" /\ s[1] = t.id
  <2>1. PICK row \in ManifestIndex(loaded) : Key(row) = Key(f)
    BY <1>2, <1>6, <1>7, AcceptedIsListed
  <2>2. Key(row)[1] = t.id
    BY <1>2, <2>1 DEF Key
  <2> QED
    BY <1>8, <2>1, <2>2
<1>11. PICK c \in Contents :
          count[t.id][c] > 0 /\ \A u \in Ingested!SegmentsOf(t.id, c) : m[u] = c
  BY <1>4, <1>10 DEF Ingested!HasWholeTracks, Segments
<1>12. t.id \in Tracks /\ count[t.id][c] \in 0 .. MaxSegments /\ c # "missing"
  BY <1>10, ExporterAssumption DEF Inv, Typed, Segments, Ingested!Segments
<1>13. ASSUME NEW idx \in 0 .. count[t.id][c] - 1
       PROVE  Checksums(t, idx) = {c}
  <2> DEFINE u == <<t.id, idx>>
  <2>1. idx \in 0 .. MaxSegments - 1
    BY <1>12, RunStoreAssumption
  <2>2. u \in Segments /\ m[u] = c /\ m[u] # "missing"
    BY <1>11, <1>12, <2>1 DEF Ingested!SegmentsOf, Segments, Ingested!Segments
  <2>3. \A g \in features : Key(g) = u => g.track = t.id
    BY DEF Key
  <2> HIDE DEF u, features
  <2>4. PICK g \in features : Key(g) = u
    BY <1>9, <2>2
  <2>5. \A h \in features : Key(h) = u => h.checksum = c
    BY <1>9, <2>2
  <2>6. b.segments = {h \in features : \E track \in AcceptedTracks(snapshot, features) :
                                          track.id = h.track}
    BY DEF Bundle, features
  <2>7. g \in b.segments /\ b.segments \subseteq features
    BY <1>1, <2>3, <2>4, <2>6
  <2> HIDE DEF b
  <2>8. Checksums(t, idx) = {h.checksum : h \in {h \in b.segments : Key(h) = u}}
    BY DEF u
  <2> HIDE DEF Checksums
  <2> QED
    BY <2>4, <2>5, <2>7, <2>8
<1> QED
  BY <1>11, <1>13

(***************************************************************************)
(* For any tracks and contents, any bound on executions and crashes, and   *)
(* whatever ingestion and the writer do between the reads: a bundle that   *)
(* passes has every segment of one version of each of its tracks; what it  *)
(* may have besides is left of a longer version.                           *)
(***************************************************************************)
THEOREM PassIsWhole == Spec => []PassHasWholeTracks
<1> QED
  BY Invariance, InvMeansWhole, PTL

(***************************************************************************)
(* For any run that goes on while it is exported, and any set of cases: no *)
(* row that was read is in none of the lists of the bundle.                *)
(***************************************************************************)
THEOREM EveryRowIsAccounted == Spec => []EveryRowAccounted
<1>1. Unaccounted = {}
  BY CasesAssumption, RowsAreAccounted DEF Unaccounted
<1>2. Inv => RowsAccounted(AtHand)
  BY RowsAreAccounted DEF Inv, SnapshotIsOfRun, AtHand
<1>3. Inv => EveryRowAccounted
  BY <1>1, <1>2 DEF EveryRowAccounted
<1> QED
  BY Invariance, <1>3, PTL

(***************************************************************************)
(* For any run, any set of cases, and any order the hash may yield: the    *)
(* training splits partition the segments of the bundle by artist.         *)
(***************************************************************************)
THEOREM BundleIsPartitioned == Spec => []SplitsPartitionTheBundle
<1>1. Unpartitioned = {}
  BY CasesAssumption, SplitsArePartition DEF Unpartitioned
<1>2. Inv => \A order \in Orders(BundleOf(AtHand)) : SplitsPartition(BundleOf(AtHand), order)
  BY SplitsArePartition DEF Inv, SnapshotIsOfRun, AtHand
<1>3. Inv => SplitsPartitionTheBundle
  BY <1>1, <1>2 DEF SplitsPartitionTheBundle
<1> QED
  BY Invariance, <1>3, PTL

(***************************************************************************)
(* The output directory never holds an unfinished bundle, and after one    *)
(* stop a whole one is still there.                                        *)
(***************************************************************************)
THEOREM PublicationIsWhole == Spec => []PublishedIsWhole
<1>1. Inv => PublishedIsWhole
  BY DEF Inv, BundleIsKept, PublishedIsWhole
<1> QED
  BY Invariance, <1>1, PTL

(***************************************************************************)
(* A run detail that counts segments shows their artifacts as ready, or    *)
(* says which file of the processing state it could not parse, as long as  *)
(* one job at a time writes the run.                                       *)
(***************************************************************************)
THEOREM CountedAreReady == Spec => []CountedArtifactsAreReady
<1>1. Inv => CountedArtifactsAreReady
  BY DEF Inv, CountIsOfStored
<1> QED
  BY Invariance, <1>1, PTL

-----------------------------------------------------------------------------
\* What ingestion publishes keeps its type.
LEMMA PublishTypes ==
    ASSUME Ingested!TypeOK, Ingested!Publish
    PROVE  Ingested!TypeOK'
<1> USE DEF Ingested!TypeOK, Ingested!inputs, Ingested!Segments
<1>1. ASSUME NEW t \in Tracks, Ingested!StoreRows(t) PROVE Ingested!TypeOK'
  <2>1. manifest' \in Ingested!Manifests
    BY <1>1 DEF Ingested!StoreRows, Ingested!Manifests
  <2> QED
    BY <1>1, <2>1 DEF Ingested!StoreRows
<1>2. ASSUME NEW t \in Tracks, Ingested!AnnounceTrack(t) PROVE Ingested!TypeOK'
  BY <1>2 DEF Ingested!AnnounceTrack
<1>3. ASSUME NEW s \in Ingested!Segments, Ingested!WriteArtifact(s) PROVE Ingested!TypeOK'
  <2>1. artifact' \in [Ingested!Segments -> Contents \cup {"missing", "torn"}]
    BY <1>3 DEF Ingested!WriteArtifact
  <2> QED
    BY <1>3, <2>1 DEF Ingested!WriteArtifact
<1>4. ASSUME NEW s \in Ingested!Segments, Ingested!AnnounceSegment(s) PROVE Ingested!TypeOK'
  <2>1. announced' \in [Ingested!Segments -> Contents \cup {"none"}]
    BY <1>4 DEF Ingested!AnnounceSegment
  <2> QED
    BY <1>4, <2>1 DEF Ingested!AnnounceSegment
<1>5. CASE Ingested!TruncateManifest
  BY <1>5 DEF Ingested!TruncateManifest
<1> QED
  BY <1>1, <1>2, <1>3, <1>4, <1>5 DEF Ingested!Publish

\* A total counts tracks.
LEMMA TotalsCountTracks ==
    ASSUME NEW T \in SUBSET Tracks
    PROVE  Cardinality(T) \in Totals
<1>1. IsFiniteSet(T) /\ Cardinality(T) <= Cardinality(Tracks)
  BY RunStoreAssumption, FS_Subset
<1>2. Cardinality(T) \in Nat /\ Cardinality(Tracks) \in Nat
  BY <1>1, RunStoreAssumption, FS_CardinalityType
<1> QED
  BY <1>1, <1>2 DEF Totals

\* The store's variables keep their types.
LEMMA StoreTypes ==
    ASSUME RunStoreTypeOK, StoreNext
    PROVE  RunStoreTypeOK'
<1> USE DEF RunStoreTypeOK
<1>0. ASSUME UNCHANGED <<inputs, run>> PROVE Ingested!TypeOK'
  BY <1>0 DEF Ingested!TypeOK, inputs, run, Ingested!Manifests, Ingested!Segments
<1>1. CASE Ingest
  BY <1>1, PublishTypes DEF Ingest, database
<1>2. ASSUME NEW t \in Tracks, PersistTrack(t) PROVE RunStoreTypeOK'
  <2>1. status' \in [Tracks -> {"none", "validated", "rejected"}]
    BY <1>2 DEF PersistTrack, Ingested!TypeOK
  <2> QED
    BY <1>0, <1>2, <2>1 DEF PersistTrack
<1>3. ASSUME NEW s \in Segments, PersistFeature(s) PROVE RunStoreTypeOK'
  <2>1. feature' \in [Segments -> Contents \cup {"none"}]
    BY <1>3 DEF PersistFeature, Ingested!TypeOK, Segments
  <2> QED
    BY <1>0, <1>3, <2>1 DEF PersistFeature
<1>4. CASE PersistTracksTotal
  <2>1. tracksTotal' \in Totals
    BY <1>4, TotalsCountTracks DEF PersistTracksTotal, Completed
  <2> QED
    BY <1>0, <1>4, <2>1 DEF PersistTracksTotal
<1>5. CASE PersistFailures
  <2>1. PICK done \in Completed : failures' = Cardinality({t \in done : metadata[t] = "rejected"})
    BY <1>5 DEF PersistFailures
  <2>2. {t \in done : metadata[t] = "rejected"} \in SUBSET Tracks
    BY DEF Completed
  <2>3. failures' \in Totals
    BY <2>1, <2>2, TotalsCountTracks
  <2> QED
    BY <1>0, <1>5, <2>3 DEF PersistFailures
<1>6. CASE PersistError
  BY <1>0, <1>6 DEF PersistError
<1>7. CASE SaveState
  BY <1>0, <1>7 DEF SaveState, database
<1> QED
  BY <1>1, <1>2, <1>3, <1>4, <1>5, <1>6, <1>7 DEF StoreNext

\* The exporter's variables keep their types.
LEMMA ExportTypes ==
    ASSUME ExportTypeOK, ExportStep
    PROVE  ExportTypeOK'
<1> USE ExporterAssumption DEF ExportTypeOK, ExportStages, files, reading
<1>1. CASE StartExport
  BY <1>1 DEF StartExport
<1>2. CASE QueryRunSummary
  BY <1>2 DEF QueryRunSummary, ExportEnds
<1>3. CASE QueryTracks \/ QueryFeatures \/ LoadManifest
  BY <1>3 DEF QueryTracks, QueryFeatures, LoadManifest
<1>4. CASE CheckArtifact
  BY <1>4 DEF CheckArtifact
<1>5. CASE ClearStaging \/ WriteFiles \/ WriteBuildManifest
  BY <1>5 DEF ClearStaging, WriteFiles, WriteBuildManifest
<1>6. CASE BeginRemoval \/ FinishRemoval
  BY <1>6 DEF BeginRemoval, FinishRemoval
<1>7. CASE PublishBundle
  BY <1>7 DEF PublishBundle, ExportEnds
<1>8. CASE ExportCrash
  BY <1>8 DEF ExportCrash, ExportEnds
<1> QED
  BY <1>1, <1>2, <1>3, <1>4, <1>5, <1>6, <1>7, <1>8 DEF ExportStep

\* The rows of the lists are tracks and runs.
LEMMA RowsAreKnown ==
    ASSUME ReviewTypeOK, NEW list \in Lists
    PROVE  DOMAIN RanksOf(list) \subseteq Tracks \cup RunIds
<1>1. CASE list = "tracks"
  BY <1>1 DEF RanksOf, TrackRanks, StoredTracks
<1>2. CASE list = "runs"
  BY <1>2 DEF RanksOf, ReviewTypeOK
<1>3. CASE list = "pinned"
  BY <1>3 DEF RanksOf, PinnedRanks, ReviewTypeOK
<1> QED
  BY <1>1, <1>2, <1>3 DEF Lists

\* The review service's variables keep their types.
LEMMA ReviewTypes ==
    ASSUME ReviewTypeOK, ReviewStep \/ ListRunsStep
    PROVE  ReviewTypeOK'
<1> USE ReviewAssumption DEF ReviewTypeOK, browsing
<1>1. CASE \E list \in Lists : Browse(list)
  BY <1>1 DEF Browse, Refuse, Lists
<1>2. ASSUME NEW list \in Lists, ShowPage(list) PROVE ReviewTypeOK'
  <2>1. Page(RanksOf(list), asked.limit, asked.offset).items \subseteq DOMAIN RanksOf(list)
    BY DEF Page, Items
  <2>2. /\ shown' = shown \cup Page(RanksOf(list), asked.limit, asked.offset).items
        /\ due' = IF asked.offset = 0 THEN DOMAIN RanksOf(list) ELSE due
        /\ rpc' \in {rpc, "idle"}
        /\ UNCHANGED <<recency, requests>>
    BY <1>2 DEF ShowPage
  <2> QED
    BY <2>1, <2>2, RowsAreKnown
<1>3. CASE AskRun \/ AskTrack \/ AskMedia
  BY <1>3 DEF AskRun, AskTrack, AskMedia, Ask, Refuse
<1>4. CASE QuerySummary \/ QueryOutcomes \/ CheckManifest \/ ReadState
  BY <1>4 DEF QuerySummary, QueryOutcomes, CheckManifest, ReadState, Read, Answer
<1>5. CASE QueryTrack \/ QuerySegments
  BY <1>5 DEF QueryTrack, QuerySegments, Read, Answer
<1>6. CASE LookupSegment \/ CheckExists \/ CompareChecksum \/ SendSegment
  BY <1>6 DEF LookupSegment, CheckExists, CompareChecksum, SendSegment, Read, Answer
<1>7. ASSUME NEW r \in RunIds, RunActive(r) PROVE ReviewTypeOK'
  BY <1>7 DEF RunActive
<1> QED
  BY <1>1, <1>2, <1>3, <1>4, <1>5, <1>6, <1>7 DEF ReviewStep, ListRunsStep, Lists

(***************************************************************************)
(* The types of a run and of its readers, for any runs and bounds: a total *)
(* counts no more tracks than there are, a request is at a step of its     *)
(* route, an execution at a stage of the export.                           *)
(***************************************************************************)
THEOREM TypeCorrect == Spec => []TypeOK
<1>1. Init => TypeOK
  <2> SUFFICES ASSUME Init PROVE TypeOK
    OBVIOUS
  <2>1. RunStoreTypeOK
    BY DEF Init, StoreInit, RunStoreTypeOK, Ingested!Init, Ingested!TypeOK, Ingested!Manifests,
           Totals, Segments, Ingested!Segments
  <2>2. ExportTypeOK
    <3>1. epc = "down" /\ staging = "absent" /\ output = "absent" /\ published = FALSE
      BY DEF Init, ExportInit
    <3>2. exports = 0 /\ crashes = 0
      BY DEF Init, ExportInit
    <3>3. exports \in 0 .. MaxExports /\ crashes \in 0 .. MaxCrashes
      BY <3>2, ExporterAssumption
    <3>4. published \in BOOLEAN
      BY <3>1, Zenon
    <3> QED
      BY <3>1, <3>3, <3>4 DEF ExportTypeOK, ExportStages
  <2>3. ReviewTypeOK
    BY ReviewAssumption DEF Init, ReviewInit, ReviewTypeOK
  <2> QED
    BY <2>1, <2>2, <2>3 DEF TypeOK
<1>2. TypeOK /\ [Next]_vars => TypeOK'
  <2> SUFFICES ASSUME TypeOK, [Next]_vars PROVE TypeOK'
    OBVIOUS
  <2>1. UNCHANGED storeVars => RunStoreTypeOK'
    BY DEF TypeOK, RunStoreTypeOK, Ingested!TypeOK, Ingested!Manifests, Ingested!Segments,
           Segments, storeVars, inputs, run, database
  <2>2. UNCHANGED exportVars => ExportTypeOK'
    BY DEF TypeOK, ExportTypeOK, exportVars, files
  <2>3. UNCHANGED reviewVars => ReviewTypeOK'
    BY DEF TypeOK, ReviewTypeOK, reviewVars, browsing
  <2> QED
    BY <2>1, <2>2, <2>3, StoreTypes, ExportTypes, ReviewTypes DEF Next, TypeOK, vars
<1> QED
  BY <1>1, <1>2, PTL DEF Spec

-----------------------------------------------------------------------------
\* The answers of the review service.

\* What is announced has an artifact.
AnnouncedIsStored == \A s \in Segments : announced[s] # "none" => artifact[s] # "missing"

\* The header of a track is read before its segments, and these are only added to.
HeaderIsBehind ==
    /\ rpc = "segments" => seen.persisted \in Nat /\ seen.persisted <= PersistedOf(asked.track)
    /\ HeaderNeverAhead

\* A segment that has a row has an artifact, from the first look at it to the last.
MediaIsStored ==
    /\ rpc \in {"media", "exists", "checksum", "send"} => asked.segment \in Segments
    /\ rpc \in {"exists", "checksum", "send"} => artifact[asked.segment] # "missing"
    /\ ListedIsFound

\* The due rows that have not been shown are at places still to come.
Ahead(ranks, rows, offset) ==
    \A r \in rows : r \in DOMAIN ranks /\ (r \in shown \/ Place(ranks, r) > offset)

PagesGoOn ==
    /\ \A r, q \in DOMAIN recency : recency[r] = recency[q] => r = q
    /\ rpc \in Lists =>
          /\ asked \in [kind : {"page"}, limit : Nat \ {0}, offset : Nat]
          /\ answer.kind = "none"
          /\ asked.offset > 0 => Ahead(RanksOf(rpc), due, asked.offset)
    /\ PagingMissesNothing

AnswersInv == AnnouncedIsStored /\ HeaderIsBehind /\ MediaIsStored /\ PagesGoOn

\* What the run does next to a request.
RowsAreAdded ==
    /\ AnnouncedIsStored'
    /\ StoredFeatures \subseteq StoredFeatures'
    /\ StoredTracks \subseteq StoredTracks'
    /\ \A s \in Segments : artifact[s] # "missing" => artifact'[s] # "missing"

\* A run has finitely many segments.
LEMMA SegmentsAreFinite == IsFiniteSet(Segments)
<1>1. IsFiniteSet(0 .. MaxSegments - 1)
  BY RunStoreAssumption, FS_Interval
<1> QED
  BY <1>1, RunStoreAssumption, FS_Product DEF Segments, Ingested!Segments

\* The segments of a track that are stored are counted.
LEMMA CountedSegments ==
    ASSUME NEW t
    PROVE  PersistedOf(t) \in Nat /\ PersistedOf(t)' \in Nat
<1>1. ASSUME NEW S \in SUBSET Segments PROVE Cardinality(S) \in Nat
  BY SegmentsAreFinite, FS_Subset, FS_CardinalityType
<1>2. {s \in StoredFeatures : s[1] = t} \in SUBSET Segments
  BY DEF StoredFeatures
<1>3. {s \in StoredFeatures' : s[1] = t} \in SUBSET Segments
  BY DEF StoredFeatures, Segments, Ingested!Segments
<1> QED
  BY <1>1, <1>2, <1>3 DEF PersistedOf

\* The store only adds tracks, segments and artifacts.
LEMMA StoreAddsRows ==
    ASSUME RunStoreTypeOK, AnnouncedIsStored, StoreNext
    PROVE  RowsAreAdded
<1> USE DEF AnnouncedIsStored, RunStoreTypeOK, Ingested!TypeOK, Segments
<1>1. CASE Ingest
  <2>1. UNCHANGED <<feature, status>> /\ Ingested!Publish
    BY <1>1 DEF Ingest, database
  <2>2. StoredFeatures' = StoredFeatures /\ StoredTracks' = StoredTracks
    BY <2>1 DEF StoredFeatures, StoredTracks, Ingested!Segments
  <2>3. ASSUME NEW s \in Ingested!Segments, Ingested!WriteArtifact(s)
        PROVE  RowsAreAdded
    <3>1. PICK content \in Contents \cup {"torn"} : artifact' = [artifact EXCEPT ![s] = content]
      BY <2>3 DEF Ingested!WriteArtifact
    <3>2. content # "missing" /\ announced' = announced
      BY <2>3, ExporterAssumption DEF Ingested!WriteArtifact
    <3>3. \A r \in Ingested!Segments : artifact'[r] = IF r = s THEN content ELSE artifact[r]
      BY <3>1
    <3> QED
      BY <2>2, <3>2, <3>3 DEF RowsAreAdded, Ingested!Segments
  <2>4. ASSUME NEW s \in Ingested!Segments, Ingested!AnnounceSegment(s)
        PROVE  RowsAreAdded
    <3>1. PICK c \in Contents :
             /\ s \in Ingested!SegmentsOf(s[1], c) /\ Ingested!Stored(s[1], c)
             /\ announced' = [announced EXCEPT ![s] = c] /\ artifact' = artifact
      BY <2>4 DEF Ingested!AnnounceSegment
    <3>2. artifact[s] # "missing"
      BY <3>1, ExporterAssumption DEF Ingested!Stored
    <3>3. \A r \in Ingested!Segments : announced'[r] = IF r = s THEN c ELSE announced[r]
      BY <3>1
    <3> QED
      BY <2>2, <3>1, <3>2, <3>3 DEF RowsAreAdded, Ingested!Segments
  <2>5. CASE \/ \E t \in Tracks : Ingested!StoreRows(t) \/ Ingested!AnnounceTrack(t)
             \/ Ingested!TruncateManifest
    <3>1. artifact' = artifact /\ announced' = announced
      BY <2>5 DEF Ingested!StoreRows, Ingested!AnnounceTrack, Ingested!TruncateManifest
    <3> QED
      BY <2>2, <3>1 DEF RowsAreAdded, Ingested!Segments
  <2> QED
    BY <2>1, <2>3, <2>4, <2>5 DEF Ingested!Publish
<1>2. CASE ~Ingest
  <2>1. UNCHANGED <<artifact, announced>>
    BY <1>2 DEF StoreNext, PersistTrack, PersistFeature, PersistTracksTotal, PersistFailures,
                PersistError, SaveState, run
  <2>2. StoredFeatures \subseteq StoredFeatures'
    <3>1. CASE UNCHANGED feature
      BY <3>1 DEF StoredFeatures, Ingested!Segments
    <3>2. ASSUME NEW s \in Segments, PersistFeature(s)
          PROVE  StoredFeatures \subseteq StoredFeatures'
      BY <3>2 DEF PersistFeature, StoredFeatures, Ingested!Segments
    <3> QED
      BY <1>2, <3>1, <3>2 DEF StoreNext, PersistTrack, PersistTracksTotal, PersistFailures,
                              PersistError, SaveState, database
  <2>3. StoredTracks \subseteq StoredTracks'
    <3>1. CASE UNCHANGED status
      BY <3>1 DEF StoredTracks
    <3>2. ASSUME NEW t \in Tracks, PersistTrack(t) PROVE StoredTracks \subseteq StoredTracks'
      BY <3>2 DEF PersistTrack, StoredTracks
    <3> QED
      BY <1>2, <3>1, <3>2 DEF StoreNext, PersistFeature, PersistTracksTotal, PersistFailures,
                              PersistError, SaveState, database
  <2> QED
    BY <2>1, <2>2, <2>3 DEF RowsAreAdded, Ingested!Segments
<1> QED
  BY <1>1, <1>2

\* The lists are in an order, and their rows are places from 1 on.
LEMMA ListsAreOrdered ==
    ASSUME TypeOK, PagesGoOn, NEW list \in Lists
    PROVE  Ordered(RanksOf(list))
<1>1. CASE list = "tracks"
  <2>1. RanksOf(list) = TrackRanks /\ DOMAIN TrackRanks \in SUBSET Tracks
    BY <1>1 DEF RanksOf, TrackRanks, StoredTracks
  <2>2. \A t \in DOMAIN TrackRanks : TrackRanks[t] = t
    BY DEF TrackRanks
  <2>3. IsFiniteSet(DOMAIN TrackRanks)
    BY <2>1, RunStoreAssumption, FS_Subset
  <2> QED
    BY <2>1, <2>2, <2>3, RunStoreAssumption DEF Ordered
<1>2. IsFiniteSet(DOMAIN recency)
  BY ReviewAssumption, FS_Subset DEF TypeOK, ReviewTypeOK
<1>3. CASE list = "runs"
  BY <1>2, <1>3 DEF RanksOf, Ordered, TypeOK, ReviewTypeOK, PagesGoOn
<1>4. CASE list = "pinned"
  <2>1. /\ RanksOf(list) = PinnedRanks
        /\ DOMAIN PinnedRanks = Range(Pinned) \cap DOMAIN recency
    BY <1>4 DEF RanksOf, PinnedRanks
  <2>2. IsFiniteSet(DOMAIN PinnedRanks)
    BY <1>2, <2>1, FS_Subset
  <2>3. ASSUME NEW r \in DOMAIN PinnedRanks
        PROVE  PinnedRanks[r] \in DOMAIN Pinned /\ Pinned[PinnedRanks[r]] = r
    <3>1. PinnedRanks[r] = CHOOSE i \in DOMAIN Pinned : Pinned[i] = r
      BY DEF PinnedRanks
    <3>2. \E i \in DOMAIN Pinned : Pinned[i] = r
      BY <2>1 DEF Range
    <3> QED
      BY <3>1, <3>2
  <2> QED
    BY <2>1, <2>2, <2>3, ReviewAssumption DEF Ordered
<1> QED
  BY <1>1, <1>3, <1>4 DEF Lists

\* Rows that are added, or move to the front, push none of the due ones back.
LEMMA AheadStays ==
    ASSUME NEW ranks, NEW later, Ordered(ranks), Ordered(later), DOMAIN ranks \subseteq DOMAIN later,
           NEW rows, NEW offset \in Nat, Ahead(ranks, rows, offset),
           NEW kept, kept \subseteq rows,
           \A row \in kept, r \in DOMAIN ranks :
               row \in DOMAIN ranks /\ ranks[r] <= ranks[row] => later[r] <= later[row]
    PROVE  Ahead(later, kept, offset)
<1> SUFFICES ASSUME NEW row \in kept, row \notin shown
             PROVE  row \in DOMAIN later /\ Place(later, row) > offset
  BY DEF Ahead
<1>1. row \in DOMAIN ranks /\ Place(ranks, row) > offset
  BY DEF Ahead
<1>2. Place(ranks, row) <= Place(later, row)
  BY <1>1, PlacesGrow
<1> QED
  BY <1>1, <1>2, PlaceType

\* More rows never make a list that is browsed skip a due one.
LEMMA StoreKeepsAnswers ==
    ASSUME TypeOK, TypeOK', AnswersInv, RowsAreAdded, UNCHANGED reviewVars
    PROVE  AnswersInv'
<1> USE DEF AnswersInv, reviewVars, browsing
<1>1. HeaderIsBehind'
  <2>1. HeaderNeverAhead'
    BY DEF HeaderIsBehind, HeaderNeverAhead
  <2>2. PersistedOf(asked.track) <= PersistedOf(asked.track)'
    <3> DEFINE before == {s \in StoredFeatures : s[1] = asked.track}
               after == {s \in StoredFeatures' : s[1] = asked.track}
    <3>1. before \in SUBSET after /\ after \in SUBSET Segments
      BY DEF RowsAreAdded, StoredFeatures, Segments, Ingested!Segments
    <3>2. IsFiniteSet(after)
      BY <3>1, SegmentsAreFinite, FS_Subset
    <3>3. Cardinality(before) <= Cardinality(after)
      BY <3>1, <3>2, FS_Subset
    <3> QED
      BY <3>3 DEF PersistedOf
  <2>3. PersistedOf(asked.track) \in Nat /\ PersistedOf(asked.track)' \in Nat
    BY CountedSegments
  <2> QED
    BY <2>1, <2>2, <2>3 DEF HeaderIsBehind
<1>2. MediaIsStored'
  BY DEF MediaIsStored, ListedIsFound, RowsAreAdded, Segments, Ingested!Segments
<1>3. PagesGoOn'
  <2>1. ASSUME rpc \in Lists, asked.offset > 0 PROVE Ahead(RanksOf(rpc), due, asked.offset)'
    <3>1. Ahead(RanksOf(rpc), due, asked.offset) /\ asked.offset \in Nat
      BY <2>1 DEF PagesGoOn
    <3>2. Ordered(RanksOf(rpc))
      BY <2>1, ListsAreOrdered
    <3>3. CASE rpc = "tracks"
      <4> DEFINE later == [t \in StoredTracks' |-> t]
      <4>1. RanksOf(rpc) = TrackRanks /\ RanksOf(rpc)' = later
        BY <3>3 DEF RanksOf, TrackRanks
      <4>2. DOMAIN later \in SUBSET Tracks /\ \A t \in DOMAIN later : later[t] = t
        BY DEF StoredTracks
      <4>3. IsFiniteSet(DOMAIN later)
        BY <4>2, RunStoreAssumption, FS_Subset
      <4>4. Ordered(later)
        BY <4>2, <4>3, RunStoreAssumption DEF Ordered
      <4>5. DOMAIN TrackRanks \subseteq DOMAIN later /\ \A t \in DOMAIN TrackRanks : TrackRanks[t] = t
        BY DEF RowsAreAdded, TrackRanks
      <4> HIDE DEF later
      <4>6. \A t \in DOMAIN TrackRanks : later[t] = t
        BY <4>2, <4>5
      <4>7. Ahead(later, due, asked.offset)
        <5>1. \A row \in due, r \in DOMAIN TrackRanks :
                 row \in DOMAIN TrackRanks /\ TrackRanks[r] <= TrackRanks[row]
                    => later[r] <= later[row]
          BY <4>5, <4>6
        <5>2. Ahead(TrackRanks, due, asked.offset) /\ Ordered(TrackRanks)
          BY <3>1, <3>2, <4>1
        <5> QED
          BY <3>1, <4>4, <4>5, <5>1, <5>2, AheadStays
      <4> QED
        BY <4>1, <4>7 DEF Ahead, Place
    <3>4. CASE rpc # "tracks"
      <4>1. RanksOf(rpc)' = RanksOf(rpc)
        BY <2>1, <3>4 DEF RanksOf, PinnedRanks, Lists
      <4> QED
        BY <3>1, <4>1 DEF Ahead, Place
    <3> QED
      BY <3>3, <3>4
  <2> QED
    BY <2>1 DEF PagesGoOn, PagingMissesNothing
<1> QED
  BY <1>1, <1>2, <1>3 DEF RowsAreAdded

\* A request reads the header of a track first, and its segments with their total after it.
LEMMA HeaderStep ==
    ASSUME HeaderIsBehind, ReviewStep \/ ListRunsStep, UNCHANGED storeVars
    PROVE  HeaderIsBehind'
<1> USE DEF HeaderIsBehind, HeaderNeverAhead, None
<1>1. \A t : PersistedOf(t)' = PersistedOf(t)
  BY DEF PersistedOf, StoredFeatures, storeVars, database, Segments, Ingested!Segments
<1>2. CASE QueryTrack
  BY <1>1, <1>2, CountedSegments DEF QueryTrack, Read, Answer
<1>3. CASE QuerySegments
  <2> DEFINE page == Page(SegmentRanks(asked.track), asked.limit, asked.offset)
  <2>1. /\ rpc' = "idle" /\ answer'.persisted = seen.persisted /\ answer'.page = page
        /\ seen.persisted <= PersistedOf(asked.track)
    BY <1>3 DEF QuerySegments, Answer
  <2>2. page.items # {} => page.total = PersistedOf(asked.track)
    BY DEF Page, SegmentRanks, PersistedOf
  <2> HIDE DEF page
  <2> QED
    BY <2>1, <2>2
<1>4. CASE \/ AskRun \/ AskTrack \/ AskMedia \/ \E list \in Lists : Browse(list) \/ ShowPage(list)
  BY <1>4 DEF AskRun, AskTrack, AskMedia, Ask, Browse, Refuse, ShowPage, Lists
<1>5. CASE QuerySummary \/ QueryOutcomes \/ CheckManifest \/ ReadState
  BY <1>5 DEF QuerySummary, QueryOutcomes, CheckManifest, ReadState, Read, Answer
<1>6. CASE LookupSegment \/ CheckExists \/ CompareChecksum \/ SendSegment
  BY <1>6 DEF LookupSegment, CheckExists, CompareChecksum, SendSegment, Read, Answer
<1>7. CASE \E r \in RunIds : RunActive(r)
  BY <1>1, <1>7 DEF RunActive
<1> QED
  BY <1>2, <1>3, <1>4, <1>5, <1>6, <1>7 DEF ReviewStep, ListRunsStep, Lists

\* A request looks at the artifact of a segment that has a row.
LEMMA MediaStep ==
    ASSUME AnnouncedIsStored, StoredIsListed, MediaIsStored, ReviewStep \/ ListRunsStep,
           UNCHANGED storeVars
    PROVE  MediaIsStored'
<1> USE DEF MediaIsStored, ListedIsFound, None
<1>1. Segments' = Segments /\ artifact' = artifact
  BY DEF storeVars, run, Segments, Ingested!Segments
<1>2. \A s \in Segments : feature[s] # "none" => artifact[s] # "missing"
  BY DEF AnnouncedIsStored, StoredIsListed
<1>3. CASE QuerySegments
  <2> DEFINE page == Page(SegmentRanks(asked.track), asked.limit, asked.offset)
  <2>1. /\ rpc' = "idle" /\ answer'.kind = "track" /\ answer'.page = page
        /\ answer'.exists = {s \in page.items : artifact[s] # "missing"}
    BY <1>3 DEF QuerySegments, Answer
  <2>2. page.items \subseteq StoredFeatures
    BY DEF Page, Items, SegmentRanks
  <2>3. \A s \in page.items : artifact[s] # "missing"
    BY <1>2, <2>2 DEF StoredFeatures
  <2> HIDE DEF page
  <2> QED
    BY <2>1, <2>3
<1>4. CASE AskMedia
  BY <1>1, <1>4 DEF AskMedia, Ask
<1>5. CASE LookupSegment
  BY <1>1, <1>2, <1>5 DEF LookupSegment, Read, Answer
<1>6. CASE CheckExists
  BY <1>1, <1>6 DEF CheckExists, Read, Answer
<1>7. CASE CompareChecksum
  BY <1>1, <1>7 DEF CompareChecksum, Read, Answer
<1>8. CASE SendSegment
  BY <1>1, <1>8 DEF SendSegment, Answer
<1>9. CASE AskRun \/ AskTrack \/ \E list \in Lists : Browse(list)
  BY <1>1, <1>9 DEF AskRun, AskTrack, Ask, Browse, Refuse, Lists
<1>10. CASE \E list \in Lists : ShowPage(list)
  BY <1>1, <1>10 DEF ShowPage, Lists
<1>11. CASE QuerySummary \/ QueryOutcomes \/ CheckManifest \/ ReadState \/ QueryTrack
  BY <1>1, <1>11 DEF QuerySummary, QueryOutcomes, CheckManifest, ReadState, QueryTrack, Read, Answer
<1>12. CASE \E r \in RunIds : RunActive(r)
  BY <1>1, <1>12 DEF RunActive
<1> QED
  BY <1>3, <1>4, <1>5, <1>6, <1>7, <1>8, <1>9, <1>10, <1>11, <1>12
     DEF ReviewStep, ListRunsStep, Lists

\* A page shows what is due at its places, and the last one what is left.
LEMMA PageShowsDue ==
    ASSUME TypeOK, PagesGoOn, NEW list \in Lists, ShowPage(list), UNCHANGED storeVars
    PROVE  PagesGoOn'
<1> DEFINE ranks == RanksOf(list)
           page == Page(ranks, asked.limit, asked.offset)
<1>1. /\ rpc = list /\ recency' = recency
      /\ shown' = shown \cup page.items
      /\ due' = IF asked.offset = 0 THEN DOMAIN ranks ELSE due
      /\ IF page.has_more
         THEN /\ asked' = [asked EXCEPT !.offset = @ + asked.limit]
              /\ rpc' = rpc /\ answer' = answer
         ELSE rpc' = "idle" /\ answer' = [kind |-> "list_end"]
  BY DEF ShowPage
<1>2. /\ asked \in [kind : {"page"}, limit : Nat \ {0}, offset : Nat]
      /\ answer.kind = "none"
      /\ asked.offset > 0 => Ahead(ranks, due, asked.offset)
  BY <1>1 DEF PagesGoOn
<1>3. Ordered(ranks)
  BY ListsAreOrdered
<1>4. \A r \in due' : r \in DOMAIN ranks /\ (r \in shown \/ Place(ranks, r) > asked.offset)
  <2>1. CASE asked.offset = 0
    BY <1>1, <1>3, <2>1, PlaceType
  <2>2. CASE asked.offset # 0
    BY <1>1, <1>2, <2>2 DEF Ahead
  <2> QED
    BY <2>1, <2>2
<1>5. RanksOf(list)' = ranks
  BY <1>1 DEF RanksOf, TrackRanks, PinnedRanks, StoredTracks, storeVars, database, Lists
<1>6. CASE page.has_more
  <2> DEFINE further == asked.offset + asked.limit
  <2>1. /\ asked' \in [kind : {"page"}, limit : Nat \ {0}, offset : Nat]
        /\ asked'.offset = further /\ further \in Nat
    BY <1>1, <1>2, <1>6
  <2>2. \A r \in due' : r \in DOMAIN ranks /\ (r \in shown' \/ Place(ranks, r) > further)
    BY <1>1, <1>2, <1>3, <1>4, NextPage
  <2> HIDE DEF ranks, page, further
  <2>3. Ahead(RanksOf(rpc), due, asked.offset)'
    BY <1>1, <1>5, <1>6, <2>1, <2>2 DEF Ahead, Place
  <2> QED
    BY <1>1, <1>2, <1>6, <2>1, <2>3 DEF PagesGoOn, PagingMissesNothing
<1>7. CASE ~page.has_more
  <2>1. due' \subseteq shown'
    BY <1>1, <1>2, <1>3, <1>4, <1>7, LastPage
  <2> QED
    BY <1>1, <1>7, <2>1 DEF PagesGoOn, PagingMissesNothing, Lists
<1> QED
  BY <1>6, <1>7

\* A run that has activity comes first and moves those it passes on by one.
LEMMA ActivityMovesRuns ==
    ASSUME TypeOK, PagesGoOn, NEW r \in RunIds, RunActive(r)
    PROVE  /\ \A p, q \in DOMAIN recency' : recency'[p] = recency'[q] => p = q
           /\ DOMAIN recency \subseteq DOMAIN recency'
           /\ \A p, q \in DOMAIN recency :
                 q # r /\ recency[p] <= recency[q] => recency'[p] <= recency'[q]
<1> DEFINE moved(q) == IF q = r THEN 1
                       ELSE IF r \in DOMAIN recency /\ recency[q] > recency[r] THEN recency[q]
                       ELSE recency[q] + 1
<1>1. recency' = [q \in DOMAIN recency \cup {r} |-> moved(q)]
  BY DEF RunActive
<1>2. /\ DOMAIN recency' = DOMAIN recency \cup {r}
      /\ \A q \in DOMAIN recency' : recency'[q] = moved(q)
  BY <1>1
<1>3. /\ \A q \in DOMAIN recency : recency[q] \in Nat \ {0}
      /\ \A p, q \in DOMAIN recency : recency[p] = recency[q] => p = q
  BY DEF TypeOK, ReviewTypeOK, PagesGoOn
<1>4. ASSUME NEW p \in DOMAIN recency', NEW q \in DOMAIN recency', moved(p) = moved(q)
      PROVE  p = q
  BY <1>2, <1>3, <1>4
<1>5. ASSUME NEW p \in DOMAIN recency, NEW q \in DOMAIN recency, q # r, recency[p] <= recency[q]
      PROVE  moved(p) <= moved(q)
  BY <1>3, <1>5
<1> QED
  BY <1>2, <1>4, <1>5

\* A run that becomes active moves up in the list and is no longer due.
LEMMA ActivityKeepsPages ==
    ASSUME TypeOK, TypeOK', PagesGoOn, NEW r \in RunIds, RunActive(r), UNCHANGED storeVars
    PROVE  PagesGoOn'
<1>1. /\ UNCHANGED <<rpc, asked, answer, shown>>
      /\ due' = IF rpc = "runs" THEN due \ {r} ELSE due
  BY DEF RunActive
<1>2. PagingMissesNothing'
  BY <1>1 DEF PagesGoOn, PagingMissesNothing
<1>3. ASSUME rpc \in Lists, asked.offset > 0
      PROVE  Ahead(RanksOf(rpc), due, asked.offset)'
  <2> DEFINE ranks == RanksOf(rpc)
             later == RanksOf(rpc)'
  <2>1. Ahead(ranks, due, asked.offset) /\ asked.offset \in Nat
    BY <1>3 DEF PagesGoOn
  <2>2. Ordered(ranks)
    BY <1>3, ListsAreOrdered
  <2>3. CASE rpc = "tracks"
    <3>1. later = ranks /\ due' = due
      BY <1>1, <2>3 DEF RanksOf, TrackRanks, StoredTracks, storeVars, database
    <3> QED
      BY <1>1, <2>1, <3>1 DEF Ahead, Place
  <2>4. CASE rpc = "runs"
    <3>1. ranks = recency /\ later = recency' /\ due' = due \ {r}
      BY <1>1, <2>4 DEF RanksOf
    <3>2. IsFiniteSet(DOMAIN recency')
      BY ReviewAssumption, FS_Subset DEF TypeOK, ReviewTypeOK
    <3>3. Ordered(recency')
      BY <3>2, ActivityMovesRuns DEF Ordered, TypeOK, ReviewTypeOK
    <3>4. \A row \in due \ {r}, q \in DOMAIN recency :
             row \in DOMAIN recency /\ recency[q] <= recency[row] => recency'[q] <= recency'[row]
      BY ActivityMovesRuns
    <3>5. Ahead(recency', due \ {r}, asked.offset)
      BY <2>1, <2>2, <3>1, <3>3, <3>4, AheadStays, ActivityMovesRuns
    <3> QED
      BY <1>1, <3>1, <3>5 DEF Ahead, Place
  <2>5. CASE rpc = "pinned"
    <3>1. /\ ranks = PinnedRanks /\ later = PinnedRanks' /\ due' = due
      BY <1>1, <2>5 DEF RanksOf
    <3>2. /\ DOMAIN PinnedRanks \subseteq DOMAIN PinnedRanks'
          /\ \A q \in DOMAIN PinnedRanks : PinnedRanks'[q] = PinnedRanks[q]
      BY ActivityMovesRuns DEF PinnedRanks
    <3>3. Ordered(PinnedRanks')
      <4>1. IsFiniteSet(DOMAIN recency')
        BY ReviewAssumption, FS_Subset DEF TypeOK, ReviewTypeOK
      <4>2. DOMAIN PinnedRanks' \in SUBSET DOMAIN recency'
        BY DEF PinnedRanks
      <4>3. IsFiniteSet(DOMAIN PinnedRanks')
        BY <4>1, <4>2, FS_Subset
      <4>4. ASSUME NEW q \in DOMAIN PinnedRanks'
            PROVE  PinnedRanks'[q] \in DOMAIN Pinned /\ Pinned[PinnedRanks'[q]] = q
        <5>1. PinnedRanks'[q] = CHOOSE i \in DOMAIN Pinned : Pinned[i] = q
          BY DEF PinnedRanks
        <5>2. \E i \in DOMAIN Pinned : Pinned[i] = q
          BY DEF PinnedRanks, Range
        <5> QED
          BY <5>1, <5>2
      <4> QED
        BY <4>3, <4>4, ReviewAssumption DEF Ordered
    <3>4. \A row \in due, q \in DOMAIN PinnedRanks :
             row \in DOMAIN PinnedRanks /\ PinnedRanks[q] <= PinnedRanks[row]
               => PinnedRanks'[q] <= PinnedRanks'[row]
      BY <3>2
    <3>5. Ahead(PinnedRanks', due, asked.offset)
      BY <2>1, <2>2, <3>1, <3>2, <3>3, <3>4, AheadStays
    <3> QED
      BY <1>1, <3>1, <3>5 DEF Ahead, Place
  <2> QED
    BY <1>3, <2>3, <2>4, <2>5 DEF Lists
<1> QED
  BY <1>1, <1>2, <1>3, ActivityMovesRuns DEF PagesGoOn

\* A request for a list starts with the first page, a limit and nothing due.
LEMMA PagesStep ==
    ASSUME TypeOK, TypeOK', PagesGoOn, ReviewStep \/ ListRunsStep, UNCHANGED storeVars
    PROVE  PagesGoOn'
<1>1. CASE \E list \in Lists : ShowPage(list)
  BY <1>1, PageShowsDue
<1>2. CASE \E r \in RunIds : RunActive(r)
  BY <1>2, ActivityKeepsPages
<1> USE DEF PagesGoOn, PagingMissesNothing, None, Lists
<1>3. ASSUME NEW list \in Lists, Browse(list) PROVE PagesGoOn'
  <2>1. PICK limit \in Requested :
           IF LimitAllowed(limit)
           THEN /\ asked' = [kind |-> "page", limit |-> PageLimit(limit), offset |-> 0]
                /\ answer' = None /\ recency' = recency
           ELSE rpc' = "idle" /\ answer' = [kind |-> "bad_request"] /\ recency' = recency
    BY <1>3 DEF Browse, Refuse
  <2>2. LimitAllowed(limit) => PageLimit(limit) \in Nat \ {0}
    BY ReviewAssumption DEF LimitAllowed, PageLimit
  <2>3. CASE LimitAllowed(limit)
    BY <2>1, <2>2, <2>3
  <2>4. CASE ~LimitAllowed(limit)
    BY <2>1, <2>4
  <2> QED
    BY <2>3, <2>4
<1>4. CASE AskRun \/ AskTrack \/ AskMedia
  BY <1>4 DEF AskRun, AskTrack, AskMedia, Ask, Refuse, browsing
<1>5. CASE \/ QuerySummary \/ QueryOutcomes \/ CheckManifest \/ ReadState
           \/ QueryTrack \/ QuerySegments
  BY <1>5 DEF QuerySummary, QueryOutcomes, CheckManifest, ReadState, QueryTrack,
              QuerySegments, Read, Answer, browsing
<1>6. CASE LookupSegment \/ CheckExists \/ CompareChecksum \/ SendSegment
  BY <1>6 DEF LookupSegment, CheckExists, CompareChecksum, SendSegment, Read, Answer, browsing
<1> QED
  BY <1>1, <1>2, <1>3, <1>4, <1>5, <1>6 DEF ReviewStep, ListRunsStep

(***************************************************************************)
(* What each answer of the review service rests on, over every             *)
(* interleaving of the reads of a request with ingestion and the writer:   *)
(* rows and artifacts are only added, so what was read before is not ahead *)
(* of what is read next (get_track_detail, media_segment, list_runs,       *)
(* list_tracks_for_run).                                                   *)
(***************************************************************************)
THEOREM AnswersInvariance == Spec => []AnswersInv
<1>1. Init => AnswersInv
  <2> SUFFICES ASSUME Init PROVE AnswersInv
    OBVIOUS
  <2>1. AnnouncedIsStored
    BY DEF Init, StoreInit, Ingested!Init, AnnouncedIsStored, Segments, Ingested!Segments
  <2>2. rpc = "idle" /\ answer = None /\ DOMAIN recency = {}
    BY DEF Init, ReviewInit
  <2> QED
    BY <2>1, <2>2 DEF AnswersInv, HeaderIsBehind, HeaderNeverAhead, MediaIsStored, ListedIsFound,
                      PagesGoOn, PagingMissesNothing, Lists, None
<1>2. Inv /\ TypeOK /\ TypeOK' /\ AnswersInv /\ [Next]_vars => AnswersInv'
  <2> SUFFICES ASSUME Inv, TypeOK, TypeOK', AnswersInv, [Next]_vars PROVE AnswersInv'
    OBVIOUS
  <2>1. CASE StoreNext /\ UNCHANGED <<exportVars, reviewVars, reader>>
    BY <2>1, StoreAddsRows, StoreKeepsAnswers DEF TypeOK, AnswersInv
  <2>2. UNCHANGED storeVars => RowsAreAdded
    BY DEF AnswersInv, RowsAreAdded, AnnouncedIsStored, StoredFeatures, StoredTracks, storeVars,
           inputs, run, database, Segments, Ingested!Segments
  <2>3. CASE UNCHANGED storeVars /\ UNCHANGED reviewVars
    BY <2>2, <2>3, StoreKeepsAnswers
  <2>4. CASE (ReviewStep \/ ListRunsStep) /\ UNCHANGED storeVars
    BY <2>2, <2>4, HeaderStep, MediaStep, PagesStep DEF AnswersInv, RowsAreAdded, Inv
  <2> QED
    BY <2>1, <2>3, <2>4 DEF Next, vars
<1> QED
  BY <1>1, <1>2, Invariance, TypeCorrect, PTL DEF Spec

(***************************************************************************)
(* Paging through any list to its end, with any limit, shows every row     *)
(* that was there on the first page, whatever is stored between the pages  *)
(* (list_tracks_for_run, list_runs, build_page_payload).                   *)
(***************************************************************************)
THEOREM PagingIsComplete == Spec => []PagingMissesNothing
<1>1. AnswersInv => PagingMissesNothing
  BY DEF AnswersInv, PagesGoOn
<1> QED
  BY <1>1, AnswersInvariance, PTL

(***************************************************************************)
(* The header of a track never counts more segments than the page that was *)
(* read after it (get_track_detail).                                       *)
(***************************************************************************)
THEOREM HeaderIsNeverAhead == Spec => []HeaderNeverAhead
<1>1. AnswersInv => HeaderNeverAhead
  BY DEF AnswersInv, HeaderIsBehind
<1> QED
  BY <1>1, AnswersInvariance, PTL

(***************************************************************************)
(* A segment that has a row has an artifact, on the page of its track and  *)
(* for the media route (get_track_detail, media_segment).                  *)
(***************************************************************************)
THEOREM ListedAreFound == Spec => []ListedIsFound
<1>1. AnswersInv => ListedIsFound
  BY DEF AnswersInv, MediaIsStored
<1> QED
  BY <1>1, AnswersInvariance, PTL
=============================================================================
