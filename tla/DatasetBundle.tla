---------------------------- MODULE DatasetBundle ----------------------------
(***************************************************************************)
(* What the dataset exporter makes of a snapshot of a run: which tracks    *)
(* and segments it accepts, the verdict on the run, and the training       *)
(* splits.  A snapshot holds the rows of track_metadata and audio_features *)
(* and the counts of the run summary; next to it there are the manifest of *)
(* the run and what the claim-check store held at the URI of each feature. *)
(***************************************************************************)
EXTENDS Naturals, FiniteSets

CONSTANT NoArtist       \* the artist_id of a track without one

Key(row) == <<row.track, row.idx>>
KeysOf(rows) == {Key(row) : row \in rows}

\* Rows that share their key with another one.
Duplicated(rows) == {row \in rows : \E other \in rows \ {row} : Key(other) = Key(row)}

-----------------------------------------------------------------------------
\* Without features and without persisted segments there need not be a manifest.
ManifestRequired(source) ==
    \/ source.features # {}
    \/ \E t \in source.tracks : t.status = "validated" /\ t.segments > 0

\* A row of another run, or one that lacks a field, is not own.  A URI is "foreign" when
\* it does not name the segment it stands for.
RowFaults(row) ==
    IF ~row.own THEN {"segment_manifest_run_id_mismatch"}
    ELSE IF row.uri = "foreign" \/ row.manifest_uri = "foreign"
         THEN {"segment_manifest_uri_invalid"} ELSE {}

ManifestFaults(source, listing) ==
    CASE ~listing.named ->
           IF ManifestRequired(source) THEN {"segment_manifest_uri_invalid"} ELSE {}
      [] listing.named /\ listing.file = "absent" ->
           IF ManifestRequired(source) THEN {"segment_manifest_missing"} ELSE {}
      [] listing.named /\ listing.file = "torn" -> {"segment_manifest_unreadable"}
      [] OTHER -> UNION {RowFaults(row) : row \in listing.rows}

ManifestRows(listing) ==
    IF listing.named /\ listing.file = "whole"
    THEN {row \in listing.rows : RowFaults(row) = {}}
    ELSE {}

\* One row for each key; of rows with the same key the first one in the file.
ManifestIndex(listing) ==
    LET rows == ManifestRows(listing)
    IN  {row \in rows : row = CHOOSE first \in rows : Key(first) = Key(row)}

-----------------------------------------------------------------------------
\* Why a feature is not part of the dataset.
ArtifactRejections(source, listing, contents, f) ==
    LET listed == {row \in ManifestIndex(listing) : Key(row) = Key(f)}
        holds == [
            manifest_row_missing |-> ManifestRequired(source) /\ listed = {},
            manifest_artifact_uri_mismatch |-> \E row \in listed : row.uri # f.uri,
            manifest_checksum_mismatch |-> \E row \in listed : row.checksum # f.checksum,
            manifest_uri_mismatch |-> \E row \in listed :
                "" \notin {row.manifest_uri, f.manifest_uri} /\ row.manifest_uri # f.manifest_uri,
            artifact_uri_invalid |-> f.uri = "foreign",
            artifact_missing |-> f.uri # "foreign" /\ contents[f] = "missing",
            artifact_checksum_mismatch |->
                f.uri # "foreign" /\ contents[f] \notin {"missing", f.checksum}]
    IN  {reason \in DOMAIN holds : holds[reason]}

\* Mutant of Rejections: a feature without a track is let through.
RejectionsWithoutMetadata(source, listing, contents, f) ==
    LET holds == [
            duplicate_audio_features_key |-> f \in Duplicated(source.features),
            track_validation_status |->
                \E t \in source.tracks : t.id = f.track /\ t.status # "validated",
            unexpected_mel_shape |-> ~f.mel]
    IN  {reason \in DOMAIN holds : holds[reason]}
        \cup ArtifactRejections(source, listing, contents, f)

Rejections(source, listing, contents, f) ==
    LET holds == [
            duplicate_audio_features_key |-> f \in Duplicated(source.features),
            track_metadata_missing |-> ~\E t \in source.tracks : t.id = f.track,
            track_validation_status |->
                \E t \in source.tracks : t.id = f.track /\ t.status # "validated",
            unexpected_mel_shape |-> ~f.mel]
    IN  {reason \in DOMAIN holds : holds[reason]}
        \cup ArtifactRejections(source, listing, contents, f)

AcceptedFeatures(source, listing, contents) ==
    {f \in source.features : Rejections(source, listing, contents, f) = {}}

\* Manifest rows no feature stands for.
Orphans(source, listing) ==
    {row \in ManifestIndex(listing) : Key(row) \notin KeysOf(source.features)}

\* One reason stands for tracks without persisted and without accepted segments.
TrackRejection(features, t) ==
    IF t.subset # "small" THEN "subset_not_small"
    ELSE IF t.status # "validated" THEN "validation_status"
    ELSE IF \A f \in features : f.track # t.id THEN "validated_without_accepted_segments"
    ELSE "none"

AcceptedTracks(source, features) ==
    {t \in source.tracks : TrackRejection(features, t) = "none"}

-----------------------------------------------------------------------------
Warnings(source) ==
    LET summary == source.summary
        holds == [track_validation_failures |-> summary.validation_failures > 0,
                  processing_errors_present |-> summary.processing_error_count > 0,
                  writer_errors_present |-> summary.writer_error_count > 0,
                  high_silent_ratio |-> summary.silent /\ source.features # {}]
    IN  {warning \in DOMAIN holds : holds[warning]}

\* Mutant of Blocked: manifest rows without a feature are taken for late ones.
BlockedWithoutOrphans(source, listing, contents) ==
    LET features == AcceptedFeatures(source, listing, contents)
    IN  \/ ManifestFaults(source, listing) # {}
        \/ Duplicated(ManifestRows(listing)) # {}
        \/ features # source.features
        \/ \E t \in source.tracks :
              TrackRejection(features, t) = "validated_without_accepted_segments"
        \/ source.tracks # {} /\ AcceptedTracks(source, features) = {}

Blocked(source, listing, contents) ==
    LET features == AcceptedFeatures(source, listing, contents)
    IN  \/ ManifestFaults(source, listing) # {}
        \/ Duplicated(ManifestRows(listing)) # {}
        \/ features # source.features
        \/ Orphans(source, listing) # {}
        \/ \E t \in source.tracks :
              TrackRejection(features, t) = "validated_without_accepted_segments"
        \/ source.tracks # {} /\ AcceptedTracks(source, features) = {}

Verdict(source, listing, contents) ==
    IF Blocked(source, listing, contents) THEN "fail"
    ELSE IF Warnings(source) # {} THEN "pass_with_warnings" ELSE "pass"

\* _classify_bundle: a segment of a track that is not accepted is in neither list.
Bundle(source, listing, contents) ==
    LET features == AcceptedFeatures(source, listing, contents)
        tracks == AcceptedTracks(source, features)
    IN  [tracks |-> tracks,
         rejected_tracks |-> source.tracks \ tracks,
         segments |-> {f \in features : \E t \in tracks : t.id = f.track},
         rejected_segments |-> source.features \ features,
         orphans |-> Orphans(source, listing),
         verdict |-> Verdict(source, listing, contents)]

-----------------------------------------------------------------------------
Splits == {"train", "validation", "test"}

\* Mutant of SplitCounts: no split gets more than its share.
SplitCountsOfRatios(n) ==
    [train |-> n - 2 * (n \div 10), validation |-> n \div 10, test |-> n \div 10]

SplitCounts(n) ==
    CASE n = 0 -> [train |-> 0, validation |-> 0, test |-> 0]
      [] n = 1 -> [train |-> 1, validation |-> 0, test |-> 0]
      [] n = 2 -> [train |-> 1, validation |-> 0, test |-> 1]
      [] OTHER -> LET share == IF n \div 10 > 1 THEN n \div 10 ELSE 1
                  IN  [train |-> n - 2 * share, validation |-> share, test |-> share]

\* The split of the group at a position of the stable order.
SplitAt(n, position) ==
    LET counts == SplitCounts(n)
    IN  CASE position <= counts.train -> "train"
          [] position > counts.train /\ position <= counts.train + counts.validation ->
               "validation"
          [] position > counts.train + counts.validation
             /\ position <= counts.train + counts.validation + counts.test -> "test"
          [] OTHER -> "none"

\* Groups are artists, unless a track has none.
ByArtist(bundle) == \A t \in bundle.tracks : t.artist # NoArtist
GroupOf(bundle, t) == IF ByArtist(bundle) THEN t.artist ELSE t.id
Groups(bundle) ==
    IF bundle.segments = {} THEN {} ELSE {GroupOf(bundle, t) : t \in bundle.tracks}

\* With three artists every split gets one; without artists they may leak between splits.
SplitType(bundle) ==
    IF bundle.segments = {} THEN "none_no_accepted_segments"
    ELSE IF ~ByArtist(bundle) THEN "track_level_fallback"
    ELSE IF Cardinality(Groups(bundle)) < Cardinality(Splits) THEN "artist_aware_degraded"
    ELSE "artist_aware_track_level"
ArtistLeakageRisk(bundle) == SplitType(bundle) = "track_level_fallback"

\* The order is by a hash of run and group: any order may come of it.
Orders(bundle) ==
    {order \in [1..Cardinality(Groups(bundle)) -> Groups(bundle)] :
        \A i, k \in DOMAIN order : order[i] = order[k] => i = k}

Position(order, group) == CHOOSE i \in DOMAIN order : order[i] = group

SplitOf(bundle, order, t) ==
    SplitAt(Cardinality(Groups(bundle)), Position(order, GroupOf(bundle, t)))

TrainingRows(bundle, order, split) ==
    {f \in bundle.segments :
        \E t \in bundle.tracks : t.id = f.track /\ SplitOf(bundle, order, t) = split}

-----------------------------------------------------------------------------
CONSTANT Cases          \* snapshots with a manifest and what was found for each feature

\* track_metadata has one row for each track of a run, and finitely many.
OneRowPerTrack(tracks) ==
    IsFiniteSet(tracks) /\ \A t, u \in tracks : t.id = u.id => t = u

ASSUME CasesAssumption == \A case \in Cases : OneRowPerTrack(case.snapshot.tracks)

BundleOf(case) == Bundle(case.snapshot, case.manifest, case.found)

\* Every feature is an accepted or a rejected segment, every manifest row belongs to a
\* feature or is listed itself, and accepted segments and tracks belong together.
RowsAccounted(case) ==
    LET b == BundleOf(case)
    IN  /\ \A f \in case.snapshot.features :
              \/ f \in b.segments
              \/ f \in b.rejected_segments
              \/ \E t \in case.snapshot.tracks : t.id = f.track /\ t.subset # "small"
        /\ b.segments \cap b.rejected_segments = {}
        /\ KeysOf(ManifestRows(case.manifest)) \subseteq
              KeysOf(case.snapshot.features) \cup KeysOf(b.orphans)
        /\ \A f \in b.segments : \E t \in b.tracks :
              /\ t.id = f.track
              /\ \A u \in b.tracks : u.id = f.track => u = t
        /\ \A t \in b.tracks : \E f \in b.segments : f.track = t.id

\* Each segment has one split, artists stay together, and no split is empty without need.
SplitsPartition(b, order) ==
    /\ \A f \in b.segments :
          Cardinality({s \in Splits : f \in TrainingRows(b, order, s)}) = 1
    /\ ~ArtistLeakageRisk(b) => \A t, u \in b.tracks :
          t.artist = u.artist => SplitOf(b, order, t) = SplitOf(b, order, u)
    /\ b.segments # {} => TrainingRows(b, order, "train") # {}
    /\ Cardinality(Groups(b)) >= 3 \/ SplitType(b) = "artist_aware_track_level" =>
          \A s \in Splits : TrainingRows(b, order, s) # {}

\* The cases in which one of this fails.
Unaccounted == {case \in Cases : ~RowsAccounted(case)}
Unpartitioned ==
    {case \in Cases :
        \E order \in Orders(BundleOf(case)) : ~SplitsPartition(BundleOf(case), order)}
=============================================================================
