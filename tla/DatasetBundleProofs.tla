------------------------- MODULE DatasetBundleProofs -------------------------
(***************************************************************************)
(* Proofs about DatasetBundle.tla: the classification and the splits, for  *)
(* every snapshot, manifest and artifacts a run may have.                  *)
(***************************************************************************)
EXTENDS DatasetBundle, FiniteSetTheorems, TLAPS

\* An accepted feature belongs to a track, and all its tracks are validated.
LEMMA AcceptedHasTrack ==
    ASSUME NEW source, NEW listing, NEW contents, NEW f,
           Rejections(source, listing, contents, f) = {}
    PROVE  /\ \E t \in source.tracks : t.id = f.track
           /\ \A t \in source.tracks : t.id = f.track => t.status = "validated"
           /\ ArtifactRejections(source, listing, contents, f) = {}
<1> DEFINE missing == ~\E t \in source.tracks : t.id = f.track
           invalid == \E t \in source.tracks : t.id = f.track /\ t.status # "validated"
           holds == [duplicate_audio_features_key |-> f \in Duplicated(source.features),
                     track_metadata_missing |-> missing,
                     track_validation_status |-> invalid,
                     unexpected_mel_shape |-> ~f.mel]
<1>1. /\ {reason \in DOMAIN holds : holds[reason]} = {}
      /\ ArtifactRejections(source, listing, contents, f) = {}
  BY Zenon DEF Rejections
<1> HIDE DEF missing, invalid
<1>2. /\ {"track_metadata_missing", "track_validation_status"} \subseteq DOMAIN holds
      /\ holds["track_metadata_missing"] = missing
      /\ holds["track_validation_status"] = invalid
  OBVIOUS
<1>3. ~missing /\ ~invalid
  <2> HIDE DEF holds
  <2> QED
    BY <1>1, <1>2, Zenon
<1> QED
  BY <1>1, <1>3 DEF missing, invalid

\* Its rows in the manifest name what it names, and there is one when one is required.
LEMMA AcceptedIsListed ==
    ASSUME NEW source, NEW listing, NEW contents, NEW f,
           ArtifactRejections(source, listing, contents, f) = {}
    PROVE  /\ ManifestRequired(source) =>
                 \E row \in ManifestIndex(listing) : Key(row) = Key(f)
           /\ \A row \in ManifestIndex(listing) :
                 Key(row) = Key(f) => row.checksum = f.checksum
<1> DEFINE listed == {row \in ManifestIndex(listing) : Key(row) = Key(f)}
           unlisted == ManifestRequired(source) /\ listed = {}
           changed == \E row \in listed : row.checksum # f.checksum
           moved == \E row \in listed : row.uri # f.uri
           renamed == \E row \in listed :
              "" \notin {row.manifest_uri, f.manifest_uri} /\ row.manifest_uri # f.manifest_uri
           holds == [
            manifest_row_missing |-> unlisted,
            manifest_artifact_uri_mismatch |-> moved,
            manifest_checksum_mismatch |-> changed,
            manifest_uri_mismatch |-> renamed,
            artifact_uri_invalid |-> f.uri = "foreign",
            artifact_missing |-> f.uri # "foreign" /\ contents[f] = "missing",
            artifact_checksum_mismatch |->
                f.uri # "foreign" /\ contents[f] \notin {"missing", f.checksum}]
<1>1. {reason \in DOMAIN holds : holds[reason]} = {}
  BY Zenon DEF ArtifactRejections
<1> HIDE DEF unlisted, changed, moved, renamed
<1>2. /\ {"manifest_row_missing", "manifest_checksum_mismatch"} \subseteq DOMAIN holds
      /\ holds["manifest_row_missing"] = unlisted
      /\ holds["manifest_checksum_mismatch"] = changed
  OBVIOUS
<1>3. ~unlisted /\ ~changed
  <2> HIDE DEF holds, listed
  <2> QED
    BY <1>1, <1>2, Zenon
<1> QED
  BY <1>3 DEF unlisted, changed

-----------------------------------------------------------------------------
\* Of manifest rows with one key, one is in the index.
LEMMA IndexKeepsKeys ==
    ASSUME NEW listing, NEW row \in ManifestRows(listing)
    PROVE  \E first \in ManifestIndex(listing) : Key(first) = Key(row)
<1> DEFINE rows == ManifestRows(listing)
           first == CHOOSE r \in rows : Key(r) = Key(row)
<1>1. first \in rows /\ Key(first) = Key(row)
  OBVIOUS
<1>2. first = CHOOSE r \in rows : Key(r) = Key(first)
  BY <1>1
<1>3. first \in ManifestIndex(listing)
  BY <1>1, <1>2 DEF ManifestIndex
<1> QED
  BY <1>1, <1>3

\* An accepted track is validated, of the small subset, and has an accepted feature.
LEMMA AcceptedTrack ==
    ASSUME NEW source, NEW features, NEW t
    PROVE  t \in AcceptedTracks(source, features) <=>
              /\ t \in source.tracks
              /\ t.subset = "small" /\ t.status = "validated"
              /\ \E f \in features : f.track = t.id
BY DEF AcceptedTracks, TrackRejection

(***************************************************************************)
(* Whatever the snapshot, the manifest and the artifacts: no feature,      *)
(* manifest row or track of a run gets lost between the lists of its       *)
(* bundle.                                                                 *)
(***************************************************************************)
THEOREM RowsAreAccounted ==
    ASSUME NEW case, OneRowPerTrack(case.snapshot.tracks)
    PROVE  RowsAccounted(case)
<1> DEFINE source == case.snapshot
           features == AcceptedFeatures(source, case.manifest, case.found)
           tracks == AcceptedTracks(source, features)
           segments == {f \in features : \E t \in tracks : t.id = f.track}
           b == BundleOf(case)
<1>1. /\ b.tracks = tracks
      /\ b.segments = segments
      /\ b.rejected_segments = source.features \ features
      /\ b.orphans = Orphans(source, case.manifest)
  BY DEF BundleOf, Bundle
<1> HIDE DEF b
<1>2. \A f \in features : f \in source.features /\ \E t \in source.tracks :
         t.id = f.track /\ t.status = "validated"
  BY AcceptedHasTrack DEF AcceptedFeatures
<1>3. ASSUME NEW f \in source.features
      PROVE  \/ f \in b.segments
             \/ f \in b.rejected_segments
             \/ \E t \in source.tracks : t.id = f.track /\ t.subset # "small"
  <2>1. CASE f \notin features
    BY <2>1, <1>1
  <2>2. CASE f \in features
    <3>1. PICK t \in source.tracks : t.id = f.track /\ t.status = "validated"
      BY <2>2, <1>2
    <3>2. t.subset = "small" => t \in tracks
      BY <2>2, <3>1, AcceptedTrack
    <3> QED
      BY <2>2, <3>1, <3>2, <1>1
  <2> QED
    BY <2>1, <2>2
<1>4. b.segments \cap b.rejected_segments = {}
  BY <1>1
<1>5. KeysOf(ManifestRows(case.manifest)) \subseteq KeysOf(source.features) \cup KeysOf(b.orphans)
  <2> SUFFICES ASSUME NEW row \in ManifestRows(case.manifest),
                      Key(row) \notin KeysOf(source.features)
               PROVE  Key(row) \in KeysOf(b.orphans)
    BY DEF KeysOf
  <2>1. PICK first \in ManifestIndex(case.manifest) : Key(first) = Key(row)
    BY IndexKeepsKeys
  <2>2. first \in b.orphans
    BY <2>1, <1>1 DEF Orphans
  <2> QED
    BY <2>1, <2>2 DEF KeysOf
<1>6. ASSUME NEW f \in b.segments
      PROVE  \E t \in b.tracks : t.id = f.track /\ \A u \in b.tracks : u.id = f.track => u = t
  <2>1. PICK t \in tracks : t.id = f.track
    BY <1>1
  <2>2. tracks \subseteq source.tracks
    BY DEF AcceptedTracks
  <2>3. \A u \in tracks : u.id = f.track => u = t
    BY <2>1, <2>2 DEF OneRowPerTrack
  <2> QED
    BY <1>1, <2>1, <2>3
<1>7. ASSUME NEW t \in b.tracks
      PROVE  \E f \in b.segments : f.track = t.id
  <2>1. PICK f \in features : f.track = t.id
    BY <1>1, AcceptedTrack
  <2> QED
    BY <2>1, <1>1
<1> QED
  BY <1>3, <1>4, <1>5, <1>6, <1>7, Zenon DEF b, RowsAccounted

-----------------------------------------------------------------------------
\* The counts of the splits add up, and from three groups on none of them is zero.
LEMMA CountsAddUp ==
    ASSUME NEW n \in Nat
    PROVE  LET counts == SplitCounts(n)
           IN  /\ counts.train \in Nat /\ counts.validation \in Nat /\ counts.test \in Nat
               /\ counts.train + counts.validation + counts.test = n
               /\ n >= 1 => counts.train >= 1
               /\ n >= 3 => counts.validation >= 1 /\ counts.test >= 1
<1> DEFINE tenth == n \div 10
           share == IF tenth > 1 THEN tenth ELSE 1
<1>1. CASE n \in {0, 1, 2}
  BY <1>1 DEF SplitCounts
<1>2. CASE n >= 3
  <2>1. tenth \in Nat /\ 10 * tenth <= n
    OBVIOUS
  <2>2. share \in Nat /\ share >= 1 /\ 2 * share + 1 <= n
    <3> HIDE DEF tenth
    <3> QED
      BY <1>2, <2>1
  <2>3. SplitCounts(n) = [train |-> n - 2 * share, validation |-> share, test |-> share]
    BY <1>2 DEF SplitCounts
  <2> HIDE DEF share
  <2> QED
    BY <2>2, <2>3
<1> QED
  BY <1>1, <1>2

\* Every position has a split, and every split that has a count has a position.
LEMMA PositionsHaveSplits ==
    ASSUME NEW n \in Nat
    PROVE  /\ \A p \in 1..n : SplitAt(n, p) \in Splits
           /\ n >= 1 => SplitAt(n, 1) = "train"
           /\ n >= 3 => \A s \in Splits : \E p \in 1..n : SplitAt(n, p) = s
<1> DEFINE counts == SplitCounts(n)
<1>1. /\ counts.train \in Nat /\ counts.validation \in Nat /\ counts.test \in Nat
      /\ counts.train + counts.validation + counts.test = n
      /\ n >= 1 => counts.train >= 1
      /\ n >= 3 => counts.validation >= 1 /\ counts.test >= 1
  BY CountsAddUp
<1>2. \A p : SplitAt(n, p) =
        CASE p <= counts.train -> "train"
          [] p > counts.train /\ p <= counts.train + counts.validation -> "validation"
          [] p > counts.train + counts.validation
             /\ p <= counts.train + counts.validation + counts.test -> "test"
          [] OTHER -> "none"
  BY DEF SplitAt
<1> HIDE DEF counts
<1>3. \A p \in 1..n : SplitAt(n, p) \in Splits
  BY <1>1, <1>2 DEF Splits
<1>4. n >= 1 => SplitAt(n, 1) = "train"
  BY <1>1, <1>2
<1>5. ASSUME n >= 3
      PROVE  /\ 1 \in 1..n /\ SplitAt(n, 1) = "train"
             /\ counts.train + 1 \in 1..n /\ SplitAt(n, counts.train + 1) = "validation"
             /\ n \in 1..n /\ SplitAt(n, n) = "test"
  BY <1>1, <1>2, <1>5
<1> QED
  BY <1>3, <1>4, <1>5 DEF Splits

-----------------------------------------------------------------------------
\* An order is a numbering of the groups: every group has a position, its own.
LEMMA OrdersNumberGroups ==
    ASSUME NEW b, IsFiniteSet(Groups(b)), NEW order \in Orders(b)
    PROVE  LET n == Cardinality(Groups(b))
           IN  /\ n \in Nat
               /\ \A g \in Groups(b) : Position(order, g) \in 1..n
               /\ \A p \in 1..n : order[p] \in Groups(b) /\ Position(order, order[p]) = p
<1> DEFINE n == Cardinality(Groups(b))
<1>1. n \in Nat
  BY FS_CardinalityType
<1>2. order \in [1..n -> Groups(b)] /\ \A i, k \in 1..n : order[i] = order[k] => i = k
  BY DEF Orders
<1>3. \A g \in Groups(b) : \E p \in 1..n : order[p] = g
  <2> SUFFICES ASSUME NEW g \in Groups(b), \A p \in 1..n : order[p] # g
               PROVE  FALSE
    OBVIOUS
  <2> DEFINE rest == Groups(b) \ {g}
  <2>1. IsFiniteSet(rest) /\ Cardinality(rest) = n - 1
    BY FS_RemoveElement
  <2>2. IsFiniteSet(1..n) /\ Cardinality(1..n) = n
    BY <1>1, FS_Interval
  <2>3. order \in [1..n -> rest]
    BY <1>2
  <2>4. \E i, k \in 1..n : i # k /\ order[i] = order[k]
    <3> HIDE DEF rest, n
    <3>1. Cardinality(rest) < Cardinality(1..n)
      BY <1>1, <2>1, <2>2
    <3> QED
      BY <2>1, <2>2, <2>3, <3>1, FS_PigeonHole
  <2> QED
    BY <1>2, <2>4
<1> QED
  BY <1>1, <1>2, <1>3 DEF Position

\* A run has finitely many groups.
LEMMA GroupsAreFinite ==
    ASSUME NEW case, OneRowPerTrack(case.snapshot.tracks)
    PROVE  IsFiniteSet(Groups(BundleOf(case)))
<1> DEFINE b == BundleOf(case)
           group == [t \in b.tracks |-> GroupOf(b, t)]
<1>1. b.tracks \subseteq case.snapshot.tracks
  BY DEF BundleOf, Bundle, AcceptedTracks
<1>2. IsFiniteSet(b.tracks)
  BY <1>1, FS_Subset DEF OneRowPerTrack
<1>3. CASE b.segments = {}
  BY <1>3, FS_EmptySet DEF Groups
<1>4. CASE b.segments # {}
  <2>1. Groups(b) = {GroupOf(b, t) : t \in b.tracks}
    BY <1>4 DEF Groups
  <2> HIDE DEF b
  <2>2. group \in Surjection(b.tracks, Groups(b))
    BY <2>1 DEF Surjection
  <2>3. IsFiniteSet(Groups(b))
    BY <2>2, <1>2, FS_Surjection
  <2> QED
    BY <2>3 DEF b
<1> QED
  BY <1>3, <1>4

\* A split that has a position has a training row.
LEMMA FilledSplit ==
    ASSUME NEW case, OneRowPerTrack(case.snapshot.tracks),
           NEW order \in Orders(BundleOf(case)), NEW s \in Splits,
           NEW p \in 1..Cardinality(Groups(BundleOf(case))),
           SplitAt(Cardinality(Groups(BundleOf(case))), p) = s
    PROVE  TrainingRows(BundleOf(case), order, s) # {}
<1> DEFINE b == BundleOf(case)
<1>1. order[p] \in Groups(b) /\ Position(order, order[p]) = p
  BY GroupsAreFinite, OrdersNumberGroups
<1>2. PICK t \in b.tracks : GroupOf(b, t) = order[p]
  BY <1>1 DEF Groups
<1>3. PICK f \in b.segments : f.track = t.id
  BY RowsAreAccounted DEF RowsAccounted
<1> HIDE DEF b
<1>4. SplitOf(b, order, t) = s
  BY <1>1, <1>2 DEF SplitOf, b
<1> QED
  BY <1>3, <1>4 DEF TrainingRows, b

(***************************************************************************)
(* Whatever the snapshot and the order the hash may yield: each accepted   *)
(* segment is in exactly one split, artists stay together, and no split is *)
(* empty that must not be.                                                 *)
(***************************************************************************)
THEOREM SplitsArePartition ==
    ASSUME NEW case, OneRowPerTrack(case.snapshot.tracks),
           NEW order \in Orders(BundleOf(case))
    PROVE  SplitsPartition(BundleOf(case), order)
<1> DEFINE b == BundleOf(case)
           n == Cardinality(Groups(b))
<1>1. /\ n \in Nat
      /\ \A g \in Groups(b) : Position(order, g) \in 1..n
      /\ \A p \in 1..n : order[p] \in Groups(b) /\ Position(order, order[p]) = p
  BY GroupsAreFinite, OrdersNumberGroups
<1>2. /\ \A f \in b.segments : \E t \in b.tracks :
            t.id = f.track /\ \A u \in b.tracks : u.id = f.track => u = t
      /\ \A t \in b.tracks : \E f \in b.segments : f.track = t.id
  BY RowsAreAccounted DEF RowsAccounted
<1>3. \A t \in b.tracks : GroupOf(b, t) \in Groups(b)
  BY <1>2 DEF Groups
<1>4. ASSUME NEW f \in b.segments
      PROVE  Cardinality({s \in Splits : f \in TrainingRows(b, order, s)}) = 1
  <2>1. PICK t \in b.tracks : t.id = f.track /\ \A u \in b.tracks : u.id = f.track => u = t
    BY <1>2
  <2>2. SplitOf(b, order, t) \in Splits
    BY <1>1, <1>3, PositionsHaveSplits DEF SplitOf
  <2>3. \A s : f \in TrainingRows(b, order, s) <=> SplitOf(b, order, t) = s
    BY <2>1 DEF TrainingRows
  <2>4. {s \in Splits : f \in TrainingRows(b, order, s)} = {SplitOf(b, order, t)}
    BY <2>2, <2>3
  <2> QED
    BY <2>4, FS_Singleton
<1>5. ASSUME ~ArtistLeakageRisk(b), NEW t \in b.tracks, NEW u \in b.tracks,
             t.artist = u.artist
      PROVE  SplitOf(b, order, t) = SplitOf(b, order, u)
  <2>1. b.segments # {}
    BY <1>2
  <2>2. ByArtist(b)
    BY <1>5, <2>1 DEF ArtistLeakageRisk, SplitType
  <2> QED
    BY <1>5, <2>2 DEF SplitOf, GroupOf
<1>6. ASSUME b.segments # {}
      PROVE  TrainingRows(b, order, "train") # {}
  <2>1. 1 \in 1..n
    BY <1>1, <1>2, <1>3, <1>6
  <2>2. SplitAt(n, 1) = "train"
    BY <1>1, <2>1, PositionsHaveSplits
  <2> QED
    BY <2>1, <2>2, FilledSplit DEF Splits
<1>7. ASSUME n >= 3 \/ SplitType(b) = "artist_aware_track_level", NEW s \in Splits
      PROVE  TrainingRows(b, order, s) # {}
  <2>1. Cardinality(Splits) = 3
    <3> DEFINE one == {"test"}
               two == one \cup {"train"}
    <3>1. /\ "train" \notin one /\ "validation" \notin two
          /\ Splits = two \cup {"validation"}
      BY DEF Splits
    <3>2. Cardinality(one) = 1 /\ IsFiniteSet(one)
      BY FS_Singleton
    <3> HIDE DEF one
    <3>3. Cardinality(two) = 2 /\ IsFiniteSet(two)
      BY <3>1, <3>2, FS_AddElement
    <3> HIDE DEF two
    <3>4. Cardinality(two \cup {"validation"}) = Cardinality(two) + 1
      BY <3>1, <3>3, FS_AddElement
    <3> QED
      BY <3>1, <3>3, <3>4
  <2>2. n >= 3
    BY <1>1, <1>7, <2>1 DEF SplitType
  <2>3. PICK p \in 1..n : SplitAt(n, p) = s
    BY <1>1, <2>2, PositionsHaveSplits
  <2> QED
    BY <2>3, FilledSplit
<1> QED
  BY <1>4, <1>5, <1>6, <1>7, Zenon DEF SplitsPartition
=============================================================================
