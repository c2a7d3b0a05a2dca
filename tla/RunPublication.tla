---------------------------- MODULE RunPublication ----------------------------
(***************************************************************************)
(* What the readers of a run may rely on, whatever the ingestion jobs do:  *)
(* the artifacts and the manifest of a run change in some order, a track   *)
(* is announced as validated once all its segments are stored, and a       *)
(* segment is announced with the content its artifact then has.  The rows  *)
(* of a track are merged into the manifest one by one, so a version with   *)
(* fewer segments leaves the last rows of a longer one.  Only when one job *)
(* at a time writes the run does the manifest keep the rows of every       *)
(* track: jobs that share a run can lose each other's rows.                *)
(***************************************************************************)
EXTENDS Naturals

CONSTANTS
    Tracks,
    MaxSegments,    \* bound: segments of one track
    Contents        \* what the segments of a track may hold: versions of its audio

VARIABLES
    shared,         \* several jobs ingest parts of the run
    count,          \* count[t][c]: the segments version c of track t is cut into
    artifact,       \* artifact[s]: what the artifact of segment s holds
    manifest,       \* manifest[s]: the content the manifest row of s names
    readable,       \* the manifest is not truncated
    metadata,       \* metadata[t]: the last status announced for t
    announced       \* announced[s]: the last content announced for s

run == <<artifact, manifest, readable, metadata, announced>>
inputs == <<shared, count>>

Segments == Tracks \X (0 .. MaxSegments - 1)
SegmentsOf(t, c) == {t} \X (0 .. count[t][c] - 1)
Manifests == [Segments -> Contents \cup {"missing"}]

\* A track that has rows has all those of one version, and perhaps some left of a longer one.
HasWholeTracks(rows) ==
    /\ \A s \in Segments : rows[s] # "missing" => s[2] < count[s[1]][rows[s]]
    /\ \A s \in Segments : rows[s] # "missing" =>
          \E c \in Contents :
              count[s[1]][c] > 0 /\ \A u \in SegmentsOf(s[1], c) : rows[u] = c

TypeOK ==
    /\ shared \in BOOLEAN
    /\ count \in [Tracks -> [Contents -> 0 .. MaxSegments]]
    /\ artifact \in [Segments -> Contents \cup {"missing", "torn"}]
    /\ manifest \in Manifests
    /\ readable \in BOOLEAN
    /\ metadata \in [Tracks -> {"none", "validated", "rejected"}]
    /\ announced \in [Segments -> Contents \cup {"none"}]

Init ==
    /\ shared \in BOOLEAN
    /\ count \in [Tracks -> [Contents -> 0 .. MaxSegments]]
    /\ artifact = [s \in Segments |-> "missing"]
    /\ manifest = [s \in Segments |-> "missing"]
    /\ readable = TRUE
    /\ metadata = [t \in Tracks |-> "none"]
    /\ announced = [s \in Segments |-> "none"]

\* Every segment of a version has its artifact.
Stored(t, c) == count[t][c] > 0 /\ \A s \in SegmentsOf(t, c) : artifact[s] = c

\* Mutant of Listed: a track is announced before its rows are in the manifest.
ListedLater(t, c) == TRUE

\* The rows of the version, too, unless another job can have overwritten them.
Listed(t, c) == shared \/ \A s \in SegmentsOf(t, c) : manifest[s] = c

WriteArtifact(s) ==
    /\ \E c \in {c \in Contents : s \in SegmentsOf(s[1], c)} :
          \E content \in {c, "torn"} : artifact' = [artifact EXCEPT ![s] = content]
    /\ UNCHANGED <<manifest, readable, metadata, announced, inputs>>

TruncateManifest ==
    /\ readable' = FALSE
    /\ UNCHANGED <<artifact, manifest, metadata, announced, inputs>>

\* The rows of a version replace older ones; the others are kept, or, when jobs share the
\* run, are what one of them has read before.
StoreRows(t) ==
    /\ \E c \in {c \in Contents : Stored(t, c)} :
          \/ manifest' = [s \in Segments |-> IF s \in SegmentsOf(t, c) THEN c ELSE manifest[s]]
          \/ /\ shared
             /\ manifest' \in {rows \in Manifests :
                                  /\ \A s \in SegmentsOf(t, c) : rows[s] = c
                                  /\ HasWholeTracks(rows)}
    /\ readable' = TRUE
    /\ UNCHANGED <<artifact, metadata, announced, inputs>>

AnnounceTrack(t) ==
    /\ \/ /\ metadata' = [metadata EXCEPT ![t] = "validated"]
          /\ \E c \in Contents : Stored(t, c) /\ Listed(t, c)
       \/ metadata' = [metadata EXCEPT ![t] = "rejected"]
    /\ UNCHANGED <<artifact, manifest, readable, announced, inputs>>

\* Mutant of AnnounceSegment: an event does not wait for its artifact.
AnnounceSegmentUnwritten(s) ==
    /\ \E c \in {c \in Contents : s \in SegmentsOf(s[1], c)} :
          announced' = [announced EXCEPT ![s] = c]
    /\ UNCHANGED <<artifact, manifest, readable, metadata, inputs>>

AnnounceSegment(s) ==
    /\ metadata[s[1]] = "validated"
    /\ \E c \in {c \in Contents : s \in SegmentsOf(s[1], c)} :
          /\ Stored(s[1], c) /\ Listed(s[1], c)
          /\ announced' = [announced EXCEPT ![s] = c]
    /\ UNCHANGED <<artifact, manifest, readable, metadata, inputs>>

Publish ==
    \/ \E t \in Tracks : StoreRows(t) \/ AnnounceTrack(t)
    \/ \E s \in Segments : WriteArtifact(s) \/ AnnounceSegment(s)
    \/ TruncateManifest

Spec == Init /\ [][Publish]_<<run, inputs>>
=============================================================================
