----------------------------- MODULE ClaimChecks -----------------------------
(***************************************************************************)
(* Claim-check URIs and the two stores they name objects in: the local     *)
(* artifacts volume and an S3 bucket.  A URI is a record: its scheme, its   *)
(* bucket, whether it carries a query or fragment, and the parts of its     *)
(* path as they are written, "." and ".." among them.                       *)
(***************************************************************************)
EXTENDS Naturals, Sequences, SequencesExt, TLC

CONSTANT Bucket         \* the bucket the services are configured with

Backends == {"local", "minio"}

\* The parts that a key and a run id may not be; PurePosixPath drops the first two.
Unsafe == {"", ".", ".."}
Dropped == Unsafe \ {".."}

\* The parts of a path as PurePosixPath keeps them.
PathParts(path) ==
    LET kept[n \in 0..Len(path)] ==
            IF n = 0 THEN <<>>
            ELSE IF path[n] \in Dropped THEN kept[n - 1]
            ELSE Append(kept[n - 1], path[n])
    IN  kept[Len(path)]
Safe(path) == PathParts(path) # <<>> /\ Range(PathParts(path)) \cap Unsafe = {}

\* A run id is one path segment: characters it may not contain.
Reserved == {"/", "\\", ":", "."}
RunIdIsValid(run) ==
    /\ run \notin Unsafe
    /\ \A i \in 1..Len(run) : SubSeq(run, i, i) \notin Reserved \cup {" "}

-----------------------------------------------------------------------------
WavName(n) == ToString(n) \o ".wav"
SegmentKey(run, id, n) == <<"runs", run, "segments", ToString(id), WavName(n)>>
ManifestKey(run) == <<"runs", run, "manifests", "segments.parquet">>

\* The text of a local URI starts with /artifacts/, without a scheme or a bucket.
Absent == ""
LogicalUri(key) ==
    [scheme |-> Absent, bucket |-> Absent, query |-> FALSE, path |-> <<"artifacts">> \o key]
S3Uri(key) ==
    [scheme |-> "s3", bucket |-> Bucket, query |-> FALSE, path |-> key]
UriIn(kind, key) == IF kind = "minio" THEN S3Uri(key) ELSE LogicalUri(key)

IsLogical(uri) == /\ uri.scheme = Absent
                  /\ uri.path # <<>>
                  /\ Head(uri.path) = "artifacts"

Refused == [scheme |-> "refused", key |-> <<>>]

\* Mutant of ParseArtifactUri: the bucket of the URI is not compared.
ParseArtifactUriAnyBucket(uri) ==
    CASE uri.scheme = "s3" /\ ~uri.query /\ Safe(uri.path)
           -> [scheme |-> "s3", key |-> uri.path]
      [] IsLogical(uri) /\ Safe(Tail(uri.path))
           -> [scheme |-> "local", key |-> PathParts(Tail(uri.path))]
      [] OTHER -> Refused

\* An S3 key is compared as it is written, a local one after it is normalised.
ParseArtifactUri(uri) ==
    CASE /\ uri.scheme = "s3"
         /\ uri.bucket = Bucket
         /\ ~uri.query
         /\ Safe(uri.path)
           -> [scheme |-> "s3", key |-> uri.path]
      [] IsLogical(uri) /\ Safe(Tail(uri.path))
           -> [scheme |-> "local", key |-> PathParts(Tail(uri.path))]
      [] OTHER -> Refused

NamesSegment(uri, run, id, n) ==
    RunIdIsValid(run) /\ ParseArtifactUri(uri).key = SegmentKey(run, id, n)
NamesManifest(uri, run) ==
    RunIdIsValid(run) /\ ParseArtifactUri(uri).key = ManifestKey(run)

-----------------------------------------------------------------------------
\* The store a persisted URI is read from, whatever backend is configured.
StoreFor(uri) == IF uri.scheme = "s3" THEN "minio" ELSE "local"

\* The object a store resolves a URI to; each refuses the URIs of the other.
LocalKey(uri) ==
    IF ParseArtifactUri(uri).scheme = "local" THEN ParseArtifactUri(uri).key ELSE <<>>
S3Key(uri) ==
    IF ParseArtifactUri(uri).scheme = "s3" THEN ParseArtifactUri(uri).key ELSE <<>>
KeyIn(store, uri) == IF store = "local" THEN LocalKey(uri) ELSE S3Key(uri)

-----------------------------------------------------------------------------
CONSTANTS
    RunIds,         \* run ids, valid and not
    TrackIds,
    Indexes,        \* of segments
    Schemes,        \* of URIs, supported and not
    Buckets

\* Numbers are told apart by their text, which is never one of the unsafe parts.
ASSUME NamesAssumption ==
    /\ \A s, t \in TrackIds : ToString(s) = ToString(t) => s = t
    /\ \A m, n \in Indexes : WavName(m) = WavName(n) => m = n
    /\ \A t \in TrackIds : ToString(t) \notin Unsafe
    /\ \A n \in Indexes : WavName(n) \notin Unsafe

Keys == {SegmentKey(run, id, n) : run \in RunIds, id \in TrackIds, n \in Indexes}
        \cup {ManifestKey(run) : run \in RunIds}

\* A path as it may be written: plain, with a "." in it, climbing, or too short.
Written(key) == {key, <<".">> \o key, <<"..">> \o key, Tail(key)}
Paths == UNION {Written(key) \cup {<<"artifacts">> \o path : path \in Written(key)} : key \in Keys}
Uris == [scheme : Schemes, bucket : Buckets, query : BOOLEAN, path : Paths]

\* A URI names a segment, and no other one and no manifest, in the store it is read from.
NamesOnly(uri, run, id, n) ==
    /\ KeyIn(StoreFor(uri), uri) = SegmentKey(run, id, n)
    /\ StoreFor(uri) = "minio" => uri.bucket = Bucket
    /\ ~\E r \in RunIds : NamesManifest(uri, r)
    /\ \A t \in TrackIds, i \in Indexes :
          NamesSegment(uri, run, t, i) => t = id /\ i = n

\* What a backend writes for a run is validated and found in its store.
WritesReadable(kind, run) ==
    /\ NamesManifest(UriIn(kind, ManifestKey(run)), run)
    /\ StoreFor(UriIn(kind, ManifestKey(run))) = kind
    /\ \A id \in TrackIds, n \in Indexes :
          LET uri == UriIn(kind, SegmentKey(run, id, n))
          IN  NamesSegment(uri, run, id, n) /\ StoreFor(uri) = kind

\* The URIs and the backends that fail.
Misnaming ==
    {uri \in Uris : \E run \in RunIds, id \in TrackIds, n \in Indexes :
        NamesSegment(uri, run, id, n) /\ ~NamesOnly(uri, run, id, n)}
Unreadable ==
    {kind \in Backends :
        \E run \in RunIds : RunIdIsValid(run) /\ ~WritesReadable(kind, run)}
=============================================================================
