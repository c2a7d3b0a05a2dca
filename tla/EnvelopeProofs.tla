---------------------------- MODULE EnvelopeProofs ----------------------------
(***************************************************************************)
(* Proofs about Envelopes.tla: for every payload, whatever its fields and  *)
(* their values, not only for the examples.  And about ClaimChecks.tla:    *)
(* for every URI, and for every run, track and segment that a URI is       *)
(* written for.                                                            *)
(***************************************************************************)
EXTENDS Envelopes, SequenceTheorems, WellFoundedInduction, TLAPS

\* What build_envelope lets a producer send, its consumers accept.
LEMMA BuiltIsValid ==
    ASSUME NEW type \in EventTypes, NEW source \in SourcesOf(type), NEW payload, NEW trace,
           Buildable(type, source, payload, trace)
    PROVE  ValidEnvelope(type, Envelope(type, source, payload, trace))
<1> DEFINE json == Sent(payload)
           envelope == Envelope(type, source, payload, trace)
<1>1. /\ "run_id" \in DOMAIN json
      /\ SourceMatchesPayload(type, source, json)
      /\ ValidPayload(type, json)
      /\ trace # <<>> => TraceIsOf(RunIdOf(json), trace)
  BY DEF Buildable
<1>2. /\ envelope.event_type = type
      /\ envelope.source_service = source
      /\ envelope.run_id = RunIdOf(json)
      /\ envelope.trace_id = IF trace # <<>> THEN trace ELSE TraceId(json, source)
      /\ envelope.idempotency_key = IdempotencyKey(type, json)
      /\ envelope.payload = json
  BY DEF Envelope
<1> HIDE DEF json, envelope
<1>3. TraceIsOf(RunIdOf(json), TraceId(json, source))
  BY DEF TraceId, TraceIsOf
<1>4. RunIdIsValid(RunIdOf(json))
  BY <1>1 DEF ValidPayload, RunIdOf
<1>5. TraceIsOf(envelope.run_id, envelope.trace_id)
  BY <1>1, <1>2, <1>3
<1> QED
  BY <1>1, <1>2, <1>4, <1>5 DEF ValidEnvelope, json, envelope

\* No payload of the examples is an exception.
LEMMA AllConsumed == Unconsumed = {}
<1>1. ASSUME NEW type \in EventTypes PROVE Unconsumable(type) = {}
  BY BuiltIsValid DEF Unconsumable
<1> QED
  BY <1>1 DEF Unconsumed

-----------------------------------------------------------------------------
\* Two events that replace a row have the same key exactly when they replace the same one.
LEMMA KeysNameRows ==
    ASSUME NEW type \in EventTypes \ {"audio.segment.ready"}, NEW p, NEW q,
           RowReplaced(type, p) # {}, RowReplaced(type, q) # {}
    PROVE  IdempotencyKey(type, p) = IdempotencyKey(type, q)
              <=> RowReplaced(type, p) = RowReplaced(type, q)
<1>1. CASE type = "audio.metadata"
  <2>1. ASSUME NEW e
        PROVE  /\ IdempotencyKey(type, e) = <<type, RunIdOf(e), e["track_id"].text>>
               /\ RowReplaced(type, e) = {<<RunIdOf(e), e["track_id"].text>>}
    BY <1>1 DEF IdempotencyKey, RowReplaced
  <2>2. /\ IdempotencyKey(type, p) = <<type, RunIdOf(p), p["track_id"].text>>
        /\ RowReplaced(type, p) = {<<RunIdOf(p), p["track_id"].text>>}
    BY <2>1
  <2>3. /\ IdempotencyKey(type, q) = <<type, RunIdOf(q), q["track_id"].text>>
        /\ RowReplaced(type, q) = {<<RunIdOf(q), q["track_id"].text>>}
    BY <2>1
  <2>4. RowReplaced(type, p) = RowReplaced(type, q)
          <=> <<RunIdOf(p), p["track_id"].text>> = <<RunIdOf(q), q["track_id"].text>>
    BY <2>2, <2>3, Zenon
  <2> QED
    BY <2>2, <2>3, <2>4
<1>2. CASE type = "audio.features"
  <2>1. ASSUME NEW e
        PROVE  /\ IdempotencyKey(type, e) =
                    <<type, RunIdOf(e), e["track_id"].text, e["segment_idx"].text>>
               /\ RowReplaced(type, e) =
                    {<<RunIdOf(e), e["track_id"].text, e["segment_idx"].text>>}
    BY <1>2 DEF IdempotencyKey, RowReplaced
  <2>2. /\ IdempotencyKey(type, p) =
              <<type, RunIdOf(p), p["track_id"].text, p["segment_idx"].text>>
        /\ RowReplaced(type, p) = {<<RunIdOf(p), p["track_id"].text, p["segment_idx"].text>>}
    BY <2>1
  <2>3. /\ IdempotencyKey(type, q) =
              <<type, RunIdOf(q), q["track_id"].text, q["segment_idx"].text>>
        /\ RowReplaced(type, q) = {<<RunIdOf(q), q["track_id"].text, q["segment_idx"].text>>}
    BY <2>1
  <2>4. RowReplaced(type, p) = RowReplaced(type, q)
          <=> <<RunIdOf(p), p["track_id"].text, p["segment_idx"].text>>
                = <<RunIdOf(q), q["track_id"].text, q["segment_idx"].text>>
    BY <2>2, <2>3, Zenon
  <2> QED
    BY <2>2, <2>3, <2>4
<1>3. CASE type = "system.metrics"
  <2>1. ASSUME NEW e, RowReplaced(type, e) # {}
        PROVE  /\ IdempotencyKey(type, e) =
                    <<type, RunIdOf(e), e["service_name"].text, e["metric_name"].text,
                      LabelsOf(e), LabelsOf(e)>>
               /\ RowReplaced(type, e) =
                    {<<RunIdOf(e), e["service_name"].text, e["metric_name"].text, LabelsOf(e)>>}
    <3>1. LabelsOf(e) \in ReplaySafeScopes
      BY <1>3, <2>1 DEF RowReplaced
    <3>2. LabelsOf(e) \in KeyedScopes
      BY <3>1 DEF ReplaySafeScopes, KeyedScopes
    <3>3. RowReplaced(type, e) =
            {<<RunIdOf(e), e["service_name"].text, e["metric_name"].text, LabelsOf(e)>>}
      BY <1>3, <3>1 DEF RowReplaced
    <3> QED
      BY <1>3, <3>2, <3>3 DEF IdempotencyKey
  <2>2. /\ IdempotencyKey(type, p) =
              <<type, RunIdOf(p), p["service_name"].text, p["metric_name"].text,
                LabelsOf(p), LabelsOf(p)>>
        /\ RowReplaced(type, p) =
              {<<RunIdOf(p), p["service_name"].text, p["metric_name"].text, LabelsOf(p)>>}
    BY <2>1
  <2>3. /\ IdempotencyKey(type, q) =
              <<type, RunIdOf(q), q["service_name"].text, q["metric_name"].text,
                LabelsOf(q), LabelsOf(q)>>
        /\ RowReplaced(type, q) =
              {<<RunIdOf(q), q["service_name"].text, q["metric_name"].text, LabelsOf(q)>>}
    BY <2>1
  <2>4. RowReplaced(type, p) = RowReplaced(type, q)
          <=> <<RunIdOf(p), p["service_name"].text, p["metric_name"].text, LabelsOf(p)>>
                = <<RunIdOf(q), q["service_name"].text, q["metric_name"].text, LabelsOf(q)>>
    BY <2>2, <2>3, Zenon
  <2> QED
    BY <2>2, <2>3, <2>4
<1> QED
  BY <1>1, <1>2, <1>3 DEF EventTypes

\* Neither is a pair of the examples.
LEMMA NoneConfused == ConfusedEvents = {}
<1>1. ASSUME NEW type \in EventTypes \ {"audio.segment.ready"} PROVE Confused(type) = {}
  <2>1. \A p \in Replacing(type) : RowReplaced(type, p) # {}
    BY DEF Replacing
  <2>2. \A p, q \in Replacing(type) :
           IdempotencyKey(type, p) = IdempotencyKey(type, q)
              <=> RowReplaced(type, p) = RowReplaced(type, q)
    BY <2>1, KeysNameRows
  <2>3. ASSUME NEW e \in Confused(type) PROVE FALSE
    <3>1. /\ e[1] \in Replacing(type) /\ e[2] \in Replacing(type)
          /\ (IdempotencyKey(type, e[1]) = IdempotencyKey(type, e[2]))
               # (RowReplaced(type, e[1]) = RowReplaced(type, e[2]))
      BY DEF Confused
    <3> QED
      BY <2>2, <3>1
  <2> QED
    BY <2>3
<1> QED
  BY <1>1 DEF ConfusedEvents

-----------------------------------------------------------------------------
\* One step of PathParts, what it ends with, and the beginnings of a path.
KeptNext(path, kept) ==
    [n \in 0..Len(path) |->
        IF n = 0 THEN <<>>
        ELSE IF path[n] \in Dropped THEN kept[n - 1]
        ELSE Append(kept[n - 1], path[n])]
Kept(path) == CHOOSE kept : kept = KeptNext(path, kept)
StartsOf(path) == [n \in 0..Len(path) |-> SubSeq(path, 1, n)]

\* PathParts returns the last of the values so built.
LEMMA PathPartsKept ==
    ASSUME NEW path PROVE PathParts(path) = Kept(path)[Len(path)]
BY DEF PathParts, Kept, KeptNext

\* A path without parts that are dropped is kept as it is.
LEMMA PlainPath ==
    ASSUME NEW T, NEW path \in Seq(T), \A n \in 1..Len(path) : path[n] \notin Dropped
    PROVE  PathParts(path) = path
<1> DEFINE kept == Kept(path)
           prefix == StartsOf(path)
           Other == {n \in 0..Len(path) : kept[n] # prefix[n]}
<1>1. Len(path) \in Nat
  OBVIOUS
<1> HIDE DEF kept, prefix
<1>2. ASSUME NEW n \in 1..Len(path)
      PROVE  prefix[n] = Append(prefix[n - 1], path[n])
  <2>1. n - 1 \in 0..Len(path) /\ n \in 0..Len(path)
    BY <1>1
  <2>2. prefix[n] = SubSeq(path, 1, n) /\ prefix[n - 1] = SubSeq(path, 1, n - 1)
    BY <2>1 DEF prefix, StartsOf
  <2>3. SubSeq(path, 1, n) = Append(SubSeq(path, 1, n - 1), path[n])
    <3>1. SubSeq(path, 1, n) = SubSeq(path, 1, n - 1) \o <<path[n]>>
      BY SubSeqRecursiveSecond, <1>1
    <3>2. SubSeq(path, 1, n - 1) \in Seq(T) /\ path[n] \in T
      BY <1>1
    <3> QED
      BY <3>1, <3>2
  <2> QED
    BY <2>2, <2>3
<1>3. prefix[0] = <<>>
  BY <1>1 DEF prefix, StartsOf
<1>4. prefix = KeptNext(path, prefix)
  <2>1. ASSUME NEW n \in 0..Len(path)
        PROVE  prefix[n] = KeptNext(path, prefix)[n]
    <3>1. n = 0 \/ n \in 1..Len(path)
      BY <1>1
    <3> QED
      BY <1>2, <1>3, <3>1 DEF KeptNext
  <2>2. prefix = [n \in 0..Len(path) |-> prefix[n]]
    BY DEF prefix, StartsOf
  <2> QED
    BY <2>1, <2>2 DEF KeptNext
<1>5. kept = KeptNext(path, kept)
  BY <1>4 DEF kept, Kept
<1>6. Other = {}
  <2> SUFFICES ASSUME Other # {} PROVE FALSE
    OBVIOUS
  <2>1. Other \subseteq Nat
    BY <1>1
  <2>2. PICK n \in Other : \A m \in Other : ~ (<<m, n>> \in OpToRel(<, Nat))
    BY <2>1, NatLessThanWellFounded, WFMin
  <2>3. n \in 0..Len(path) /\ kept[n] # prefix[n]
    BY <2>2
  <2>4. n # 0
    BY <1>3, <1>5, <2>3 DEF KeptNext
  <2>5. n \in 1..Len(path) /\ n - 1 \in 0..Len(path)
    BY <1>1, <2>3, <2>4
  <2>6. kept[n - 1] = prefix[n - 1]
    <3>1. n - 1 \in Nat /\ n \in Nat /\ n - 1 < n
      BY <1>1, <2>5
    <3>2. <<n - 1, n>> \in OpToRel(<, Nat)
      BY <3>1 DEF OpToRel
    <3> QED
      BY <2>2, <2>5, <3>2
  <2>7. kept[n] = Append(kept[n - 1], path[n])
    <3>1. path[n] \notin Dropped /\ n # 0
      BY <1>1, <2>5
    <3>2. kept[n] = KeptNext(path, kept)[n]
      BY <1>5
    <3> QED
      BY <2>3, <3>1, <3>2 DEF KeptNext
  <2> QED
    BY <1>2, <2>3, <2>5, <2>6, <2>7
<1>7. kept[Len(path)] = prefix[Len(path)]
  BY <1>1, <1>6
<1>8. prefix[Len(path)] = path
  BY <1>1, SubSeqFull DEF prefix, StartsOf
<1> QED
  BY <1>7, <1>8, PathPartsKept DEF kept

\* The parts of a segment's key.
LEMMA SegmentKeyIs ==
    ASSUME NEW run, NEW id, NEW n
    PROVE  LET key == SegmentKey(run, id, n)
               parts == {"runs", run, "segments", ToString(id), WavName(n)}
           IN  /\ key \in Seq(parts) /\ Len(key) = 5
               /\ \A i \in 1..Len(key) : key[i] \in parts
               /\ key[4] = ToString(id) /\ key[5] = WavName(n)
BY DEF SegmentKey

\* The parts of a manifest's key.
LEMMA ManifestKeyIs ==
    ASSUME NEW run
    PROVE  LET key == ManifestKey(run)
               parts == {"runs", run, "manifests", "segments.parquet"}
           IN  /\ key \in Seq(parts) /\ Len(key) = 4
               /\ \A i \in 1..Len(key) : key[i] \in parts
BY DEF ManifestKey

\* A URI is resolved in the store of its scheme, to the key it is parsed to.
LEMMA ResolvedAsParsed ==
    ASSUME NEW uri, ParseArtifactUri(uri).key # <<>>
    PROVE  /\ KeyIn(StoreFor(uri), uri) = ParseArtifactUri(uri).key
           /\ StoreFor(uri) = "minio" => uri.bucket = Bucket
<1>1. Absent # "s3"
  BY Zenon DEF Absent
<1> DEFINE A == uri.scheme = "s3" /\ uri.bucket = Bucket /\ ~uri.query /\ Safe(uri.path)
           B == IsLogical(uri) /\ Safe(Tail(uri.path))
<1>2. CASE A
  <2>1. ~B
    BY <1>1, <1>2 DEF IsLogical
  <2>2. ParseArtifactUri(uri) = [scheme |-> "s3", key |-> uri.path]
    BY <1>2, <2>1 DEF ParseArtifactUri
  <2> QED
    BY <1>2, <2>2 DEF KeyIn, StoreFor, S3Key
<1>3. CASE ~A /\ B
  <2>1. ParseArtifactUri(uri) = [scheme |-> "local", key |-> PathParts(Tail(uri.path))]
    BY <1>3 DEF ParseArtifactUri
  <2>2. uri.scheme # "s3"
    BY <1>1, <1>3 DEF IsLogical
  <2> QED
    BY <2>1, <2>2 DEF KeyIn, StoreFor, LocalKey
<1>4. CASE ~A /\ ~B
  <2>1. ParseArtifactUri(uri) = Refused
    BY <1>4 DEF ParseArtifactUri
  <2> QED
    BY <2>1 DEF Refused
<1> QED
  BY <1>2, <1>3, <1>4

\* What a backend writes under a key without unsafe parts is parsed back to that key.
LEMMA ParsedAsWritten ==
    ASSUME NEW T, NEW key \in Seq(T), key # <<>>, \A i \in 1..Len(key) : key[i] \notin Unsafe,
           NEW kind \in Backends
    PROVE  /\ ParseArtifactUri(UriIn(kind, key)).key = key
           /\ StoreFor(UriIn(kind, key)) = kind
<1>1. Absent # "s3"
  BY Zenon DEF Absent
<1>2. \A i \in 1..Len(key) : key[i] \notin Dropped
  BY DEF Dropped
<1>3. PathParts(key) = key
  BY <1>2, PlainPath
<1>4. Safe(key)
  BY <1>2, <1>3 DEF Safe, Range
<1>5. CASE kind = "minio"
  <2>1. UriIn(kind, key) = [scheme |-> "s3", bucket |-> Bucket, query |-> FALSE, path |-> key]
    BY <1>5 DEF UriIn, S3Uri
  <2> DEFINE uri == UriIn(kind, key)
  <2>2. uri.scheme = "s3" /\ uri.bucket = Bucket /\ uri.query = FALSE /\ uri.path = key
    BY <2>1
  <2> HIDE DEF uri
  <2>3. ~IsLogical(uri)
    BY <1>1, <2>2 DEF IsLogical
  <2>4. ParseArtifactUri(uri) = [scheme |-> "s3", key |-> key]
    BY <1>4, <2>2, <2>3 DEF ParseArtifactUri
  <2>5. StoreFor(uri) = kind
    BY <1>5, <2>2 DEF StoreFor
  <2> QED
    BY <2>4, <2>5 DEF uri
<1>6. CASE kind = "local"
  <2> DEFINE uri == UriIn(kind, key)
  <2>1. uri.scheme = Absent /\ uri.path = <<"artifacts">> \o key
    BY <1>6 DEF UriIn, LogicalUri
  <2> HIDE DEF uri
  <2>2. Head(uri.path) = "artifacts" /\ Tail(uri.path) = key /\ uri.path # <<>>
    BY <2>1
  <2>3. IsLogical(uri) /\ uri.scheme # "s3"
    BY <1>1, <2>1, <2>2 DEF IsLogical
  <2>4. ParseArtifactUri(uri) = [scheme |-> "local", key |-> key]
    BY <1>3, <1>4, <2>2, <2>3 DEF ParseArtifactUri
  <2>5. StoreFor(uri) = kind
    BY <1>6, <2>3 DEF StoreFor
  <2> QED
    BY <2>4, <2>5 DEF uri
<1> QED
  BY <1>5, <1>6 DEF Backends

\* The fixed parts of a key are safe.
LEMMA FixedParts == {"runs", "segments", "manifests", "segments.parquet"} \cap Unsafe = {}
BY Zenon DEF Unsafe

\* A URI that passes validation for a segment resolves to that segment's object, in the
\* bucket it names, and passes for no other segment and no manifest.
THEOREM NoneMisnamed == Misnaming = {}
<1>1. ASSUME NEW uri, NEW run, NEW id \in TrackIds, NEW n \in Indexes,
             NamesSegment(uri, run, id, n)
      PROVE  NamesOnly(uri, run, id, n)
  <2> DEFINE key == SegmentKey(run, id, n)
  <2>1. ParseArtifactUri(uri).key = key /\ Len(key) = 5 /\ key # <<>>
    <3>1. ParseArtifactUri(uri).key = key
      BY <1>1 DEF NamesSegment
    <3>2. Len(key) = 5
      BY SegmentKeyIs
    <3> HIDE DEF key
    <3> QED
      BY <3>1, <3>2
  <2>2. ASSUME NEW r PROVE ~NamesManifest(uri, r)
    <3>1. Len(ManifestKey(r)) = 4
      BY ManifestKeyIs
    <3>2. SegmentKey(run, id, n) # ManifestKey(r)
      <4>1. Len(key) = 5
        BY <2>1
      <4> HIDE DEF key
      <4> QED
        BY <3>1, <4>1 DEF key
    <3> QED
      BY <2>1, <3>2 DEF NamesManifest
  <2>3. ASSUME NEW t \in TrackIds, NEW i \in Indexes, NamesSegment(uri, run, t, i)
        PROVE  t = id /\ i = n
    <3>1. SegmentKey(run, t, i) = key
      BY <2>1, <2>3 DEF NamesSegment
    <3>2. SegmentKey(run, t, i)[4] = ToString(t) /\ SegmentKey(run, t, i)[5] = WavName(i)
      BY SegmentKeyIs
    <3>3. key[4] = ToString(id) /\ key[5] = WavName(n)
      BY SegmentKeyIs
    <3> HIDE DEF key
    <3>4. ToString(t) = ToString(id) /\ WavName(i) = WavName(n)
      BY <3>1, <3>2, <3>3
    <3> QED
      BY <3>4, NamesAssumption
  <2>4. /\ KeyIn(StoreFor(uri), uri) = key
        /\ StoreFor(uri) = "minio" => uri.bucket = Bucket
    BY <2>1, ResolvedAsParsed
  <2> QED
    BY <2>2, <2>3, <2>4 DEF NamesOnly
<1> QED
  BY <1>1 DEF Misnaming

\* The URIs a backend writes for a valid run pass validation, and are read from that backend.
THEOREM NoneUnreadable == Unreadable = {}
<1>1. ASSUME NEW kind \in Backends, NEW run \in RunIds, RunIdIsValid(run)
      PROVE  WritesReadable(kind, run)
  <2>1. run \notin Unsafe
    BY <1>1 DEF RunIdIsValid
  <2>2. /\ ParseArtifactUri(UriIn(kind, ManifestKey(run))).key = ManifestKey(run)
        /\ StoreFor(UriIn(kind, ManifestKey(run))) = kind
    <3> DEFINE key == ManifestKey(run)
               parts == {"runs", run, "manifests", "segments.parquet"}
    <3>1. key \in Seq(parts) /\ Len(key) = 4 /\ \A i \in 1..Len(key) : key[i] \in parts
      BY ManifestKeyIs
    <3>2. \A part \in parts : part \notin Unsafe
      BY <2>1, FixedParts
    <3> HIDE DEF key, parts
    <3>3. key # <<>> /\ \A i \in 1..Len(key) : key[i] \notin Unsafe
      BY <3>1, <3>2
    <3> QED
      BY <3>1, <3>3, ParsedAsWritten DEF key
  <2>3. ASSUME NEW id \in TrackIds, NEW n \in Indexes
        PROVE  /\ ParseArtifactUri(UriIn(kind, SegmentKey(run, id, n))).key = SegmentKey(run, id, n)
               /\ StoreFor(UriIn(kind, SegmentKey(run, id, n))) = kind
    <3> DEFINE key == SegmentKey(run, id, n)
               parts == {"runs", run, "segments", ToString(id), WavName(n)}
    <3>1. key \in Seq(parts) /\ Len(key) = 5 /\ \A i \in 1..Len(key) : key[i] \in parts
      BY SegmentKeyIs
    <3>2. ToString(id) \notin Unsafe /\ WavName(n) \notin Unsafe
      BY NamesAssumption
    <3>3. \A part \in parts : part \notin Unsafe
      BY <2>1, <3>2, FixedParts
    <3> HIDE DEF key, parts
    <3>4. key # <<>> /\ \A i \in 1..Len(key) : key[i] \notin Unsafe
      BY <3>1, <3>3
    <3> QED
      BY <3>1, <3>4, ParsedAsWritten DEF key
  <2> QED
    BY <1>1, <2>2, <2>3 DEF WritesReadable, NamesManifest, NamesSegment
<1> QED
  BY <1>1 DEF Unreadable
=============================================================================
