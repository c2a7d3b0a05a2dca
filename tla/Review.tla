-------------------------------- MODULE Review --------------------------------
(***************************************************************************)
(* The review service: it answers one request at a time from the views of  *)
(* the database and from the claim-check store, each read on its own, with *)
(* ingestion and the writer going on in between.  The page in the browser  *)
(* asks for the next page of a list for as long as the last one said that  *)
(* there is more.                                                          *)
(***************************************************************************)
EXTENDS RunStore, Functions

CONSTANTS
    RunIds,         \* the runs of the list of runs
    Pinned,         \* the order of those the demo mode shows
    Requested,      \* the limits a request may carry
    NoLimit,        \* the limit of a request that names none
    DefaultLimit,
    MaxLimit,
    MaxRequests     \* bound: lists browsed and details asked for

ASSUME ReviewAssumption ==
    /\ IsFiniteSet(RunIds)
    /\ DOMAIN Pinned \subseteq Nat
    /\ Requested \subseteq Int \cup {NoLimit}
    /\ DefaultLimit \in 1 .. MaxLimit /\ MaxLimit \in Nat
    /\ MaxRequests \in Nat

VARIABLES
    rpc,            \* the step the request is at, or the list that is browsed
    asked,          \* what it asks for
    seen,           \* what it has read so far
    answer,         \* the last answer
    shown,          \* history: the rows the pages of the list have shown
    due,            \* history: the rows to show, those there on the first page
    recency,        \* recency[r]: the place of run r when the latest row comes first
    requests        \* bounded counter

browsing == <<shown, due>>
reviewVars == <<rpc, asked, seen, answer, browsing, recency, requests>>

Lists == {"tracks", "runs", "pinned"}
None == [kind |-> "none"]

-----------------------------------------------------------------------------
\* normalize_limit and normalize_offset refuse a request with status 400.
LimitAllowed(limit) == limit = NoLimit \/ limit > 0
OffsetAllowed(offset) == offset >= 0
PageLimit(limit) ==
    IF limit = NoLimit THEN DefaultLimit
    ELSE IF limit > MaxLimit THEN MaxLimit ELSE limit

\* ORDER BY: ranks[r] is what row r is ordered by, and its place counts from 1.
Place(ranks, row) == Cardinality({r \in DOMAIN ranks : ranks[r] <= ranks[row]})

\* LIMIT and OFFSET.
Items(ranks, limit, offset) ==
    {row \in DOMAIN ranks : Place(ranks, row) \in offset + 1 .. offset + limit}

\* Mutant of Page: the total counts the rows of the page.
PageTotalOfItems(ranks, limit, offset) ==
    LET items == Items(ranks, limit, offset)
    IN  [items |-> items, total |-> Cardinality(items),
         has_more |-> offset + Cardinality(items) < Cardinality(DOMAIN ranks)]

\* Mutant of Page: off by one at the end of the list.
PageWithoutLast(ranks, limit, offset) ==
    LET items == Items(ranks, limit, offset)
        total == IF items = {} THEN 0 ELSE Cardinality(DOMAIN ranks)
    IN  [items |-> items, total |-> total,
         has_more |-> offset + Cardinality(items) + 1 < total]

\* COUNT(*) OVER () comes with a row: a page without rows has the total 0.
Page(ranks, limit, offset) ==
    LET items == Items(ranks, limit, offset)
        total == IF items = {} THEN 0 ELSE Cardinality(DOMAIN ranks)
    IN  [items |-> items, total |-> total, has_more |-> offset + Cardinality(items) < total]

TrackRanks == [t \in StoredTracks |-> t]
SegmentRanks(t) == [s \in {s \in StoredFeatures : s[1] = t} |-> s[2]]
PinnedRanks == [r \in Range(Pinned) \cap DOMAIN recency |->
                    CHOOSE i \in DOMAIN Pinned : Pinned[i] = r]

RanksOf(list) ==
    CASE list = "tracks" -> TrackRanks
      [] list = "runs" -> recency
      [] list = "pinned" -> PinnedRanks

-----------------------------------------------------------------------------
RunState(summary) ==
    IF summary.segments_persisted > 0 /\ summary.error_count = 0
    THEN IF summary.validation_failures = 0 THEN "persisted" ELSE "mixed"
    ELSE IF summary.validation_failures > 0 /\ summary.tracks_total > 0 THEN "metadata_only"
    ELSE IF summary.error_count > 0 THEN "errors" ELSE "empty"

TrackState(persisted) == IF persisted > 0 THEN "persisted" ELSE "metadata_only"

\* segments_total, another signal, is not modelled: it comes with tracks_total.
HasAnyRunSignal(summary) == \E field \in DOMAIN summary : summary[field] > 0

MetadataStage(summary) == IF HasAnyRunSignal(summary) THEN "ready" ELSE "empty"

ValidationStage(summary, outcomes) ==
    IF ~HasAnyRunSignal(summary) THEN "empty"
    ELSE IF summary.validation_failures > 0 THEN "degraded"
    ELSE IF outcomes # {} THEN "ready" ELSE "unknown"

FeaturesStage(summary) ==
    IF summary.error_count > 0 THEN "failed"
    ELSE IF summary.segments_persisted > 0 THEN "ready" ELSE "empty"

\* A processing state that cannot be parsed outweighs a manifest that is there.
ArtifactsStage(summary, manifestExists, readError) ==
    IF summary.segments_persisted = 0 THEN "empty"
    ELSE IF readError THEN "degraded"
    ELSE IF manifestExists THEN "ready" ELSE "degraded"

ReviewStage(upstream) ==
    IF upstream = {"empty"} THEN "empty"
    ELSE IF upstream = {"ready"} THEN "ready"
    ELSE IF "unknown" \in upstream THEN "unknown" ELSE "degraded"

PipelineStages(summary, outcomes, manifestExists, readError) ==
    LET upstream == [metadata |-> MetadataStage(summary),
                     validation |-> ValidationStage(summary, outcomes),
                     features |-> FeaturesStage(summary),
                     artifacts |-> ArtifactsStage(summary, manifestExists, readError)]
    IN  [upstream |-> upstream, review |-> ReviewStage({upstream[s] : s \in DOMAIN upstream})]

-----------------------------------------------------------------------------
ReviewInit ==
    /\ rpc = "idle" /\ asked = None /\ seen = None /\ answer = None
    /\ shown = {} /\ due = {}
    /\ recency = [r \in {} |-> 1]
    /\ requests = 0

Ask(step, what) ==
    /\ rpc = "idle"
    /\ requests < MaxRequests
    /\ requests' = requests + 1
    /\ rpc' = step
    /\ asked' = what
    /\ seen' = None
    /\ answer' = None

Answer(what) ==
    /\ rpc' = "idle"
    /\ answer' = what
    /\ UNCHANGED <<asked, seen, browsing, recency, requests>>

Read(step, what) ==
    /\ rpc' = step
    /\ seen' = what
    /\ UNCHANGED <<asked, answer, browsing, recency, requests>>

Refuse ==
    /\ rpc' = "idle"
    /\ asked' = None /\ seen' = None
    /\ answer' = [kind |-> "bad_request"]
    /\ UNCHANGED <<browsing, recency>>

\* A list with its first page: what it shows is due to be shown by the end.
Browse(list) ==
    /\ rpc = "idle"
    /\ requests < MaxRequests
    /\ requests' = requests + 1
    /\ \E limit \in Requested :
          IF LimitAllowed(limit)
          THEN /\ rpc' = list
               /\ asked' = [kind |-> "page", limit |-> PageLimit(limit), offset |-> 0]
               /\ seen' = None /\ answer' = None
               /\ shown' = {} /\ due' = {}
               /\ UNCHANGED recency
          ELSE Refuse

ShowPage(list) ==
    /\ rpc = list
    /\ LET page == Page(RanksOf(list), asked.limit, asked.offset)
       IN  /\ shown' = shown \cup page.items
           /\ due' = IF asked.offset = 0 THEN DOMAIN RanksOf(list) ELSE due
           /\ IF page.has_more
              THEN /\ asked' = [asked EXCEPT !.offset = @ + asked.limit]
                   /\ UNCHANGED <<rpc, answer>>
              ELSE /\ rpc' = "idle"
                   /\ answer' = [kind |-> "list_end"]
                   /\ UNCHANGED asked
    /\ UNCHANGED <<seen, recency, requests>>

AskRun ==
    /\ Ask("summary", None)
    /\ UNCHANGED <<browsing, recency>>

QuerySummary ==
    /\ rpc = "summary"
    /\ IF RunIsKnown
       THEN Read("outcomes", [summary |-> RunSummary])
       ELSE Answer([kind |-> "not_found", row |-> FALSE])

QueryOutcomes ==
    /\ rpc = "outcomes"
    /\ Read("manifest", [summary |-> seen.summary,
                         outcomes |-> {status[t] : t \in StoredTracks}])

\* The manifest is looked up in the claim-check store; a torn one exists, too.
CheckManifest ==
    /\ rpc = "manifest"
    /\ Read("state", [summary |-> seen.summary, outcomes |-> seen.outcomes,
                      exists |-> ~readable \/ \E s \in Segments : manifest[s] # "missing"])

\* The processing state, read last; what cannot be parsed is reported with the answer.
ReadState ==
    /\ rpc = "state"
    /\ LET readError == ~stateReadable
       IN  Answer([kind |-> "run", summary |-> seen.summary, state |-> RunState(seen.summary),
                   read_error |-> readError,
                   stages |-> PipelineStages(seen.summary, seen.outcomes, seen.exists, readError)])

AskTrack ==
    /\ \E t \in Tracks, limit \in Requested, offset \in 0 - 1 .. MaxSegments :
          IF LimitAllowed(limit) /\ OffsetAllowed(offset)
          THEN /\ Ask("track", [kind |-> "track", track |-> t,
                                limit |-> PageLimit(limit), offset |-> offset])
               /\ UNCHANGED <<browsing, recency>>
          ELSE /\ rpc = "idle" /\ requests < MaxRequests
               /\ requests' = requests + 1
               /\ Refuse

QueryTrack ==
    /\ rpc = "track"
    /\ IF status[asked.track] # "none"
       THEN Read("segments", [persisted |-> PersistedOf(asked.track)])
       ELSE Answer([kind |-> "not_found", row |-> FALSE])

\* The segments of the track with, for each of them, whether its artifact is there.
QuerySegments ==
    /\ rpc = "segments"
    /\ LET page == Page(SegmentRanks(asked.track), asked.limit, asked.offset)
       IN  Answer([kind |-> "track", persisted |-> seen.persisted,
                   state |-> TrackState(seen.persisted), page |-> page,
                   exists |-> {s \in page.items : artifact[s] # "missing"}])

AskMedia ==
    /\ \E s \in Segments : Ask("media", [kind |-> "media", segment |-> s])
    /\ UNCHANGED <<browsing, recency>>

LookupSegment ==
    /\ rpc = "media"
    /\ IF feature[asked.segment] # "none"
       THEN Read("exists", [checksum |-> feature[asked.segment]])
       ELSE Answer([kind |-> "not_found", row |-> FALSE])

CheckExists ==
    /\ rpc = "exists"
    /\ IF artifact[asked.segment] # "missing"
       THEN Read("checksum", seen)
       ELSE Answer([kind |-> "not_found", row |-> TRUE])

\* Status 409 when the checksum is another one; otherwise the file is opened again to be sent.
CompareChecksum ==
    /\ rpc = "checksum"
    /\ IF artifact[asked.segment] = "missing"
       THEN Answer([kind |-> "not_found", row |-> TRUE])
       ELSE IF artifact[asked.segment] # seen.checksum THEN Answer([kind |-> "conflict"])
       ELSE Read("send", seen)

SendSegment ==
    /\ rpc = "send"
    /\ Answer([kind |-> "media", content |-> artifact[asked.segment]])

ReviewStep ==
    \/ Browse("tracks") \/ ShowPage("tracks")
    \/ AskRun \/ QuerySummary \/ QueryOutcomes \/ CheckManifest \/ ReadState
    \/ AskTrack \/ QueryTrack \/ QuerySegments
    \/ AskMedia \/ LookupSegment \/ CheckExists \/ CompareChecksum \/ SendSegment

\* One row of a run makes it the latest; a new run enters the list there.
RunActive(r) ==
    /\ recency' = [q \in DOMAIN recency \cup {r} |->
                      IF q = r THEN 1
                      ELSE IF r \in DOMAIN recency /\ recency[q] > recency[r] THEN recency[q]
                      ELSE recency[q] + 1]
    /\ due' = IF rpc = "runs" THEN due \ {r} ELSE due
    /\ UNCHANGED <<rpc, asked, seen, answer, shown, requests>>

ListRunsStep ==
    \/ \E list \in {"runs", "pinned"} : Browse(list) \/ ShowPage(list)
    \/ \E r \in RunIds : RunActive(r)

-----------------------------------------------------------------------------
ReviewTypeOK ==
    /\ rpc \in Lists \cup {"idle", "summary", "outcomes", "manifest", "state", "track", "segments",
                          "media", "exists", "checksum", "send"}
    /\ due \subseteq Tracks \cup RunIds /\ shown \subseteq Tracks \cup RunIds
    /\ DOMAIN recency \subseteq RunIds
    /\ \A r \in DOMAIN recency : recency[r] \in Nat \ {0}
    /\ requests \in 0 .. MaxRequests

(***************************************************************************)
(* Paging to the end shows every row that was there on the first page,     *)
(* whatever is stored between the pages: tracks and pinned runs keep their *)
(* order and only gain rows, and in the list of runs only a run that has   *)
(* had activity in the meantime can be skipped (list_tracks_for_run,       *)
(* list_runs, build_page_payload).                                         *)
(***************************************************************************)
PagingMissesNothing == answer.kind = "list_end" => due \subseteq shown

(***************************************************************************)
(* The number of segments in the header of a track is read before its      *)
(* page of segments and is never ahead of the total that page names, even  *)
(* while the writer stores and replays segments (get_track_detail).        *)
(***************************************************************************)
HeaderNeverAhead ==
    answer.kind = "track" /\ answer.page.items # {} => answer.persisted <= answer.page.total

(***************************************************************************)
(* What has a row has an artifact: the page of a track never shows a       *)
(* segment without one, and the media route never answers 404 for a stored *)
(* segment, only 409 while its artifact is being replaced                  *)
(* (get_track_detail, media_segment).                                      *)
(***************************************************************************)
ListedIsFound ==
    /\ answer.kind = "track" => answer.exists = answer.page.items
    /\ answer.kind = "not_found" => ~answer.row

(***************************************************************************)
(* As long as one job at a time writes the run, a run detail that counts   *)
(* persisted segments never misses their manifest, which is looked up      *)
(* after they were counted, was there before the first of them was         *)
(* announced, and stays: their artifacts are ready, and they are degraded  *)
(* only when the answer also reports a processing state it could not       *)
(* parse, as replicas that share a temporary file can leave it             *)
(* (get_run_detail, _derive_artifacts_stage).                              *)
(***************************************************************************)
CountedArtifactsAreReady ==
    answer.kind = "run" /\ ~shared /\ answer.summary.segments_persisted > 0 =>
        answer.stages.upstream.artifacts = IF answer.read_error THEN "degraded" ELSE "ready"

(***************************************************************************)
(* review/schemas.py, derive_run_state: the reason given for the state     *)
(* "metadata_only" says that the tracks are in the metadata but no         *)
(* segments have reached the persisted features yet.                       *)
(***************************************************************************)
MetadataOnlyMeansNoSegments ==
    answer.kind = "run" /\ answer.state = "metadata_only" =>
        answer.summary.segments_persisted = 0
=============================================================================
