------------------------------ MODULE MCSurfaces ------------------------------
(***************************************************************************)
(* Instances of Surfaces for TLC.                                          *)
(***************************************************************************)
EXTENDS Surfaces

\* A run of the first tracks, each with the segments of its versions c1 and c2; the other
\* tracks do not belong to it.
RunOf(sharing, segments, accidents) ==
    [shared |-> sharing,
     count |-> [t \in Tracks |-> [c \in Contents |->
                   IF t \notin DOMAIN segments THEN 0
                   ELSE IF c = "c1" THEN segments[t][1] ELSE segments[t][2]]],
     may |-> [t \in Tracks |-> IF t \in DOMAIN segments THEN accidents ELSE {}]]

\* Two tracks of one version, written by one job or by two; a track of two segments that
\* is replaced, by two segments or by one; tracks of one segment where anything may
\* happen; three tracks to page through.
MCRuns ==
    {RunOf(FALSE, <<<<2, 2>>, <<1, 1>>>>, {"c1", "validated"}),
     RunOf(TRUE, <<<<1, 1>>, <<1, 1>>>>, {"c1", "validated"}),
     RunOf(FALSE, <<<<2, 2>>>>, {"c1", "c2", "validated"}),
     RunOf(FALSE, <<<<2, 1>>>>, {"c1", "c2", "validated"}),
     RunOf(FALSE, <<<<1, 1>>>>, {"c1", "c2", "torn", "validated", "again"}),
     RunOf(FALSE, <<<<1, 1>>>>, {"c1", "validated", "rejected", "totals", "error", "scaled"}),
     RunOf(FALSE, <<<<0, 0>>, <<0, 0>>, <<0, 0>>>>, {"rejected", "totals"})}

MCArtistOf == [t \in Tracks |-> t]
MCPinned == <<3, 1>>

-----------------------------------------------------------------------------
Track(t, state, subset, artist, segments) ==
    [id |-> t, status |-> state, subset |-> subset, artist |-> artist, segments |-> segments]
Feature(t, idx, uri, manifest_uri, mel) ==
    [track |-> t, idx |-> idx, uri |-> uri, checksum |-> "c1", manifest_uri |-> manifest_uri,
     mel |-> mel]
Row(t, idx, uri, checksum, own) ==
    [track |-> t, idx |-> idx, uri |-> uri, checksum |-> checksum, manifest_uri |-> "local",
     own |-> own]
Plain(t, idx) == Feature(t, idx, "local", "local", TRUE)
Listing(t, idx) == Row(t, idx, "local", "c1", TRUE)

Summary(failing, wrong, silent) ==
    [validation_failures |-> failing, processing_error_count |-> wrong,
     writer_error_count |-> wrong, silent |-> silent]

\* Tracks 1 to n with one segment each, of the given artists.
RunWith(n, artists) ==
    [snapshot |-> [summary |-> Summary(0, 0, FALSE),
                   tracks |-> {Track(t, "validated", "small", artists[t], 1) : t \in 1 .. n},
                   features |-> {Plain(t, 0) : t \in 1 .. n}],
     manifest |-> [named |-> TRUE, file |-> "whole", rows |-> {Listing(t, 0) : t \in 1 .. n}],
     found |-> [f \in {Plain(t, 0) : t \in 1 .. n} |-> "c1"]]

Splitting == 
    {RunWith(n, artists) : n \in 0 .. 3, artists \in [1 .. 3 -> {NoArtist, 1, 2}]}
    \cup {RunWith(4, [t \in 1 .. 4 |-> t \div 2 + 1])}

\* A run of one or two tracks where each source may be wrong about track 1.
Wrong ==
    {[snapshot |-> [summary |-> Summary(0, 1, TRUE), tracks |-> tracks, features |-> features],
      manifest |-> [named |-> named, file |-> file, rows |-> rows],
      found |-> [f \in features |-> content]] :
        tracks \in {{}, {Track(1, "validated", "small", 1, 1)},
                    {Track(1, "validated", "large", 1, 1)},
                    {Track(1, "silent", "small", 1, 0), Track(2, "validated", "small", 1, 1)}},
        features \in {{}, {Plain(1, 0)}, {Plain(1, 0), Plain(2, 0)},
                      {Plain(1, 0), Feature(1, 0, "s3", "local", TRUE)},
                      {Plain(1, 0), Feature(1, 1, "foreign", "", TRUE)},
                      {Feature(1, 0, "local", "s3", FALSE)}},
        named \in BOOLEAN, file \in {"absent", "torn", "whole"},
        rows \in {{}, {Listing(1, 0)}, {Listing(1, 0), Listing(1, 1), Listing(2, 0)},
                  {Listing(1, 0), Row(1, 0, "s3", "c2", TRUE)},
                  {Row(1, 0, "local", "c2", FALSE), Row(1, 1, "foreign", "c1", TRUE)}},
        content \in {"c1", "c2", "missing"}}

MCCases == Splitting \cup Wrong
=============================================================================
