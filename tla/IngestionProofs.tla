--------------------------- MODULE IngestionProofs ---------------------------
(***************************************************************************)
(* Proofs about Ingestion.tla, for any jobs, tracks, inputs, contents and  *)
(* bounds.                                                                 *)
(*                                                                         *)
(* Everything said of a job is said of the tracks of its allowlist, and    *)
(* no two allowlists share a track: so a step of another job leaves it     *)
(* alone, except for the manifest and the run totals, which are the job's  *)
(* own only while no other job has an allowlist.                           *)
(***************************************************************************)
EXTENDS Ingestion, EnvelopeProofs, SegmenterProofs

\* The stages of a job that has a track in hand, and those only a valid track reaches.
Working == Stages \ {"down", "next", "totals"}
Cutting == Working \ {"metadata"}

\* The tracks of a job that it has still to announce, and those it has announced.
Pending(j) == todo[j] \cup (IF pc[j] \in Working THEN {track[j]} ELSE {})
Handled(j) == Selected(j) \ Pending(j)

\* The version of a track that is there, or one it had before it was replaced.
Current(t, c) == struck["rewrite"] = 0 => c = audio[t]

\* The track is announced as it was found, and so are its segments.
DeliveredAs(t, c) ==
    /\ Current(t, c)
    /\ metadata[t] = Verdict(t, c).status
    /\ \A i \in 0 .. Count(t, c) - 1 :
          /\ announced[<<t, i>>] = c
          /\ artifact[<<t, i>>] = c
          /\ Shared \/ manifest[<<t, i>>] = c
Delivered(t) == \E c \in Contents : DeliveredAs(t, c)

\* The segments of tracks that have so many each, and the tracks that were rejected.
SegmentsWith(T, counts) == {s \in Segments : s[1] \in T /\ s[2] < counts[s[1]]}
FailuresWith(T, status) == {t \in T : status[t] # "validated"}
TotalsWith(T, status, counts) ==
    [tracks_total |-> Cardinality(T),
     segments_total |-> Cardinality(SegmentsWith(T, counts)),
     validation_failures |-> Cardinality(FailuresWith(T, status))]

\* What a reader is told of the tracks T.
AnnouncedCounts ==
    [t \in Tracks |-> IF metadata[t] = "validated" THEN Count(t, Latest(t)) ELSE 0]
TotalsOf(T) == TotalsWith(T, metadata, AnnouncedCounts)

\* The segments of each version of each track.
PublishedCount == [t \in Tracks |-> [c \in Contents |-> Count(t, c)]]

\* A track that has rows has all those of one version, and none beyond the end of its own.
HasWhole(rows, counts) ==
    /\ \A s \in Segments : rows[s] # "missing" => s[2] < counts[s[1]][rows[s]]
    /\ \A s \in Segments : rows[s] # "missing" =>
          \E c \in Contents :
             /\ counts[s[1]][c] > 0
             /\ \A u \in {s[1]} \X (0 .. counts[s[1]][c] - 1) : rows[u] = c

-----------------------------------------------------------------------------
\* A job has begun only with an allowlist and a catalogue it can load.
Begun(j) ==
    /\ pc[j] # "down" => allowed[j] # {} /\ LoadableCatalogue(j)
    /\ outcome[j] = "done" => allowed[j] # {} /\ pc[j] = "down"
    /\ pc[j] = "down" => todo[j] = {}
    /\ todo[j] \subseteq Selected(j)

\* The track in hand, and what the job found of the version it had then.
InHand(j) ==
    pc[j] \in Working =>
        /\ track[j] \in Selected(j) \ todo[j]
        /\ \E c \in Contents : Current(track[j], c) /\ seen[j] = Verdict(track[j], c)
        /\ pc[j] \in Cutting => seen[j].status = "validated"

\* The segments of that track that are written, and the first that are announced.
Filled(j) ==
    /\ pc[j] \in {"write", "writing", "segments"} => idx[j] <= LastIdx(j)
    /\ pc[j] \in {"merge", "store", "storing", "verify", "metadata"} => idx[j] = 0
    /\ pc[j] \in Working /\ seen[j].status = "validated" =>
          \A i \in 0 .. (IF pc[j] \in {"write", "writing"} THEN idx[j] - 1 ELSE LastIdx(j)) :
              artifact[<<track[j], i>>] = seen[j].content
    /\ pc[j] = "segments" =>
          /\ metadata[track[j]] = "validated"
          /\ \A i \in 0 .. idx[j] - 1 : announced[<<track[j], i>>] = seen[j].content

\* The manifest rows of that track, while the manifest is the job's own.
Rows(j) ==
    /\ pc[j] \in {"store", "storing"} =>
          /\ \A s \in RowsOf(j) : merged[j][s] = seen[j].content
          /\ ~Shared => \A s \in Segments \ RowsOf(j) : merged[j][s] = manifest[s]
    /\ /\ ~Shared
       /\ pc[j] \in {"verify", "metadata", "segments"}
       /\ seen[j].status = "validated"
       => \A s \in RowsOf(j) : manifest[s] = seen[j].content

\* What the job has brought to an end.
Announced(j) ==
    pc[j] # "down" \/ outcome[j] = "done" => \A t \in Handled(j) : Delivered(t)

\* The totals are about the tracks it has announced in this execution.
Counting(j) ==
    /\ counted[j] = IF pc[j] = "down" THEN NoTotals ELSE TotalsOf(Handled(j))
    /\ pc[j] = "totals" => todo[j] = {}
    /\ IF pc[j] = "totals" THEN sent[j] < Len(TotalNames) ELSE sent[j] = 0
    /\ ~Shared /\ pc[j] = "totals" =>
          \A n \in 1 .. sent[j] : total[TotalNames[n]] = counted[j][TotalNames[n]]
    /\ ~Shared /\ outcome[j] = "done" => total = TotalsOf(Selected(j))

JobInv(j) ==
    /\ Begun(j)
    /\ InHand(j)
    /\ Filled(j)
    /\ Rows(j)
    /\ Announced(j)
    /\ Counting(j)

\* Nothing is published but what some job was given, and found.
PublishedIsSelected ==
    \A t \in Tracks : metadata[t] # "none" => \E j \in Jobs : t \in Selected(j)

\* The rows of a version come into the manifest together, whatever is lost of it later.
RowsAreWhole ==
    /\ HasWhole(manifest, PublishedCount)
    /\ \A j \in Jobs : HasWhole(merged[j], PublishedCount)

\* The inputs stay within the bounds, and the allowlists apart.
InputsInv ==
    /\ \A t \in Tracks, c \in Contents : SegmentCount(files[t][c].length) <= MaxSegments
    /\ \A t \in Tracks : catalogue[t].duration.is \in {"float", "nan", "null"}
    /\ \A j, k \in Jobs : j # k => allowed[j] \cap allowed[k] = {}

Inv ==
    /\ TypeOK
    /\ InputsInv
    /\ PublishedIsSelected
    /\ RowsAreWhole
    /\ \A j \in Jobs : JobInv(j)

-----------------------------------------------------------------------------
\* Helpers: the operators the model is built from.

\* The windows of a file can be counted.
LEMMA SegmentCountType ==
    ASSUME NEW length \in Nat
    PROVE  SegmentCount(length) \in Nat
<1>1. IsFiniteSet(0..length) /\ FullWindows(length) \in SUBSET (0..length)
  BY FS_Interval DEF FullWindows
<1>2. Cardinality(FullWindows(length)) \in Nat
  BY <1>1, FS_Subset, FS_CardinalityType
<1> QED
  BY <1>2 DEF SegmentCount

\* The three totals.
LEMMA TotalNamesAre ==
    /\ Len(TotalNames) = 3
    /\ TotalNames[1] = "tracks_total"
    /\ TotalNames[2] = "segments_total"
    /\ TotalNames[3] = "validation_failures"
    /\ Range(TotalNames) = {"tracks_total", "segments_total", "validation_failures"}
<1>1. /\ Len(TotalNames) = 3 /\ DOMAIN TotalNames = {1, 2, 3}
      /\ TotalNames[1] = "tracks_total"
      /\ TotalNames[2] = "segments_total"
      /\ TotalNames[3] = "validation_failures"
  BY DEF TotalNames
<1> QED
  BY <1>1 DEF Range

\* What validation may find of a version; a valid one has at least one segment.
LEMMA VerdictIs ==
    ASSUME TypeOK, InputsInv, NEW t \in Tracks, NEW c \in Contents
    PROVE  /\ Verdict(t, c) \in Verdicts
           /\ Count(t, c) \in 0 .. MaxSegments
           /\ Verdict(t, c).status = "validated" =>
                 /\ Verdict(t, c).content = c
                 /\ Count(t, c) = SegmentCount(Verdict(t, c).length)
                 /\ Count(t, c) > 0
           /\ Verdict(t, c).status # "validated" => Count(t, c) = 0
<1>1. files[t][c] \in AudioFiles
  BY DEF TypeOK
<1>2. /\ SegmentCount(files[t][c].length) \in Nat
      /\ SegmentCount(files[t][c].length) <= MaxSegments
  BY <1>1, SegmentCountType DEF AudioFiles, InputsInv
<1>3. Verdict(t, c).status \in Statuses
  BY DEF Verdict, Statuses
<1>4. Verdict(t, c) \in Verdicts
  BY <1>1, <1>3 DEF Verdict, Verdicts, AudioFiles
<1>5. ASSUME Verdict(t, c).status = "validated"
      PROVE  /\ files[t][c].form \notin {"missing", "unprobeable"}
             /\ SegmentCount(files[t][c].length) # 0
  BY <1>5 DEF Verdict
<1>6. ASSUME Verdict(t, c).status = "validated"
      PROVE  Verdict(t, c).length = files[t][c].length /\ Verdict(t, c).content = c
  BY <1>5, <1>6 DEF Verdict
<1>7. Count(t, c) = IF Verdict(t, c).status = "validated"
                    THEN SegmentCount(files[t][c].length) ELSE 0
  BY DEF Count
<1>8. CASE Verdict(t, c).status = "validated"
  BY <1>2, <1>4, <1>5, <1>6, <1>7, <1>8, IngestionAssumption
<1>9. CASE Verdict(t, c).status # "validated"
  BY <1>4, <1>7, <1>9, IngestionAssumption
<1> QED
  BY <1>8, <1>9

\* A job is given tracks of its allowlist only.
LEMMA SelectedIs ==
    ASSUME TypeOK, NEW j \in Jobs
    PROVE  Selected(j) \subseteq allowed[j] /\ Selected(j) \subseteq Tracks
<1>1. allowed[j] \subseteq Tracks
  BY DEF TypeOK
<1> QED
  BY <1>1 DEF Selected

\* Jobs do not share a run unless two of them have an allowlist.
LEMMA SoleJob ==
    ASSUME ~Shared, NEW j \in Jobs, NEW k \in Jobs, allowed[j] # {}, allowed[k] # {}
    PROVE  j = k
<1> DEFINE G == {h \in Jobs : allowed[h] # {}}
<1>1. IsFiniteSet(G) /\ Cardinality(G) \in Nat
  BY IngestionAssumption, FS_Subset, FS_CardinalityType
<1>2. Cardinality(G) <= 1
  BY <1>1 DEF Shared
<1>3. SUFFICES ASSUME j # k PROVE FALSE
  OBVIOUS
<1>4. IsFiniteSet({j, k}) /\ Cardinality({j, k}) = 2
  <2>1. IsFiniteSet({j}) /\ Cardinality({j}) = 1
    BY FS_Singleton
  <2>2. {j, k} = {j} \cup {k} /\ k \notin {j}
    BY <1>3
  <2>3. IsFiniteSet({j} \cup {k}) /\ Cardinality({j} \cup {k}) = Cardinality({j}) + 1
    BY <2>1, <2>2, FS_AddElement
  <2> QED
    BY <2>1, <2>2, <2>3
<1>5. Cardinality({j, k}) <= Cardinality(G)
  BY <1>1, FS_Subset
<1> QED
  BY <1>1, <1>2, <1>4, <1>5

\* An interval of segment indexes of one track, counted.
LEMMA RowOfSegments ==
    ASSUME NEW t, NEW n \in Nat
    PROVE  IsFiniteSet({t} \X (0 .. n - 1)) /\ Cardinality({t} \X (0 .. n - 1)) = n
<1> DEFINE f == [i \in 0 .. n - 1 |-> <<t, i>>]
<1>1. IsFiniteSet(0 .. n - 1) /\ Cardinality(0 .. n - 1) = n
  <2>1. 0 \in Int /\ n - 1 \in Int
    OBVIOUS
  <2>2. /\ IsFiniteSet(0 .. n - 1)
        /\ Cardinality(0 .. n - 1) = IF 0 > n - 1 THEN 0 ELSE (n - 1) - 0 + 1
    BY <2>1, FS_Interval
  <2> QED
    BY <2>2
<1>2. f \in Bijection(0 .. n - 1, {t} \X (0 .. n - 1))
  <2>1. f \in [0 .. n - 1 -> {t} \X (0 .. n - 1)]
    OBVIOUS
  <2>2. \A a, b \in 0 .. n - 1 : f[a] = f[b] => a = b
    OBVIOUS
  <2>3. \A s \in {t} \X (0 .. n - 1) : \E i \in 0 .. n - 1 : f[i] = s
    OBVIOUS
  <2> QED
    BY <2>1, <2>2, <2>3 DEF Bijection, Injection, IsInjective, Surjection
<1> QED
  BY <1>1, <1>2, FS_Bijection DEF ExistsBijection

-----------------------------------------------------------------------------
\* What a step never changes: what the jobs were given; and audio is there until replaced.
Steady ==
    /\ UNCHANGED config
    /\ struck'["rewrite"] = 0 => UNCHANGED audio /\ struck["rewrite"] = 0

\* Nothing a step does reaches into another job.
Undisturbed(j) ==
    /\ UNCHANGED <<pc[j], todo[j], track[j], idx[j], seen[j], merged[j], counted[j], sent[j],
                   outcome[j]>>
    /\ \A t \in allowed[j] :
          /\ UNCHANGED metadata[t]
          /\ \A i \in 0 .. MaxSegments - 1 : UNCHANGED <<artifact[<<t, i>>], announced[<<t, i>>]>>
    /\ ~Shared /\ allowed[j] # {} => UNCHANGED <<manifest, total>>

\* So what is selected, found and counted stays the same.
LEMMA SteadyIs ==
    ASSUME Steady
    PROVE  /\ Shared' = Shared
           /\ \A j \in Jobs : /\ Selected(j)' = Selected(j)
                              /\ LoadableCatalogue(j)' = LoadableCatalogue(j)
           /\ \A t, c : /\ Verdict(t, c)' = Verdict(t, c)
                        /\ Count(t, c)' = Count(t, c)
                        /\ Current(t, c) => Current(t, c)'
<1>1. allowed' = allowed /\ catalogue' = catalogue /\ files' = files
  BY DEF Steady, config
<1>2. Shared' = Shared
  BY <1>1 DEF Shared
<1>3. ASSUME NEW j \in Jobs PROVE Selected(j)' = Selected(j)
  BY <1>1 DEF Selected
<1>4. ASSUME NEW j \in Jobs PROVE LoadableCatalogue(j)' = LoadableCatalogue(j)
  BY <1>1, <1>3 DEF LoadableCatalogue
<1>5. ASSUME NEW t, NEW c PROVE Verdict(t, c)' = Verdict(t, c)
  BY <1>1 DEF Verdict
<1>6. ASSUME NEW t, NEW c PROVE Count(t, c)' = Count(t, c)
  BY <1>1, <1>5 DEF Count
<1>7. ASSUME NEW t, NEW c, Current(t, c) PROVE Current(t, c)'
  BY <1>7 DEF Steady, Current
<1> QED
  BY <1>2, <1>3, <1>4, <1>5, <1>6, <1>7

\* What is said of tracks is the same while their status and first segments stay announced.
LEMMA TotalsOfStay ==
    ASSUME Steady, NEW T, T \subseteq Tracks,
           \A t \in T : metadata'[t] = metadata[t] /\ announced'[<<t, 0>>] = announced[<<t, 0>>]
    PROVE  TotalsWith(T, metadata', AnnouncedCounts') = TotalsOf(T)
<1>1. ASSUME NEW t \in T PROVE AnnouncedCounts'[t] = AnnouncedCounts[t]
  <2>1. files' = files /\ metadata'[t] = metadata[t] /\ announced'[<<t, 0>>] = announced[<<t, 0>>]
    BY DEF Steady, config
  <2> QED
    BY <2>1 DEF AnnouncedCounts, Count, Verdict, Latest
<1>2. SegmentsWith(T, AnnouncedCounts') = SegmentsWith(T, AnnouncedCounts)
  BY <1>1 DEF SegmentsWith
<1>3. FailuresWith(T, metadata') = FailuresWith(T, metadata)
  BY DEF FailuresWith
<1> QED
  BY <1>2, <1>3 DEF TotalsOf, TotalsWith

\* The track in hand is the job's own, and its segments are within the bound.
LEMMA InHandFound ==
    ASSUME TypeOK, InputsInv, NEW j \in Jobs, InHand(j), pc[j] \in Working
    PROVE  /\ track[j] \in Tracks /\ track[j] \in Selected(j) /\ track[j] \in allowed[j]
           /\ track[j] \notin todo[j]
           /\ pc[j] \in Cutting => seen[j].status = "validated"
           /\ seen[j].status = "validated" =>
                 /\ seen[j].content \in Contents
                 /\ Current(track[j], seen[j].content)
                 /\ seen[j] = Verdict(track[j], seen[j].content)
                 /\ LastIdx(j) = Count(track[j], seen[j].content) - 1
                 /\ LastIdx(j) \in 0 .. MaxSegments - 1
                 /\ \A i \in 0 .. LastIdx(j) : <<track[j], i>> \in Segments
                 /\ \A s \in Segments : s \in RowsOf(j) <=> s[1] = track[j] /\ s[2] <= LastIdx(j)
                 /\ \A i \in 0 .. LastIdx(j) : <<track[j], i>> \in RowsOf(j)
                 /\ RowsOf(j) \subseteq Segments
<1>1. /\ track[j] \in Selected(j) /\ track[j] \notin todo[j]
      /\ pc[j] \in Cutting => seen[j].status = "validated"
  BY DEF InHand
<1>2. track[j] \in Tracks /\ track[j] \in allowed[j]
  BY <1>1, SelectedIs
<1>3. PICK c \in Contents : Current(track[j], c) /\ seen[j] = Verdict(track[j], c)
  BY DEF InHand
<1>4. ASSUME seen[j].status = "validated"
      PROVE  /\ seen[j].content = c
             /\ Count(track[j], c) \in 0 .. MaxSegments
             /\ Count(track[j], c) > 0
             /\ Count(track[j], c) = SegmentCount(seen[j].length)
  BY <1>2, <1>3, <1>4, VerdictIs
<1>5. ASSUME seen[j].status = "validated"
      PROVE  /\ LastIdx(j) = Count(track[j], c) - 1
             /\ LastIdx(j) \in 0 .. MaxSegments - 1
  BY <1>4, <1>5, IngestionAssumption DEF LastIdx
<1>6. ASSUME LastIdx(j) \in 0 .. MaxSegments - 1
      PROVE  /\ \A i \in 0 .. LastIdx(j) : <<track[j], i>> \in Segments
             /\ \A s \in Segments : s \in RowsOf(j) <=> s[1] = track[j] /\ s[2] <= LastIdx(j)
             /\ \A i \in 0 .. LastIdx(j) : <<track[j], i>> \in RowsOf(j)
             /\ RowsOf(j) \subseteq Segments
  <2>1. \A i \in 0 .. LastIdx(j) : i \in 0 .. MaxSegments - 1
    BY <1>6, IngestionAssumption
  <2>2. \A i \in 0 .. MaxSegments - 1 : i \in 0 .. LastIdx(j) <=> i <= LastIdx(j)
    BY <1>6, IngestionAssumption
  <2> QED
    BY <1>2, <2>1, <2>2 DEF Segments, RowsOf
<1> QED
  BY <1>1, <1>2, <1>3, <1>4, <1>5, <1>6

\* A job keeps what holds of it while others work.
LEMMA Frame ==
    ASSUME TypeOK, InputsInv, Steady, NEW j \in Jobs, JobInv(j), Undisturbed(j)
    PROVE  JobInv(j)'
<1>1. /\ Shared' = Shared
      /\ Selected(j)' = Selected(j)
      /\ LoadableCatalogue(j)' = LoadableCatalogue(j)
      /\ allowed[j]' = allowed[j]
  BY SteadyIs DEF Steady, config
<1>2. Selected(j) \subseteq allowed[j] /\ Selected(j) \subseteq Tracks
  BY SelectedIs
<1>3. \A t \in Selected(j) :
         /\ metadata[t]' = metadata[t]
         /\ \A i \in 0 .. MaxSegments - 1 :
               artifact[<<t, i>>]' = artifact[<<t, i>>] /\ announced[<<t, i>>]' = announced[<<t, i>>]
  BY <1>2 DEF Undisturbed
<1>5. /\ pc[j]' = pc[j] /\ todo[j]' = todo[j] /\ track[j]' = track[j] /\ idx[j]' = idx[j]
      /\ seen[j]' = seen[j] /\ merged[j]' = merged[j] /\ counted[j]' = counted[j]
      /\ sent[j]' = sent[j] /\ outcome[j]' = outcome[j]
      /\ LastIdx(j)' = LastIdx(j) /\ RowsOf(j)' = RowsOf(j)
  BY DEF Undisturbed, LastIdx, RowsOf
<1>6. ~Shared /\ allowed[j] # {} => manifest' = manifest /\ total' = total
  BY DEF Undisturbed
<1>7. Begun(j)'
  BY <1>1, <1>5 DEF Begun, JobInv
<1>8. InHand(j)'
  <2>1. \A t, c : Verdict(t, c)' = Verdict(t, c) /\ (Current(t, c) => Current(t, c)')
    BY SteadyIs
  <2> QED
    BY <1>1, <1>5, <2>1 DEF InHand, JobInv
<1>9. pc[j] \in Working =>
         /\ track[j] \in Selected(j)
         /\ seen[j].status = "validated" => LastIdx(j) \in 0 .. MaxSegments - 1
         /\ pc[j] \in Cutting => seen[j].status = "validated"
  BY InHandFound DEF JobInv
<1>10. Filled(j)'
  <2>1. {"write", "writing", "segments"} \subseteq Cutting /\ Cutting \subseteq Working
    BY DEF Working, Cutting, Stages
  <2>2. idx[j] \in Nat
    BY DEF TypeOK
  <2>3. pc[j] \in Working /\ seen[j].status = "validated" =>
          \A i \in 0 .. LastIdx(j) :
             /\ artifact'[<<track[j], i>>] = artifact[<<track[j], i>>]
             /\ announced'[<<track[j], i>>] = announced[<<track[j], i>>]
    BY <1>3, <1>9, IngestionAssumption
  <2>4. Filled(j)
    BY DEF JobInv
  <2>5. /\ pc'[j] \in {"write", "writing", "segments"} => idx'[j] <= LastIdx(j)'
        /\ pc'[j] \in {"merge", "store", "storing", "verify", "metadata"} => idx'[j] = 0
    BY <1>5, <2>4 DEF Filled
  <2>6. ASSUME pc[j] \in Working, seen[j].status = "validated",
               NEW i \in 0 .. (IF pc[j] \in {"write", "writing"} THEN idx[j] - 1 ELSE LastIdx(j))
        PROVE  artifact'[<<track[j], i>>] = seen[j].content
    <3>1. i \in 0 .. LastIdx(j)
      BY <1>9, <2>2, <2>4, <2>6 DEF Filled
    <3>2. artifact[<<track[j], i>>] = seen[j].content
      BY <2>4, <2>6 DEF Filled
    <3> QED
      BY <2>3, <2>6, <3>1, <3>2
  <2>7. ASSUME pc[j] = "segments"
        PROVE  /\ metadata'[track[j]] = "validated"
               /\ \A i \in 0 .. idx[j] - 1 : announced'[<<track[j], i>>] = seen[j].content
    <3>1. pc[j] \in Working /\ seen[j].status = "validated"
      BY <1>9, <2>1, <2>7
    <3>2. metadata[track[j]] = "validated" /\ idx[j] <= LastIdx(j)
          /\ \A i \in 0 .. idx[j] - 1 : announced[<<track[j], i>>] = seen[j].content
      BY <2>4, <2>7 DEF Filled
    <3>3. \A i \in 0 .. idx[j] - 1 : i \in 0 .. LastIdx(j)
      BY <1>9, <2>2, <3>1, <3>2
    <3> QED
      BY <1>3, <1>9, <2>3, <3>1, <3>2, <3>3
  <2> QED
    BY <1>5, <2>5, <2>6, <2>7 DEF Filled
<1>11. Rows(j)'
  <2>1. pc[j] # "down" => allowed[j] # {}
    BY DEF JobInv, Begun
  <2> QED
    BY <1>1, <1>5, <1>6, <2>1 DEF Rows, JobInv, Segments
<1>12. Handled(j)' = Handled(j) /\ Handled(j) \subseteq Selected(j)
  BY <1>1, <1>5 DEF Handled, Pending
<1>13. Announced(j)'
  <2>1. pc[j] # "down" \/ outcome[j] = "done" => allowed[j] # {}
    BY DEF JobInv, Begun
  <2>2. ASSUME NEW t \in Selected(j), allowed[j] # {}, Delivered(t)
        PROVE  Delivered(t)'
    <3>1. PICK c \in Contents : DeliveredAs(t, c)
      BY <2>2 DEF Delivered
    <3>2. /\ Verdict(t, c)' = Verdict(t, c) /\ Count(t, c)' = Count(t, c)
          /\ Current(t, c) => Current(t, c)'
      BY SteadyIs
    <3>3. Count(t, c) \in 0 .. MaxSegments
      BY <1>2, VerdictIs
    <3>4. \A i \in 0 .. Count(t, c) - 1 :
             artifact[<<t, i>>]' = artifact[<<t, i>>] /\ announced[<<t, i>>]' = announced[<<t, i>>]
      BY <1>3, <3>3, IngestionAssumption
    <3>5. DeliveredAs(t, c)'
      BY <1>1, <1>3, <1>6, <2>2, <3>1, <3>2, <3>4 DEF DeliveredAs
    <3> QED
      BY <3>5 DEF Delivered
  <2> QED
    BY <1>5, <1>12, <2>1, <2>2 DEF Announced, JobInv
<1>14. Counting(j)'
  <2>1. pc[j] # "down" \/ outcome[j] = "done" => allowed[j] # {}
    BY DEF JobInv, Begun
  <2>2. \A T \in SUBSET Selected(j) : TotalsWith(T, metadata', AnnouncedCounts') = TotalsOf(T)
    <3>1. \A t \in Selected(j) :
             metadata'[t] = metadata[t] /\ announced'[<<t, 0>>] = announced[<<t, 0>>]
      BY <1>3, IngestionAssumption
    <3> QED
      BY <1>2, <3>1, TotalsOfStay
  <2>3. TotalsOf(Handled(j))' = TotalsOf(Handled(j)) /\ TotalsOf(Selected(j))' = TotalsOf(Selected(j))
    <3>1. TotalsOf(Handled(j))' = TotalsWith(Handled(j), metadata', AnnouncedCounts')
      BY <1>12 DEF TotalsOf
    <3>2. TotalsOf(Selected(j))' = TotalsWith(Selected(j), metadata', AnnouncedCounts')
      BY <1>1 DEF TotalsOf
    <3> QED
      BY <1>12, <2>2, <3>1, <3>2
  <2> QED
    BY <1>1, <1>5, <1>6, <2>1, <2>3 DEF Counting, JobInv
<1> QED
  BY <1>7, <1>8, <1>10, <1>11, <1>13, <1>14 DEF JobInv

-----------------------------------------------------------------------------
\* So it is for every job, and the segment in hand is one of them.
LEMMA InHandIs ==
    ASSUME Inv, NEW j \in Jobs, pc[j] \in Working
    PROVE  /\ track[j] \in Tracks /\ track[j] \in Selected(j) /\ track[j] \in allowed[j]
           /\ track[j] \notin todo[j]
           /\ pc[j] \in Cutting => seen[j].status = "validated"
           /\ seen[j].status = "validated" =>
                 /\ seen[j].content \in Contents
                 /\ Current(track[j], seen[j].content)
                 /\ seen[j] = Verdict(track[j], seen[j].content)
                 /\ LastIdx(j) = Count(track[j], seen[j].content) - 1
                 /\ LastIdx(j) \in 0 .. MaxSegments - 1
                 /\ \A i \in 0 .. LastIdx(j) : <<track[j], i>> \in Segments
                 /\ \A s \in Segments : s \in RowsOf(j) <=> s[1] = track[j] /\ s[2] <= LastIdx(j)
                 /\ \A i \in 0 .. LastIdx(j) : <<track[j], i>> \in RowsOf(j)
                 /\ RowsOf(j) \subseteq Segments
           /\ pc[j] \in {"write", "writing", "segments"} =>
                 /\ idx[j] \in 0 .. LastIdx(j)
                 /\ Segment(j) = <<track[j], idx[j]>> /\ Segment(j) \in Segments
<1>1. /\ track[j] \in Tracks /\ track[j] \in Selected(j) /\ track[j] \in allowed[j]
      /\ track[j] \notin todo[j]
      /\ pc[j] \in Cutting => seen[j].status = "validated"
      /\ seen[j].status = "validated" =>
            /\ seen[j].content \in Contents
            /\ Current(track[j], seen[j].content)
            /\ seen[j] = Verdict(track[j], seen[j].content)
            /\ LastIdx(j) = Count(track[j], seen[j].content) - 1
            /\ LastIdx(j) \in 0 .. MaxSegments - 1
            /\ \A i \in 0 .. LastIdx(j) : <<track[j], i>> \in Segments
            /\ \A s \in Segments : s \in RowsOf(j) <=> s[1] = track[j] /\ s[2] <= LastIdx(j)
            /\ \A i \in 0 .. LastIdx(j) : <<track[j], i>> \in RowsOf(j)
            /\ RowsOf(j) \subseteq Segments
  BY InHandFound DEF Inv, JobInv
<1>2. ASSUME pc[j] \in {"write", "writing", "segments"}
      PROVE  /\ idx[j] \in 0 .. LastIdx(j)
             /\ Segment(j) = <<track[j], idx[j]>> /\ Segment(j) \in Segments
  <2>1. pc[j] \in Cutting
    BY <1>2 DEF Cutting, Working, Stages
  <2>2. idx[j] \in Nat /\ idx[j] <= LastIdx(j)
    BY <1>2 DEF Inv, TypeOK, JobInv, Filled
  <2>3. LastIdx(j) \in 0 .. MaxSegments - 1
    BY <1>1, <2>1
  <2>4. idx[j] \in 0 .. LastIdx(j)
    BY <2>2, <2>3, IngestionAssumption
  <2> QED
    BY <1>1, <2>1, <2>4 DEF Segment
<1> QED
  BY <1>1, <1>2

\* A step of a job reaches into its own track only, and into the run only when it is up.
OnlyTouches(k) ==
    /\ Steady
    /\ \A j \in Jobs : j # k =>
          UNCHANGED <<pc[j], todo[j], track[j], idx[j], seen[j], merged[j], counted[j], sent[j],
                      outcome[j]>>
    /\ \A t \in Tracks : pc[k] \notin Working \/ t # track[k] =>
          /\ UNCHANGED metadata[t]
          /\ \A i \in 0 .. MaxSegments - 1 : UNCHANGED <<artifact[<<t, i>>], announced[<<t, i>>]>>
    /\ pc[k] = "down" => UNCHANGED <<manifest, total>>

JobStep(j) == Step(j) \/ DeliveryFails(j) \/ Stopped(j)

\* A step of a job changes what is its own, and what is published of its track.
LEMMA StepOnlyTouches ==
    ASSUME Inv, NEW k \in Jobs, JobStep(k)
    PROVE  OnlyTouches(k)
<1> USE DEF OnlyTouches
<1>t. /\ pc \in [Jobs -> Stages]
      /\ DOMAIN todo = Jobs /\ DOMAIN track = Jobs /\ DOMAIN idx = Jobs /\ DOMAIN seen = Jobs
      /\ DOMAIN merged = Jobs /\ DOMAIN counted = Jobs /\ DOMAIN sent = Jobs
      /\ DOMAIN outcome = Jobs /\ DOMAIN metadata = Tracks
      /\ DOMAIN artifact = Segments /\ DOMAIN announced = Segments
  BY DEF Inv, TypeOK
<1>s. ASSUME UNCHANGED <<config, audio>>, UNCHANGED struck \/ Strikes("failure") PROVE Steady
  <2>1. struck'["rewrite"] = struck["rewrite"]
    BY <1>s DEF Strikes, Inv, TypeOK, Disruptions
  <2> QED
    BY <1>s, <2>1 DEF Steady
<1>e. ASSUME NEW how, Ends(k, how)
      PROVE  \A j \in Jobs : j # k =>
          UNCHANGED <<pc[j], todo[j], track[j], idx[j], seen[j], merged[j], counted[j], sent[j],
                      outcome[j]>>
  BY <1>e, <1>t DEF Ends, GoTo
<1>w. {"write", "writing", "merge", "store", "storing", "verify", "metadata", "segments"} = Working
      /\ "down" \notin Working
  BY DEF Working, Stages
<1>1. CASE Start(k)
  BY <1>1, <1>s, <1>t DEF Start, GoTo, store, topics
<1>2. CASE TakeTrack(k)
  BY <1>2, <1>s, <1>t DEF TakeTrack, GoTo, store, topics
<1>3. CASE BeginWrite(k)
  BY <1>3, <1>s, <1>t, <1>w DEF BeginWrite, GoTo, work, topics, Segment
<1>4. CASE FinishWrite(k)
  BY <1>4, <1>s, <1>t, <1>w DEF FinishWrite, GoTo, topics, Segment
<1>5. CASE Merge(k)
  BY <1>5, <1>s, <1>t, <1>e DEF Merge, GoTo, store, topics
<1>6. CASE BeginStore(k)
  BY <1>6, <1>s, <1>t DEF BeginStore, GoTo, work, topics
<1>7. CASE FinishStore(k)
  BY <1>7, <1>s, <1>t DEF FinishStore, GoTo, work, topics
<1>8. CASE Verify(k)
  BY <1>8, <1>s, <1>t, <1>e DEF Verify, GoTo, work, store, topics
<1>9. CASE PublishMetadata(k)
  BY <1>9, <1>s, <1>t, <1>e, <1>w DEF PublishMetadata, GoTo, Counted, store
<1>10. CASE PublishSegment(k)
  BY <1>10, <1>s, <1>t, <1>w DEF PublishSegment, GoTo, Counted, Segment, store
<1>11. CASE NoMoreTracks(k)
  BY <1>11, <1>s, <1>t DEF NoMoreTracks, GoTo, work, store, topics
<1>12. CASE PublishTotal(k)
  BY <1>12, <1>s, <1>t, <1>e DEF PublishTotal, store
<1>13. CASE DeliveryFails(k)
  <2>1. /\ UNCHANGED <<config, audio, artifact, manifest>> /\ Strikes("failure")
        /\ Ends(k, "failed") /\ pc[k] # "down"
    BY <1>13 DEF DeliveryFails, store
  <2>2. \/ UNCHANGED <<metadata, announced>>
        \/ /\ pc[k] = "metadata"
           /\ metadata' = [metadata EXCEPT ![track[k]] = seen[k].status]
           /\ UNCHANGED announced
        \/ /\ pc[k] = "segments"
           /\ announced' = [announced EXCEPT ![<<track[k], idx[k]>>] = seen[k].content]
           /\ UNCHANGED metadata
    BY <1>13 DEF DeliveryFails, topics, Segment
  <2>3. ASSUME NEW t \in Tracks, pc[k] \notin Working \/ t # track[k]
        PROVE  /\ metadata'[t] = metadata[t]
               /\ \A i \in 0 .. MaxSegments - 1 : announced'[<<t, i>>] = announced[<<t, i>>]
    <3>1. CASE UNCHANGED <<metadata, announced>>
      BY <3>1
    <3>2. ASSUME pc[k] \in {"metadata", "segments"} PROVE t # track[k]
      BY <2>3, <3>2, <1>w
    <3>3. ASSUME pc[k] = "metadata", UNCHANGED announced,
                 metadata' = [metadata EXCEPT ![track[k]] = seen[k].status]
          PROVE  metadata'[t] = metadata[t]
      BY <3>2, <3>3, <1>t
    <3>4. ASSUME pc[k] = "segments", UNCHANGED metadata, NEW i \in 0 .. MaxSegments - 1,
                 announced' = [announced EXCEPT ![<<track[k], idx[k]>>] = seen[k].content]
          PROVE  announced'[<<t, i>>] = announced[<<t, i>>]
      <4>1. <<t, i>> \in DOMAIN announced /\ <<t, i>> # <<track[k], idx[k]>>
        BY <3>2, <3>4, <1>t DEF Segments
      <4> QED
        BY <3>4, <4>1
    <3> QED
      BY <2>2, <3>1, <3>3, <3>4
  <2> QED
    BY <2>1, <2>3, <1>s, <1>e
<1>14. CASE Stopped(k)
  BY <1>14, <1>s, <1>t, <1>e DEF Stopped, store, topics
<1> QED
  BY <1>1, <1>2, <1>3, <1>4, <1>5, <1>6, <1>7, <1>8, <1>9, <1>10, <1>11, <1>12, <1>13, <1>14
     DEF JobStep, Step

\* So it leaves the other jobs alone.
LEMMA OthersUndisturbed ==
    ASSUME Inv, NEW k \in Jobs, OnlyTouches(k), NEW j \in Jobs, j # k
    PROVE  Undisturbed(j)
<1>1. pc[k] # "down" => allowed[k] # {}
  BY DEF Inv, JobInv, Begun
<1>2. ~Shared /\ allowed[j] # {} => pc[k] = "down"
  BY <1>1, SoleJob
<1>3. \A t \in allowed[j] : t \in Tracks
  BY DEF Inv, TypeOK
<1>4. ASSUME NEW t \in allowed[j], pc[k] \in Working PROVE t # track[k]
  <2>1. track[k] \in allowed[k]
    BY <1>4, InHandIs
  <2>2. allowed[j] \cap allowed[k] = {}
    BY DEF Inv, InputsInv
  <2> QED
    BY <2>1, <2>2
<1> QED
  BY <1>2, <1>3, <1>4 DEF Undisturbed, OnlyTouches

-----------------------------------------------------------------------------
\* What a job keeps to itself.
WorkTypes ==
    /\ pc \in [Jobs -> Stages]
    /\ todo \in [Jobs -> SUBSET Tracks]
    /\ track \in [Jobs -> Tracks \cup {0}]
    /\ idx \in [Jobs -> 0 .. MaxSegments]
    /\ seen \in [Jobs -> Verdicts]
    /\ merged \in [Jobs -> [Segments -> Contents \cup {"missing"}]]
    /\ counted \in [Jobs -> Totals]
    /\ sent \in [Jobs -> 0 .. Len(TotalNames)]
    /\ outcome \in [Jobs -> {"none", "failed", "rejected", "done"}]

\* What jobs read and write in common.
RunTypes ==
    /\ backend \in Backends /\ allowed \in [Jobs -> SUBSET Tracks]
    /\ files \in [Tracks -> [Contents -> AudioFiles]] /\ audio \in [Tracks -> Contents]
    /\ artifact \in [Segments -> Contents \cup {"missing", "torn"}]
    /\ file \in {"absent", "torn", "whole"}
    /\ manifest \in [Segments -> Contents \cup {"missing"}]
    /\ metadata \in [Tracks -> Statuses \cup {"none"}]
    /\ announced \in [Segments -> Contents \cup {"none"}]
    /\ total \in Totals
    /\ struck \in [Disruptions -> Nat]

\* The types of what a job works on, and of the rest.
LEMMA TypesAre == TypeOK <=> WorkTypes /\ RunTypes
BY DEF TypeOK, WorkTypes, RunTypes

\* The totals are numbers, and stay numbers when a track is counted.
LEMMA CountingTypes ==
    ASSUME NEW totals \in Totals, NEW n \in Nat, NEW m \in Nat
    PROVE  /\ NoTotals \in Totals
           /\ [tracks_total |-> totals["tracks_total"] + 1,
               segments_total |-> totals["segments_total"] + n,
               validation_failures |-> totals["validation_failures"] + m] \in Totals
<1>1. \A name \in Range(TotalNames) : totals[name] \in Nat
  BY DEF Totals
<1> QED
  BY <1>1, TotalNamesAre DEF Totals, NoTotals

\* A job that ends leaves values of the right types.
LEMMA EndsTypes ==
    ASSUME WorkTypes, NEW j \in Jobs, NEW how \in {"failed", "done"}, Ends(j, how)
    PROVE  WorkTypes'
<1>1. Unseen \in Verdicts /\ "down" \in Stages /\ NoRows \in [Segments -> Contents \cup {"missing"}]
  BY DEF Unseen, Verdicts, Statuses, Stages, NoRows
<1>2. NoTotals \in Totals
  BY TotalNamesAre DEF NoTotals, Totals
<1>3. 0 \in 0 .. MaxSegments /\ 0 \in 0 .. Len(TotalNames)
  BY IngestionAssumption, TotalNamesAre
<1> QED
  BY <1>1, <1>2, <1>3 DEF Ends, WorkTypes, GoTo

\* A job goes from one stage to another.
LEMMA GoToTypes ==
    ASSUME WorkTypes, NEW j \in Jobs, NEW stage \in Stages, GoTo(j, stage)
    PROVE  pc' \in [Jobs -> Stages]
BY DEF WorkTypes, GoTo

\* No step of a job puts anything out of its type.
LEMMA JobStepTypes ==
    ASSUME Inv, NEW j \in Jobs, JobStep(j)
    PROVE  WorkTypes' /\ RunTypes'
<1>t. WorkTypes /\ RunTypes
  BY TypesAre DEF Inv
<1>n. Len(TotalNames) = 3
  BY TotalNamesAre
<1>w. {"write", "writing", "merge", "store", "storing", "verify", "segments"} = Cutting
      /\ Working = Cutting \cup {"metadata"}
  BY DEF Cutting, Working, Stages
<1>i. pc[j] \in Working =>
         /\ track[j] \in Tracks
         /\ seen[j].status = "validated" => seen[j].content \in Contents
  BY InHandIs
<1>c. pc[j] \in Cutting => seen[j].content \in Contents /\ LastIdx(j) \in 0 .. MaxSegments - 1
  BY InHandIs, <1>w
<1>x. pc[j] \in {"write", "writing", "segments"} =>
          idx[j] \in 0 .. LastIdx(j) /\ Segment(j) \in Segments
  BY InHandIs, <1>w
<1>m. seen[j].status \in Statuses
  BY <1>t DEF WorkTypes, Verdicts
<1>k. \A stage \in Stages : GoTo(j, stage) => pc' \in [Jobs -> Stages]
  BY <1>t, GoToTypes
<1>g. ASSUME NEW n \in Nat, Counted(j, n) PROVE counted' \in [Jobs -> Totals]
  <2>1. counted \in [Jobs -> Totals] /\ counted[j] \in Totals
    BY <1>t DEF WorkTypes
  <2> DEFINE m == IF seen[j].status = "validated" THEN 0 ELSE 1
  <2>2. m \in Nat
    OBVIOUS
  <2>3. [tracks_total |-> counted[j]["tracks_total"] + 1,
         segments_total |-> counted[j]["segments_total"] + n,
         validation_failures |-> counted[j]["validation_failures"] + m] \in Totals
    BY <2>1, <2>2, CountingTypes
  <2> QED
    BY <1>g, <2>1, <2>3 DEF Counted
<1>1. CASE Start(j)
  <2>1. Selected(j) \subseteq Tracks
    BY SelectedIs DEF Inv
  <2>2. /\ UNCHANGED <<config, audio, store, topics, track, idx, seen, merged, counted, sent, struck>>
        /\ \/ todo' = [todo EXCEPT ![j] = Selected(j)] /\ GoTo(j, "next") /\ UNCHANGED outcome
           \/ outcome' = [outcome EXCEPT ![j] = "rejected"] /\ UNCHANGED <<todo, pc>>
    BY <1>1 DEF Start
  <2>3. pc' \in [Jobs -> Stages]
    BY <1>t, <1>k, <2>2 DEF Stages, WorkTypes
  <2>4. todo' \in [Jobs -> SUBSET Tracks]
    BY <1>t, <2>1, <2>2 DEF WorkTypes
  <2>5. outcome' \in [Jobs -> {"none", "failed", "rejected", "done"}]
    BY <1>t, <2>2 DEF WorkTypes
  <2> QED
    BY <1>t, <2>2, <2>3, <2>4, <2>5 DEF WorkTypes, RunTypes, config, store, topics
<1>2. CASE TakeTrack(j)
  <2> DEFINE t == Min(todo[j])
  <2>1. todo[j] \subseteq Tracks /\ todo[j] # {}
    BY <1>2, <1>t DEF TakeTrack, WorkTypes
  <2>2. t \in Tracks
    BY <2>1, MinIsIn, IngestionAssumption
  <2>3. Verdict(t, audio[t]) \in Verdicts
    <3>1. audio[t] \in Contents
      BY <1>t, <2>2 DEF RunTypes
    <3> QED
      BY <2>2, <3>1, VerdictIs DEF Inv
  <2>4. 0 \in 0 .. MaxSegments
    BY IngestionAssumption
  <2>5. /\ track' = [track EXCEPT ![j] = t]
        /\ todo' = [todo EXCEPT ![j] = @ \ {t}]
        /\ seen' = [seen EXCEPT ![j] = Verdict(t, audio[t])]
        /\ idx' = [idx EXCEPT ![j] = 0]
        /\ pc' \in [Jobs -> Stages]
        /\ UNCHANGED <<config, audio, store, topics, merged, counted, sent, outcome, struck>>
    BY <1>2, <1>t DEF TakeTrack, GoTo, Stages, WorkTypes
  <2>6. WorkTypes'
    BY <1>t, <2>2, <2>3, <2>4, <2>5 DEF WorkTypes
  <2> QED
    BY <1>t, <2>5, <2>6 DEF RunTypes, config, store, topics
<1>3. CASE BeginWrite(j)
  BY <1>3, <1>t, <1>k, <1>x DEF BeginWrite, WorkTypes, RunTypes, Stages, config, topics, work
<1>4. CASE FinishWrite(j)
  <2>1. /\ artifact' = [artifact EXCEPT ![Segment(j)] = seen[j].content]
        /\ pc[j] \in {"write", "writing"}
        /\ UNCHANGED <<config, audio, file, manifest, topics, todo, track, seen, merged, counted,
                       sent, outcome, struck>>
    BY <1>4 DEF FinishWrite
  <2>2. pc' \in [Jobs -> Stages]
    BY <1>4, <1>k DEF FinishWrite, Stages
  <2>3. idx' \in [Jobs -> 0 .. MaxSegments]
    <3>1. \/ idx' = [idx EXCEPT ![j] = 0]
          \/ idx[j] # LastIdx(j) /\ idx' = [idx EXCEPT ![j] = @ + 1]
      BY <1>4 DEF FinishWrite
    <3>2. idx \in [Jobs -> 0 .. MaxSegments] /\ 0 \in 0 .. MaxSegments
      BY <1>t, IngestionAssumption DEF WorkTypes
    <3>3. idx[j] # LastIdx(j) => idx[j] + 1 \in 0 .. MaxSegments
      BY <1>c, <1>x, <1>w, <2>1, IngestionAssumption
    <3> QED
      BY <3>1, <3>2, <3>3
  <2>4. RunTypes'
    BY <1>t, <1>c, <1>x, <1>w, <2>1 DEF RunTypes, config, topics
  <2> QED
    BY <1>t, <2>1, <2>2, <2>3, <2>4 DEF WorkTypes
<1>5. CASE Merge(j)
  <2>1. UNCHANGED <<config, audio, store, topics, struck>>
    BY <1>5 DEF Merge
  <2>2. RunTypes'
    BY <1>t, <2>1 DEF RunTypes, config, store, topics
  <2>3. CASE Ends(j, "failed")
    BY <1>t, <2>2, <2>3, EndsTypes
  <2> DEFINE rows == [s \in Segments |-> IF s \in RowsOf(j) THEN seen[j].content ELSE manifest[s]]
  <2>4. CASE /\ merged' = [merged EXCEPT ![j] = rows]
             /\ GoTo(j, "store")
             /\ UNCHANGED <<todo, track, idx, seen, counted, sent, outcome>>
    <3>1. rows \in [Segments -> Contents \cup {"missing"}]
      BY <1>5, <1>t, <1>c, <1>w DEF Merge, RunTypes
    <3>2. pc' \in [Jobs -> Stages]
      BY <2>4, <1>k DEF Stages
    <3> QED
      BY <1>t, <2>2, <2>4, <3>1, <3>2 DEF WorkTypes
  <2> QED
    BY <1>5, <2>3, <2>4 DEF Merge
<1>6. CASE BeginStore(j)
  BY <1>6, <1>t, <1>k DEF BeginStore, WorkTypes, RunTypes, Stages, config, topics, work
<1>7. CASE FinishStore(j)
  <2>1. merged[j] \in [Segments -> Contents \cup {"missing"}]
    BY <1>t DEF WorkTypes
  <2> QED
    BY <1>7, <1>t, <1>k, <2>1 DEF FinishStore, WorkTypes, RunTypes, Stages, config, topics, work
<1>8. CASE Verify(j)
  <2>1. UNCHANGED <<config, audio, store, topics, struck>>
    BY <1>8 DEF Verify
  <2>2. RunTypes'
    BY <1>t, <2>1 DEF RunTypes, config, store, topics
  <2>3. CASE Ends(j, "failed")
    BY <1>t, <2>2, <2>3, EndsTypes
  <2>4. CASE GoTo(j, "metadata") /\ UNCHANGED <<work, outcome>>
    BY <1>t, <2>2, <2>4, <1>k DEF WorkTypes, work, Stages
  <2> QED
    BY <1>8, <2>3, <2>4 DEF Verify
<1>9. CASE PublishMetadata(j)
  <2>1. UNCHANGED <<config, audio, store, announced, total, struck>> /\ pc[j] = "metadata"
    BY <1>9 DEF PublishMetadata
  <2>2. metadata' \in [Tracks -> Statuses \cup {"none"}]
    BY <1>9, <1>t, <1>m, <1>i, <1>w DEF PublishMetadata, RunTypes
  <2>3. RunTypes'
    BY <1>t, <2>1, <2>2 DEF RunTypes, config, store
  <2>4. CASE Ends(j, "failed")
    BY <1>t, <2>3, <2>4, EndsTypes
  <2>5. CASE ~Ends(j, "failed")
    <3>1. UNCHANGED <<todo, track, idx, seen, merged, sent, outcome>>
      BY <1>9, <2>5 DEF PublishMetadata
    <3>2. (GoTo(j, "segments") /\ UNCHANGED counted) \/ (GoTo(j, "next") /\ Counted(j, 0))
      BY <1>9, <2>5 DEF PublishMetadata
    <3>3. pc' \in [Jobs -> Stages] /\ counted' \in [Jobs -> Totals]
      BY <1>t, <1>k, <1>g, <3>2 DEF Stages, WorkTypes
    <3> QED
      BY <1>t, <2>3, <3>1, <3>3 DEF WorkTypes
  <2> QED
    BY <2>4, <2>5
<1>10. CASE PublishSegment(j)
  <2>1. /\ announced' = [announced EXCEPT ![Segment(j)] = seen[j].content]
        /\ pc[j] = "segments"
        /\ UNCHANGED <<config, audio, store, metadata, total, todo, track, seen, merged, sent,
                       outcome, struck>>
        /\ \/ GoTo(j, "next") /\ Counted(j, idx[j] + 1) /\ UNCHANGED idx
           \/ idx[j] # LastIdx(j) /\ idx' = [idx EXCEPT ![j] = @ + 1] /\ UNCHANGED <<pc, counted>>
    BY <1>10 DEF PublishSegment
  <2>2. RunTypes'
    BY <1>t, <1>c, <1>x, <1>w, <2>1 DEF RunTypes, config, store
  <2>3. idx[j] \in Nat /\ idx[j] + 1 \in Nat
    BY <1>t DEF WorkTypes
  <2>4. pc' \in [Jobs -> Stages] /\ counted' \in [Jobs -> Totals]
    BY <1>t, <1>k, <1>g, <2>1, <2>3 DEF Stages, WorkTypes
  <2>5. idx' \in [Jobs -> 0 .. MaxSegments]
    <3>1. idx[j] # LastIdx(j) => idx[j] + 1 \in 0 .. MaxSegments
      BY <1>c, <1>x, <1>w, <2>1, IngestionAssumption
    <3>2. UNCHANGED idx \/ (idx[j] # LastIdx(j) /\ idx' = [idx EXCEPT ![j] = @ + 1])
      BY <2>1
    <3> QED
      BY <1>t, <3>1, <3>2 DEF WorkTypes
  <2> QED
    BY <1>t, <2>1, <2>2, <2>4, <2>5 DEF WorkTypes
<1>11. CASE NoMoreTracks(j)
  BY <1>11, <1>t, <1>k DEF NoMoreTracks, WorkTypes, RunTypes, Stages, config, store, topics, work
<1>13. \A n \in 0 .. 2 :
          counted[j][TotalNames[n + 1]] \in Nat /\ TotalNames[n + 1] \in Range(TotalNames)
  BY <1>t, TotalNamesAre DEF WorkTypes, Totals
<1>s. pc[j] = "totals" => sent[j] \in 0 .. 2
  BY <1>t, <1>n DEF WorkTypes, Inv, JobInv, Counting
<1>12. CASE PublishTotal(j)
  <2>1. /\ total' = [total EXCEPT ![TotalNames[sent[j] + 1]] = counted[j][TotalNames[sent[j] + 1]]]
        /\ pc[j] = "totals"
        /\ UNCHANGED <<config, audio, store, metadata, announced, struck>>
    BY <1>12 DEF PublishTotal
  <2>2. total' \in Totals
    BY <1>t, <1>13, <1>s, <2>1 DEF RunTypes, Totals
  <2>3. RunTypes'
    BY <1>t, <2>1, <2>2 DEF RunTypes, config, store
  <2>4. CASE Ends(j, "done")
    BY <1>t, <2>3, <2>4, EndsTypes
  <2>5. CASE /\ sent' = [sent EXCEPT ![j] = @ + 1]
             /\ UNCHANGED <<pc, todo, track, idx, seen, merged, counted, outcome>>
    BY <1>t, <1>s, <1>n, <2>1, <2>3, <2>5 DEF WorkTypes
  <2> QED
    BY <1>12, <2>4, <2>5 DEF PublishTotal
<1>14. CASE DeliveryFails(j)
  <2>1. /\ UNCHANGED <<config, audio, store>> /\ Ends(j, "failed")
        /\ pc[j] \in {"metadata", "segments", "totals"}
        /\ struck' = [struck EXCEPT !["failure"] = @ + 1]
    BY <1>14 DEF DeliveryFails, Strikes
  <2>2. WorkTypes'
    BY <1>t, <2>1, EndsTypes
  <2>3. struck' \in [Disruptions -> Nat]
    BY <1>t, <2>1 DEF RunTypes, Disruptions
  <2>4. metadata' \in [Tracks -> Statuses \cup {"none"}]
    BY <1>14, <1>t, <1>m, <1>i, <1>w DEF DeliveryFails, RunTypes, topics
  <2>5. announced' \in [Segments -> Contents \cup {"none"}]
    BY <1>14, <1>t, <1>c, <1>x, <1>w DEF DeliveryFails, RunTypes, topics
  <2>6. total' \in Totals
    <3>1. \/ UNCHANGED total
          \/ /\ pc[j] = "totals"
             /\ total' = [total EXCEPT ![TotalNames[sent[j] + 1]] = counted[j][TotalNames[sent[j] + 1]]]
      BY <1>14 DEF DeliveryFails, topics
    <3> QED
      BY <1>t, <1>13, <1>s, <3>1 DEF RunTypes, Totals
  <2> QED
    BY <1>t, <2>1, <2>2, <2>3, <2>4, <2>5, <2>6 DEF RunTypes, config, store
<1>15. CASE Stopped(j)
  <2>1. /\ UNCHANGED <<config, audio, store, topics>> /\ Ends(j, "failed")
        /\ struck' = [struck EXCEPT !["failure"] = @ + 1]
    BY <1>15 DEF Stopped, Strikes
  <2>2. struck' \in [Disruptions -> Nat]
    BY <1>t, <2>1 DEF RunTypes, Disruptions
  <2> QED
    BY <1>t, <2>1, <2>2, EndsTypes DEF RunTypes, config, store, topics
<1> QED
  BY <1>1, <1>2, <1>3, <1>4, <1>5, <1>6, <1>7, <1>8, <1>9, <1>10, <1>11, <1>12, <1>14, <1>15
     DEF JobStep, Step

-----------------------------------------------------------------------------
\* The totals of no track, and of one more.
LEMMA TotalsOfNone == \A status, counts : TotalsWith({}, status, counts) = NoTotals
<1> SUFFICES ASSUME NEW status, NEW counts PROVE TotalsWith({}, status, counts) = NoTotals
  OBVIOUS
<1>1. SegmentsWith({}, counts) = {} /\ FailuresWith({}, status) = {}
  BY DEF SegmentsWith, FailuresWith
<1>2. TotalsWith({}, status, counts)
        = [tracks_total |-> 0, segments_total |-> 0, validation_failures |-> 0]
  BY <1>1, FS_EmptySet DEF TotalsWith
<1> QED
  BY <1>2, TotalNamesAre DEF NoTotals

\* One more track counts once, and so do its segments.
LEMMA TotalsOfOneMore ==
    ASSUME NEW status, NEW counts, NEW T, T \subseteq Tracks, NEW t \in Tracks \ T,
           counts[t] \in 0 .. MaxSegments
    PROVE  TotalsWith(T \cup {t}, status, counts) =
             [tracks_total |-> TotalsWith(T, status, counts).tracks_total + 1,
              segments_total |-> TotalsWith(T, status, counts).segments_total + counts[t],
              validation_failures |-> TotalsWith(T, status, counts).validation_failures
                                        + (IF status[t] = "validated" THEN 0 ELSE 1)]
<1> DEFINE failures(U) == FailuresWith(U, status)
           segments(U) == SegmentsWith(U, counts)
<1>1. IsFiniteSet(T) /\ IsFiniteSet(failures(T))
  BY IngestionAssumption, FS_Subset DEF FailuresWith
<1>2. Cardinality(T \cup {t}) = Cardinality(T) + 1
  BY <1>1, FS_AddElement
<1>3. Cardinality(failures(T \cup {t})) =
        Cardinality(failures(T)) + (IF status[t] = "validated" THEN 0 ELSE 1)
  <2>1. CASE status[t] = "validated"
    <3>1. failures(T \cup {t}) = failures(T)
      BY <2>1 DEF FailuresWith
    <3>2. Cardinality(failures(T)) \in Nat
      BY <1>1, FS_CardinalityType
    <3> HIDE DEF failures
    <3> QED
      BY <2>1, <3>1, <3>2
  <2>2. CASE status[t] # "validated"
    <3>1. failures(T \cup {t}) = failures(T) \cup {t} /\ t \notin failures(T)
      BY <2>2 DEF FailuresWith
    <3>2. Cardinality(failures(T) \cup {t}) = Cardinality(failures(T)) + 1
      BY <1>1, <3>1, FS_AddElement
    <3> HIDE DEF failures
    <3> QED
      BY <2>2, <3>1, <3>2
  <2> QED
    BY <2>1, <2>2
<1>4. IsFiniteSet(segments(T)) /\ Cardinality(segments(T)) \in Nat
  <2>1. IsFiniteSet(Segments)
    <3>1. IsFiniteSet(0 .. MaxSegments - 1)
      BY IngestionAssumption, FS_Interval
    <3> QED
      BY <3>1, IngestionAssumption, FS_Product DEF Segments
  <2>2. segments(T) \subseteq Segments
    BY DEF SegmentsWith
  <2> QED
    BY <2>1, <2>2, FS_Subset, FS_CardinalityType
<1>5. Cardinality(segments(T \cup {t})) = Cardinality(segments(T)) + counts[t]
  <2> DEFINE n == counts[t]
             row == {t} \X (0 .. n - 1)
  <2>1. n \in Nat /\ n <= MaxSegments
    BY IngestionAssumption
  <2> HIDE DEF n
  <2>2. IsFiniteSet(row) /\ Cardinality(row) = n
    BY <2>1, RowOfSegments
  <2>3. segments(T \cup {t}) = segments(T) \cup row
    <3>1. ASSUME NEW s \in Segments, s[1] = t PROVE s[2] < n <=> s \in row
      BY <2>1, <3>1 DEF Segments
    <3>2. \A s \in row : s \in Segments /\ s[1] = t
      BY <2>1, IngestionAssumption DEF Segments
    <3> HIDE DEF row
    <3> QED
      BY <3>1, <3>2 DEF SegmentsWith, n
  <2>4. segments(T) \cap row = {}
    BY DEF SegmentsWith
  <2> HIDE DEF row, segments
  <2>5. Cardinality(segments(T) \cap row) = 0
    BY <2>4, FS_EmptySet
  <2>6. Cardinality(segments(T) \cup row) =
          Cardinality(segments(T)) + Cardinality(row) - Cardinality(segments(T) \cap row)
    BY <1>4, <2>2, FS_Union
  <2>7. Cardinality(segments(T) \cup row) = Cardinality(segments(T)) + n
    BY <1>4, <2>1, <2>2, <2>5, <2>6
  <2> QED
    BY <2>3, <2>7 DEF n
<1> QED
  BY <1>2, <1>3, <1>5 DEF TotalsWith

\* What a job has handled stays delivered, whatever it goes on to do.
LEMMA DeliveredStays ==
    ASSUME Inv, NEW j \in Jobs, OnlyTouches(j), NEW t \in Handled(j), Delivered(t),
           ~Shared => \A i \in 0 .. MaxSegments - 1 : manifest'[<<t, i>>] = manifest[<<t, i>>]
    PROVE  Delivered(t)'
<1>1. t \in Tracks /\ (pc[j] \in Working => t # track[j])
  BY SelectedIs DEF Inv, Handled, Pending
<1>2. /\ metadata'[t] = metadata[t]
      /\ \A i \in 0 .. MaxSegments - 1 :
            artifact'[<<t, i>>] = artifact[<<t, i>>] /\ announced'[<<t, i>>] = announced[<<t, i>>]
  BY <1>1 DEF OnlyTouches
<1>3. PICK c \in Contents : DeliveredAs(t, c)
  BY DEF Delivered
<1>4. /\ Verdict(t, c)' = Verdict(t, c) /\ Count(t, c)' = Count(t, c) /\ Shared' = Shared
      /\ Current(t, c) => Current(t, c)'
  BY SteadyIs DEF OnlyTouches
<1>5. \A i \in 0 .. Count(t, c) - 1 : i \in 0 .. MaxSegments - 1
  <2>1. Count(t, c) \in 0 .. MaxSegments
    BY <1>1, VerdictIs DEF Inv
  <2> QED
    BY <2>1, IngestionAssumption
<1>6. DeliveredAs(t, c)'
  BY <1>2, <1>3, <1>4, <1>5 DEF DeliveredAs
<1> QED
  BY <1>6 DEF Delivered

\* The totals of tracks that are not in hand stay the same.
LEMMA HandledTotalsStay ==
    ASSUME Inv, NEW j \in Jobs, OnlyTouches(j), NEW T, T \subseteq Handled(j)
    PROVE  TotalsWith(T, metadata', AnnouncedCounts') = TotalsOf(T)
<1>1. \A t \in T : t \in Tracks /\ (pc[j] \in Working => t # track[j])
  BY SelectedIs DEF Inv, Handled, Pending
<1>2. 0 \in 0 .. MaxSegments - 1
  BY IngestionAssumption
<1>3. \A t \in T : metadata'[t] = metadata[t] /\ announced'[<<t, 0>>] = announced[<<t, 0>>]
  BY <1>1, <1>2 DEF OnlyTouches
<1> QED
  BY <1>1, <1>3, TotalsOfStay DEF OnlyTouches

\* A job that fails leaves nothing that has to hold.
LEMMA Failed ==
    ASSUME Inv, NEW j \in Jobs, Steady, Ends(j, "failed")
    PROVE  JobInv(j)'
<1>1. /\ pc'[j] = "down" /\ todo'[j] = {} /\ outcome'[j] = "failed" /\ sent'[j] = 0
      /\ counted'[j] = NoTotals
  BY DEF Ends, GoTo, Inv, TypeOK
<1>2. "down" \notin Working /\ {"write", "writing", "segments"} \subseteq Working
  BY DEF Working, Stages
<1> QED
  BY <1>1, <1>2 DEF JobInv, Begun, InHand, Filled, Rows, Announced, Counting

\* A job that goes on with its track has still to deliver it.
LEMMA OnWithTheTrack ==
    ASSUME Inv, NEW j \in Jobs, OnlyTouches(j),
           pc[j] \in Working, pc'[j] \in Working,
           pc'[j] \in Cutting => seen[j].status = "validated",
           UNCHANGED <<todo[j], track[j], seen[j], counted[j], sent[j], outcome[j]>>,
           ~Shared => \A t \in Tracks \ {track[j]}, i \in 0 .. MaxSegments - 1 :
                         manifest'[<<t, i>>] = manifest[<<t, i>>]
    PROVE  Begun(j)' /\ InHand(j)' /\ Announced(j)' /\ Counting(j)'
<1>j. JobInv(j)
  BY DEF Inv
<1>w. "down" \notin Working /\ "totals" \notin Working
  BY DEF Working, Stages
<1>1. /\ Shared' = Shared /\ Selected(j)' = Selected(j)
      /\ LoadableCatalogue(j)' = LoadableCatalogue(j)
      /\ allowed'[j] = allowed[j]
  BY SteadyIs DEF OnlyTouches, Steady, config
<1>2. Handled(j)' = Handled(j) /\ Handled(j) \subseteq Tracks \ {track[j]}
  BY <1>1, SelectedIs DEF Handled, Pending, Inv
<1>3. Begun(j)'
  BY <1>j, <1>w, <1>1 DEF JobInv, Begun
<1>4. InHand(j)'
  <2>1. \A t, c : Verdict(t, c)' = Verdict(t, c) /\ (Current(t, c) => Current(t, c)')
    BY SteadyIs DEF OnlyTouches
  <2>2. PICK c \in Contents : Current(track[j], c) /\ seen[j] = Verdict(track[j], c)
    BY <1>j DEF JobInv, InHand
  <2>3. Current(track[j], c)' /\ seen[j]' = Verdict(track[j], c)'
    <3>1. PICK t \in Tracks : t = track[j]
      BY InHandIs
    <3>2. Current(t, c)' /\ Verdict(t, c)' = Verdict(t, c) /\ seen[j] = Verdict(t, c)
      BY <2>1, <2>2, <3>1
    <3> QED
      BY <3>1, <3>2 DEF Current, Verdict
  <2>4. track[j]' \in Selected(j)' \ todo[j]'
    BY <1>j, <1>1 DEF JobInv, InHand
  <2> QED
    BY <2>3, <2>4 DEF InHand
<1>5. Announced(j)'
  <2>1. \A t \in Handled(j) : Delivered(t)
    BY <1>j, <1>w DEF JobInv, Announced
  <2>2. \A t \in Handled(j) : Delivered(t)'
    BY <1>2, <2>1, DeliveredStays
  <2> QED
    BY <1>2, <2>2 DEF Announced
<1>6. Counting(j)'
  <2>1. TotalsOf(Handled(j))' = TotalsOf(Handled(j))
    <3>1. TotalsWith(Handled(j), metadata', AnnouncedCounts') = TotalsOf(Handled(j))
      BY HandledTotalsStay
    <3> QED
      BY <1>2, <3>1 DEF TotalsOf
  <2>2. outcome[j] # "done"
    BY <1>j, <1>w DEF JobInv, Begun
  <2> QED
    BY <1>j, <1>w, <2>1, <2>2 DEF JobInv, Counting
<1> QED
  BY <1>3, <1>4, <1>5, <1>6

\* A job that has delivered its track counts it and goes to the next one.
LEMMA DoneWithTheTrack ==
    ASSUME Inv, NEW j \in Jobs, OnlyTouches(j),
           pc[j] \in Working, pc'[j] = "next", UNCHANGED manifest,
           UNCHANGED <<todo[j], track[j], seen[j], sent[j], outcome[j]>>,
           NEW n \in 0 .. MaxSegments, Counted(j, n), AnnouncedCounts'[track[j]] = n,
           metadata'[track[j]] = seen[j].status,
           Delivered(track[j])'
    PROVE  JobInv(j)'
<1>j. JobInv(j)
  BY DEF Inv
<1>w. /\ "down" \notin Working /\ "totals" \notin Working /\ "next" \notin Working
      /\ {"write", "writing", "segments"} \subseteq Working
  BY DEF Working, Stages
<1>1. /\ Shared' = Shared /\ Selected(j)' = Selected(j)
      /\ LoadableCatalogue(j)' = LoadableCatalogue(j)
      /\ allowed'[j] = allowed[j]
  BY SteadyIs DEF OnlyTouches, Steady, config
<1>h. track[j] \in Tracks /\ track[j] \in Selected(j) /\ track[j] \notin todo[j]
  BY InHandIs
<1>2. /\ Handled(j)' = Handled(j) \cup {track[j]}
      /\ Handled(j) \subseteq Tracks /\ track[j] \notin Handled(j)
  BY <1>1, <1>h, <1>w, SelectedIs DEF Handled, Pending, Inv
<1>3. Begun(j)'
  BY <1>j, <1>w, <1>1 DEF JobInv, Begun
<1>4. InHand(j)' /\ Filled(j)' /\ Rows(j)'
  BY <1>w DEF InHand, Filled, Rows
<1>5. Announced(j)'
  <2>1. \A t \in Handled(j) : Delivered(t)
    BY <1>j, <1>w DEF JobInv, Announced
  <2>2. \A t \in Handled(j) : Delivered(t)'
    BY <2>1, DeliveredStays
  <2>3. \A t \in Handled(j)' : Delivered(t)'
    <3>1. PICK u : u = track[j]
      OBVIOUS
    <3>2. track'[j] = u
      BY <3>1
    <3>3. Delivered(u)'
      BY <3>1, <3>2 DEF Delivered, DeliveredAs, Current, Verdict, Count
    <3> QED
      BY <1>2, <2>2, <3>1, <3>3
  <2> QED
    BY <2>3 DEF Announced
<1>6. Counting(j)'
  <2>2. outcome[j] # "done"
    BY <1>j, <1>w DEF JobInv, Begun
  <2>3. counted[j] = TotalsOf(Handled(j)) /\ sent[j] = 0
    BY <1>j, <1>w DEF JobInv, Counting
  <2>4. counted'[j] = TotalsWith(Handled(j) \cup {track[j]}, metadata', AnnouncedCounts')
    <3>1. j \in DOMAIN counted
      BY DEF Inv, TypeOK
    <3>2. counted'[j] =
            [tracks_total |-> counted[j]["tracks_total"] + 1,
             segments_total |-> counted[j]["segments_total"] + n,
             validation_failures |-> counted[j]["validation_failures"]
                                       + (IF seen[j].status = "validated" THEN 0 ELSE 1)]
      BY <3>1 DEF Counted
    <3>3. TotalsWith(Handled(j), metadata', AnnouncedCounts') = counted[j]
      BY <2>3, HandledTotalsStay
    <3>4. TotalsWith(Handled(j) \cup {track[j]}, metadata', AnnouncedCounts') =
            [tracks_total |-> counted[j].tracks_total + 1,
             segments_total |-> counted[j].segments_total + n,
             validation_failures |-> counted[j].validation_failures
                                       + (IF seen[j].status = "validated" THEN 0 ELSE 1)]
      BY <1>2, <1>h, <3>3, TotalsOfOneMore
    <3> QED
      BY <3>2, <3>4
  <2>5. TotalsOf(Handled(j))' = TotalsWith(Handled(j) \cup {track[j]}, metadata', AnnouncedCounts')
    BY <1>2 DEF TotalsOf
  <2> QED
    BY <2>2, <2>3, <2>4, <2>5 DEF Counting
<1> QED
  BY <1>3, <1>4, <1>5, <1>6 DEF JobInv

-----------------------------------------------------------------------------
\* A job keeps what holds of it, whatever it does.
LEMMA JobStepKeeps ==
    ASSUME Inv, NEW j \in Jobs, JobStep(j)
    PROVE  JobInv(j)'
<1>o. OnlyTouches(j) /\ Steady
  BY StepOnlyTouches DEF OnlyTouches
<1>t. WorkTypes /\ RunTypes /\ TypeOK
  BY TypesAre DEF Inv
<1>j. Begun(j) /\ InHand(j) /\ Filled(j) /\ Rows(j) /\ Announced(j) /\ Counting(j)
  BY DEF Inv, JobInv
<1>w. /\ {"write", "writing", "merge", "store", "storing", "verify", "segments"} = Cutting
      /\ Working = Cutting \cup {"metadata"}
      /\ {"write", "writing", "segments"} \subseteq Working
      /\ "down" \notin Working /\ "next" \notin Working /\ "totals" \notin Working
  BY DEF Cutting, Working, Stages
<1>s. /\ Shared' = Shared /\ Selected(j)' = Selected(j)
      /\ LoadableCatalogue(j)' = LoadableCatalogue(j)
      /\ allowed'[j] = allowed[j]
      /\ LastIdx(j) = LastIdx(j)
  BY <1>o, SteadyIs DEF Steady, config
<1>h. pc[j] \in Working =>
        /\ track[j] \in Tracks /\ track[j] \in Selected(j)
        /\ pc[j] \in Cutting => seen[j].status = "validated"
        /\ seen[j].status = "validated" =>
              /\ seen[j].content \in Contents
              /\ LastIdx(j) = Count(track[j], seen[j].content) - 1
              /\ LastIdx(j) \in 0 .. MaxSegments - 1
              /\ \A i \in 0 .. LastIdx(j) : <<track[j], i>> \in Segments
              /\ \A s \in Segments : s \in RowsOf(j) <=> s[1] = track[j] /\ s[2] <= LastIdx(j)
              /\ \A i \in 0 .. LastIdx(j) : <<track[j], i>> \in RowsOf(j)
              /\ RowsOf(j) \subseteq Segments
        /\ pc[j] \in {"write", "writing", "segments"} =>
              idx[j] \in 0 .. LastIdx(j) /\ Segment(j) = <<track[j], idx[j]>>
  BY InHandIs
<1>d. /\ DOMAIN pc = Jobs /\ DOMAIN todo = Jobs /\ DOMAIN track = Jobs /\ DOMAIN idx = Jobs
      /\ DOMAIN seen = Jobs /\ DOMAIN merged = Jobs /\ DOMAIN counted = Jobs
      /\ DOMAIN sent = Jobs /\ DOMAIN outcome = Jobs
      /\ DOMAIN artifact = Segments /\ DOMAIN announced = Segments
      /\ DOMAIN manifest = Segments /\ DOMAIN metadata = Tracks
  BY <1>t DEF WorkTypes, RunTypes
<1>f. Ends(j, "failed") => JobInv(j)'
  BY <1>o, Failed
<1>1. CASE Start(j)
  <2>1. /\ pc[j] = "down" /\ allowed[j] # {} /\ outcome[j] \in {"none", "failed"}
        /\ UNCHANGED <<track, idx, seen, merged, counted, sent, total>>
    BY <1>1 DEF Start, topics
  <2>2. CASE LoadableCatalogue(j)
    <3>1. todo'[j] = Selected(j) /\ pc'[j] = "next" /\ UNCHANGED outcome
      BY <1>1, <1>d, <2>2 DEF Start, GoTo
    <3>2. Handled(j)' = {}
      BY <1>s, <1>w, <3>1 DEF Handled, Pending
    <3>3. TotalsOf(Handled(j))' = NoTotals
      BY <3>2, TotalsOfNone DEF TotalsOf
    <3>4. Counting(j)'
      BY <1>j, <2>1, <3>1, <3>3 DEF Counting
    <3>5. Begun(j)' /\ InHand(j)' /\ Filled(j)' /\ Rows(j)' /\ Announced(j)'
      BY <1>s, <1>w, <2>1, <2>2, <3>1, <3>2 DEF Begun, InHand, Filled, Rows, Announced
    <3> QED
      BY <3>4, <3>5 DEF JobInv
  <2>3. CASE ~LoadableCatalogue(j)
    <3>1. outcome'[j] = "rejected" /\ UNCHANGED <<todo, pc>>
      BY <1>1, <1>d, <2>3 DEF Start
    <3> QED
      BY <1>j, <1>s, <1>w, <2>1, <3>1
         DEF JobInv, Begun, InHand, Filled, Rows, Announced, Counting
  <2> QED
    BY <2>2, <2>3
<1>2. CASE TakeTrack(j)
  <2>a. Min(todo[j]) \in todo[j]
    BY <1>2, <1>t, MinIsIn, IngestionAssumption DEF TakeTrack, WorkTypes
  <2>2. PICK t \in Selected(j) : t = Min(todo[j]) /\ t \in todo[j] /\ t \in Tracks
    BY <2>a, <1>j, <1>t DEF Begun, WorkTypes
  <2>c. PICK c \in Contents : c = audio[t]
    BY <1>t, <2>2 DEF RunTypes
  <2>1. /\ pc[j] = "next" /\ todo[j] # {}
        /\ todo'[j] = todo[j] \ {t} /\ track'[j] = t /\ seen'[j] = Verdict(t, c) /\ idx'[j] = 0
        /\ pc'[j] = IF Verdict(t, c).status = "validated" THEN "write" ELSE "metadata"
        /\ UNCHANGED <<config, audio, store, topics, merged, counted, sent, outcome, struck>>
    BY <1>2, <1>d, <2>2, <2>c DEF TakeTrack, GoTo
  <2>3. pc'[j] \in Working
    BY <1>w, <2>1
  <2>4. Handled(j)' = Handled(j) /\ Handled(j) \subseteq Tracks
    BY <1>s, <1>w, <2>1, <2>2, <2>3, SelectedIs, <1>t DEF Handled, Pending
  <2>5. Begun(j)'
    BY <1>j, <1>s, <1>w, <2>1, <2>3 DEF Begun
  <2>6. InHand(j)'
    <3>1. Verdict(t, c)' = Verdict(t, c)
      BY <1>o, SteadyIs
    <3>2. Current(t, c)'
      BY <2>1, <2>c DEF Current
    <3>3. seen'[j] = Verdict(t, c)' /\ (pc'[j] \in Cutting => seen'[j].status = "validated")
      BY <1>w, <2>1, <3>1 DEF Cutting
    <3>4. t \in Selected(j)' \ todo'[j]
      BY <1>s, <2>1, <2>2
    <3>5. Current(track[j], c)' /\ seen[j]' = Verdict(track[j], c)'
      <4>1. Verdict(track[j], c)' = Verdict(t, c)' /\ Current(track[j], c)' = Current(t, c)'
        BY <2>1 DEF Verdict, Current
      <4> QED
        BY <3>2, <3>3, <4>1
    <3> QED
      BY <2>1, <3>3, <3>4, <3>5 DEF InHand
  <2>7. Filled(j)'
    <3>1. Verdict(t, c).status = "validated" =>
             /\ SegmentCount(Verdict(t, c).length) \in 0 .. MaxSegments
             /\ SegmentCount(Verdict(t, c).length) > 0
      BY <2>2, VerdictIs DEF Inv
    <3>2. Verdict(t, c).status = "validated" => LastIdx(j)' >= 0
      BY <2>1, <3>1, IngestionAssumption DEF LastIdx
    <3>3. 0 .. 0 - 1 = {}
      OBVIOUS
    <3> QED
      BY <2>1, <2>3, <3>2, <3>3 DEF Filled
  <2>8. Rows(j)'
    BY <2>1, <2>3 DEF Rows
  <2>9. Announced(j)'
    <3>1. \A u \in Handled(j) : Delivered(u)
      BY <1>j, <2>1 DEF Announced
    <3>2. UNCHANGED manifest
      BY <2>1 DEF store
    <3>3. \A u \in Handled(j) : Delivered(u)'
      BY <1>o, <3>1, <3>2, DeliveredStays
    <3> QED
      BY <2>4, <3>3 DEF Announced
  <2>10. Counting(j)'
    <3>1. TotalsOf(Handled(j))' = TotalsOf(Handled(j))
      BY <1>o, <2>4, HandledTotalsStay DEF TotalsOf
    <3>2. outcome[j] # "done"
      BY <1>j, <2>1 DEF Begun
    <3> QED
      BY <1>j, <1>w, <2>1, <2>3, <2>4, <3>1, <3>2 DEF Counting
  <2> QED
    BY <2>5, <2>6, <2>7, <2>8, <2>9, <2>10 DEF JobInv
<1>3. CASE BeginWrite(j)
  <2>1. /\ pc[j] = "write" /\ pc'[j] = "writing"
        /\ artifact' = [artifact EXCEPT ![Segment(j)] = "torn"]
        /\ UNCHANGED <<config, audio, file, manifest, topics, work, outcome, struck>>
    BY <1>3, <1>d DEF BeginWrite, GoTo
  <2>2. UNCHANGED <<todo, track, idx, seen, merged, counted, sent, manifest>>
    BY <2>1 DEF work
  <2>3. Begun(j)' /\ InHand(j)' /\ Announced(j)' /\ Counting(j)'
    BY <1>o, <1>w, <1>h, <2>1, <2>2, OnWithTheTrack
  <2>4. \A i \in 0 .. idx[j] - 1 : artifact'[<<track[j], i>>] = artifact[<<track[j], i>>]
    BY <1>h, <1>w, <1>d, <2>1, IngestionAssumption
  <2>5. Filled(j)'
    BY <1>j, <1>w, <2>1, <2>2, <2>4 DEF Filled, LastIdx
  <2>6. Rows(j)'
    BY <2>1 DEF Rows
  <2> QED
    BY <2>3, <2>5, <2>6 DEF JobInv
<1>4. CASE FinishWrite(j)
  <2>1. /\ pc[j] \in {"write", "writing"}
        /\ artifact' = [artifact EXCEPT ![Segment(j)] = seen[j].content]
        /\ \/ idx[j] = LastIdx(j) /\ pc'[j] = "merge" /\ idx'[j] = 0
           \/ idx[j] # LastIdx(j) /\ pc'[j] = "write" /\ idx'[j] = idx[j] + 1
        /\ UNCHANGED <<config, audio, file, manifest, topics, todo, track, seen, merged, counted,
                       sent, outcome, struck>>
    BY <1>4, <1>d DEF FinishWrite, GoTo
  <2>2. pc[j] \in Working /\ pc'[j] \in Working
    BY <1>w, <2>1
  <2>3. Begun(j)' /\ InHand(j)' /\ Announced(j)' /\ Counting(j)'
    BY <1>o, <1>w, <1>h, <2>1, <2>2, OnWithTheTrack
  <2>4. \A i \in 0 .. idx[j] : artifact'[<<track[j], i>>] = seen[j].content
    <3>1. \A i \in 0 .. idx[j] - 1 : artifact[<<track[j], i>>] = seen[j].content
      BY <1>j, <1>h, <1>w, <2>1, <2>2 DEF Filled
    <3>2. \A i \in 0 .. idx[j] : <<track[j], i>> \in Segments
      BY <1>h, <1>w, <2>1, IngestionAssumption
    <3>3. idx[j] \in Nat
      BY <1>t, IngestionAssumption DEF WorkTypes
    <3> QED
      BY <1>h, <1>w, <1>d, <2>1, <3>1, <3>2, <3>3
  <2>5. Filled(j)'
    <3>1. idx[j] \in 0 .. LastIdx(j) /\ LastIdx(j) \in Nat /\ LastIdx(j)' = LastIdx(j)
      BY <1>h, <1>w, <2>1, IngestionAssumption DEF LastIdx
    <3> QED
      BY <2>1, <2>4, <3>1 DEF Filled
  <2>6. Rows(j)'
    BY <2>1 DEF Rows
  <2> QED
    BY <2>3, <2>5, <2>6 DEF JobInv
<1>5. CASE Merge(j)
  <2>1. CASE Ends(j, "failed")
    BY <1>f, <2>1
  <2>2. CASE ~Ends(j, "failed")
    <3>1. /\ pc[j] = "merge" /\ pc'[j] = "store"
          /\ merged'[j] = [s \in Segments |-> IF s \in RowsOf(j) THEN seen[j].content ELSE manifest[s]]
          /\ UNCHANGED <<store, topics, todo, track, idx, seen, counted, sent, outcome>>
      BY <1>5, <1>d, <2>2 DEF Merge, GoTo
    <3>2. UNCHANGED <<artifact, manifest, metadata, announced, total>>
      BY <3>1 DEF store, topics
    <3>3. Begun(j)' /\ InHand(j)' /\ Announced(j)' /\ Counting(j)'
      BY <1>o, <1>w, <1>h, <3>1, <3>2, OnWithTheTrack
    <3>4. Filled(j)'
      BY <1>j, <1>w, <3>1, <3>2 DEF Filled, LastIdx
    <3>5. Rows(j)'
      <4>1. RowsOf(j)' = RowsOf(j) /\ RowsOf(j) \subseteq Segments
        BY <1>h, <1>w, <3>1 DEF RowsOf, LastIdx
      <4>2. /\ \A s \in RowsOf(j) : merged'[j][s] = seen[j].content
            /\ \A s \in Segments \ RowsOf(j) : merged'[j][s] = manifest[s]
        BY <3>1, <4>1
      <4> QED
        BY <3>1, <3>2, <4>1, <4>2 DEF Rows, Segments
    <3> QED
      BY <3>3, <3>4, <3>5 DEF JobInv
  <2> QED
    BY <2>1, <2>2
<1>6. CASE BeginStore(j)
  <2>1. /\ pc[j] = "store" /\ pc'[j] = "storing"
        /\ UNCHANGED <<artifact, manifest, topics, work, outcome>>
    BY <1>6, <1>d DEF BeginStore, GoTo
  <2>2. UNCHANGED <<metadata, announced, total, todo, track, idx, seen, merged, counted, sent>>
    BY <2>1 DEF topics, work
  <2>3. Begun(j)' /\ InHand(j)' /\ Announced(j)' /\ Counting(j)'
    BY <1>o, <1>w, <1>h, <2>1, <2>2, OnWithTheTrack
  <2>4. Filled(j)'
    BY <1>j, <1>w, <2>1, <2>2 DEF Filled, LastIdx
  <2>5. Rows(j)'
    BY <1>j, <1>s, <2>1, <2>2 DEF Rows, RowsOf, LastIdx, Segments
  <2> QED
    BY <2>3, <2>4, <2>5 DEF JobInv
<1>7. CASE FinishStore(j)
  <2>1. /\ pc[j] \in {"store", "storing"} /\ pc'[j] = "verify"
        /\ manifest' = merged[j]
        /\ UNCHANGED <<artifact, topics, work, outcome>>
    BY <1>7, <1>d DEF FinishStore, GoTo
  <2>2. UNCHANGED <<metadata, announced, total, todo, track, idx, seen, merged, counted, sent>>
    BY <2>1 DEF topics, work
  <2>3. /\ \A s \in RowsOf(j) : manifest'[s] = seen[j].content
        /\ ~Shared => \A t \in Tracks \ {track[j]}, i \in 0 .. MaxSegments - 1 :
                         manifest'[<<t, i>>] = manifest[<<t, i>>]
    <3>1. /\ \A s \in RowsOf(j) : merged[j][s] = seen[j].content
          /\ ~Shared => \A s \in Segments \ RowsOf(j) : merged[j][s] = manifest[s]
      BY <1>j, <2>1 DEF Rows
    <3>2. \A t \in Tracks \ {track[j]}, i \in 0 .. MaxSegments - 1 : <<t, i>> \in Segments \ RowsOf(j)
      BY DEF Segments, RowsOf
    <3> QED
      BY <2>1, <3>1, <3>2
  <2>4. Begun(j)' /\ InHand(j)' /\ Announced(j)' /\ Counting(j)'
    BY <1>o, <1>w, <1>h, <2>1, <2>2, <2>3, OnWithTheTrack
  <2>5. Filled(j)'
    BY <1>j, <1>w, <2>1, <2>2 DEF Filled, LastIdx
  <2>6. Rows(j)'
    BY <2>1, <2>2, <2>3 DEF Rows, RowsOf, LastIdx
  <2> QED
    BY <2>4, <2>5, <2>6 DEF JobInv
<1>8. CASE Verify(j)
  <2>1. CASE Ends(j, "failed")
    BY <1>f, <2>1
  <2>2. CASE ~Ends(j, "failed")
    <3>1. /\ pc[j] = "verify" /\ pc'[j] = "metadata"
          /\ UNCHANGED <<store, topics, work, outcome>>
      BY <1>8, <1>d, <2>2 DEF Verify, GoTo
    <3>2. UNCHANGED <<artifact, manifest, metadata, announced, total, todo, track, idx, seen,
                      merged, counted, sent>>
      BY <3>1 DEF store, topics, work
    <3>3. Begun(j)' /\ InHand(j)' /\ Announced(j)' /\ Counting(j)'
      BY <1>o, <1>w, <1>h, <3>1, <3>2, OnWithTheTrack
    <3>4. Filled(j)'
      BY <1>j, <1>w, <3>1, <3>2 DEF Filled, LastIdx
    <3>5. Rows(j)'
      BY <1>j, <1>s, <3>1, <3>2 DEF Rows, RowsOf, LastIdx, Segments
    <3> QED
      BY <3>3, <3>4, <3>5 DEF JobInv
  <2> QED
    BY <2>1, <2>2
<1>9. CASE PublishMetadata(j)
  <2>1. CASE Ends(j, "failed")
    BY <1>f, <2>1
  <2>2. CASE ~Ends(j, "failed")
    <3>1. /\ pc[j] = "metadata"
          /\ metadata' = [metadata EXCEPT ![track[j]] = seen[j].status]
          /\ UNCHANGED <<store, announced, total, todo, track, idx, seen, merged, sent, outcome>>
      BY <1>9, <2>2 DEF PublishMetadata
    <3>2. UNCHANGED <<artifact, manifest>>
      BY <3>1 DEF store
    <3>3. CASE seen[j].status = "validated"
      <4>1. pc'[j] = "segments" /\ UNCHANGED counted
        BY <1>9, <1>d, <2>2, <3>3 DEF PublishMetadata, GoTo
      <4>2. Begun(j)' /\ InHand(j)' /\ Announced(j)' /\ Counting(j)'
        BY <1>o, <1>w, <1>h, <3>1, <3>2, <3>3, <4>1, OnWithTheTrack
      <4>3. Filled(j)'
        <5>1. metadata'[track[j]] = "validated"
          BY <1>d, <1>h, <1>w, <3>1, <3>3
        <5>2. LastIdx(j) \in Nat /\ idx[j] = 0 /\ 0 .. 0 - 1 = {}
          BY <1>j, <1>h, <1>w, <3>1, <3>3, IngestionAssumption DEF Filled
        <5> QED
          BY <1>j, <1>w, <3>1, <3>2, <3>3, <4>1, <5>1, <5>2 DEF Filled, LastIdx
      <4>4. Rows(j)'
        BY <1>j, <1>s, <3>1, <3>2, <4>1 DEF Rows, RowsOf, LastIdx, Segments
      <4> QED
        BY <4>2, <4>3, <4>4 DEF JobInv
    <3>4. CASE seen[j].status # "validated"
      <4>1. pc'[j] = "next" /\ Counted(j, 0)
        BY <1>9, <1>d, <2>2, <3>4 DEF PublishMetadata, GoTo
      <4>2. PICK u \in Tracks : u = track[j]
        BY <1>h, <1>w, <3>1
      <4>3. PICK c \in Contents : Current(u, c) /\ seen[j] = Verdict(u, c)
        BY <1>j, <1>w, <3>1, <4>2 DEF InHand
      <4>4. /\ Current(u, c)' /\ Verdict(u, c)' = Verdict(u, c) /\ Count(u, c)' = Count(u, c)
            /\ Count(u, c) = 0
        BY <1>o, <3>4, <4>3, SteadyIs, VerdictIs DEF Inv
      <4>5. metadata'[u] = Verdict(u, c).status /\ metadata'[u] = seen[j].status
        BY <1>d, <3>1, <4>2, <4>3
      <4>6. AnnouncedCounts'[u] = 0
        BY <3>4, <4>5 DEF AnnouncedCounts
      <4>7. Delivered(track[j])'
        <5>1. DeliveredAs(u, c)'
          BY <4>4, <4>5 DEF DeliveredAs
        <5>2. track'[j] = u
          BY <3>1, <4>2
        <5>3. DeliveredAs(track[j], c)'
          BY <5>1, <5>2 DEF DeliveredAs, Current, Verdict, Count
        <5> QED
          BY <5>3 DEF Delivered
      <4> QED
        BY <1>o, <1>w, <3>1, <3>2, <4>1, <4>2, <4>5, <4>6, <4>7, DoneWithTheTrack, IngestionAssumption
    <3> QED
      BY <3>3, <3>4
  <2> QED
    BY <2>1, <2>2
<1>10. CASE PublishSegment(j)
  <2>1. /\ pc[j] = "segments"
        /\ announced' = [announced EXCEPT ![<<track[j], idx[j]>>] = seen[j].content]
        /\ UNCHANGED <<store, metadata, total, todo, track, seen, merged, sent, outcome>>
    BY <1>10 DEF PublishSegment, Segment
  <2>2. UNCHANGED <<artifact, manifest>>
    BY <2>1 DEF store
  <2>3. /\ seen[j].status = "validated" /\ seen[j].content \in Contents
        /\ LastIdx(j) \in Nat /\ LastIdx(j) \in 0 .. MaxSegments - 1
        /\ idx[j] \in 0 .. LastIdx(j)
    BY <1>h, <1>w, <2>1, IngestionAssumption
  <2>4. \A i \in 0 .. idx[j] : announced'[<<track[j], i>>] = seen[j].content
    <3>1. \A i \in 0 .. idx[j] - 1 : announced[<<track[j], i>>] = seen[j].content
      BY <1>j, <2>1 DEF Filled
    <3>2. \A i \in 0 .. idx[j] : <<track[j], i>> \in Segments
      BY <1>h, <1>w, <2>1, <2>3
    <3> QED
      BY <1>d, <2>1, <2>3, <3>1, <3>2
  <2>5. CASE idx[j] # LastIdx(j)
    <3>1. idx'[j] = idx[j] + 1 /\ UNCHANGED <<pc, counted>>
      BY <1>10, <1>d, <2>5 DEF PublishSegment
    <3>2. Begun(j)' /\ InHand(j)' /\ Announced(j)' /\ Counting(j)'
      BY <1>o, <1>w, <1>h, <2>1, <2>2, <2>3, <3>1, OnWithTheTrack
    <3>3. Filled(j)'
      <4>1. LastIdx(j)' = LastIdx(j)
        BY <2>1 DEF LastIdx
      <4> QED
        BY <1>j, <1>w, <2>1, <2>2, <2>3, <2>4, <2>5, <3>1, <4>1 DEF Filled
    <3>4. Rows(j)'
      BY <1>j, <1>s, <2>1, <2>2, <3>1 DEF Rows, RowsOf, LastIdx, Segments
    <3> QED
      BY <3>2, <3>3, <3>4 DEF JobInv
  <2>6. CASE idx[j] = LastIdx(j)
    <3>1. pc'[j] = "next" /\ Counted(j, idx[j] + 1)
      BY <1>10, <1>d, <2>6 DEF PublishSegment, GoTo
    <3>2. PICK u \in Tracks, c \in Contents : u = track[j] /\ c = seen[j].content
      BY <1>h, <1>w, <2>1, <2>3
    <3>3. /\ Current(u, c) /\ seen[j] = Verdict(u, c) /\ LastIdx(j) = Count(u, c) - 1
          /\ Count(u, c) \in 0 .. MaxSegments
      BY <1>w, <2>1, <2>3, <3>2, InHandIs, VerdictIs DEF Inv
    <3>4. Current(u, c)' /\ Verdict(u, c)' = Verdict(u, c) /\ Count(u, c)' = Count(u, c)
      BY <1>o, <3>3, SteadyIs
    <3>5. metadata'[u] = "validated"
          /\ \A i \in 0 .. LastIdx(j) : artifact'[<<u, i>>] = c /\ announced'[<<u, i>>] = c
      <4>1. metadata[u] = "validated"
        BY <1>j, <2>1, <3>2 DEF Filled
      <4>2. \A i \in 0 .. LastIdx(j) : artifact[<<u, i>>] = c
        BY <1>j, <1>w, <2>1, <2>3, <3>2 DEF Filled
      <4> QED
        BY <2>1, <2>2, <2>4, <2>6, <3>2, <4>1, <4>2
    <3>6. ~Shared => \A i \in 0 .. LastIdx(j) : manifest'[<<u, i>>] = c
      <4>1. ~Shared => \A s \in RowsOf(j) : manifest[s] = c
        BY <1>j, <2>1, <2>3, <3>2 DEF Rows
      <4>2. \A i \in 0 .. LastIdx(j) : <<u, i>> \in RowsOf(j)
        BY <1>h, <1>w, <2>1, <2>3, <3>2
      <4> QED
        BY <2>2, <4>1, <4>2
    <3>7. Delivered(track[j])'
      <4>1. DeliveredAs(u, c)'
        BY <1>s, <2>3, <3>3, <3>4, <3>5, <3>6 DEF DeliveredAs
      <4>2. track'[j] = u
        BY <2>1, <3>2
      <4>3. DeliveredAs(track[j], c)'
        BY <4>1, <4>2 DEF DeliveredAs, Current, Verdict, Count
      <4> QED
        BY <4>3 DEF Delivered
    <3>8. AnnouncedCounts'[u] = Count(u, c)
      <4>1. announced'[<<u, 0>>] = c
        BY <2>3, <3>5
      <4>2. Count(u, Latest(u))' = Count(u, c)'
        BY <4>1 DEF Count, Verdict, Latest
      <4> QED
        BY <3>4, <3>5, <4>2 DEF AnnouncedCounts
    <3>9. Counted(j, Count(u, c)) /\ metadata'[u] = seen[j].status
      <4>1. idx[j] + 1 = Count(u, c)
        BY <2>3, <2>6, <3>3, IngestionAssumption
      <4> QED
        BY <2>3, <3>1, <3>5, <4>1
    <3> QED
      BY <1>o, <1>w, <2>1, <2>2, <3>1, <3>2, <3>3, <3>7, <3>8, <3>9, DoneWithTheTrack
  <2> QED
    BY <2>5, <2>6
<1>11. CASE NoMoreTracks(j)
  <2>1. /\ pc[j] = "next" /\ pc'[j] = "totals" /\ todo[j] = {}
        /\ UNCHANGED <<config, audio, store, topics, work, outcome, struck>>
    BY <1>11, <1>d DEF NoMoreTracks, GoTo
  <2>2. UNCHANGED <<manifest, total, todo, track, idx, seen, merged, counted, sent>>
    BY <2>1 DEF store, topics, work
  <2>3. Handled(j)' = Handled(j) /\ Handled(j) \subseteq Tracks
    BY <1>s, <1>t, <1>w, <2>1, <2>2, SelectedIs DEF Handled, Pending
  <2>4. Announced(j)'
    <3>1. \A u \in Handled(j) : Delivered(u)'
      BY <1>j, <1>o, <2>1, <2>2, DeliveredStays DEF Announced
    <3> QED
      BY <2>3, <3>1 DEF Announced
  <2>5. Counting(j)'
    <3>1. TotalsOf(Handled(j))' = TotalsOf(Handled(j))
      BY <1>o, <2>3, HandledTotalsStay DEF TotalsOf
    <3>2. outcome[j] # "done" /\ sent[j] = 0 /\ 1 .. 0 = {}
      BY <1>j, <2>1 DEF Begun, Counting
    <3> QED
      BY <1>j, <2>1, <2>2, <3>1, <3>2, TotalNamesAre DEF Counting
  <2>6. Begun(j)' /\ InHand(j)' /\ Filled(j)' /\ Rows(j)'
    BY <1>j, <1>s, <1>w, <2>1, <2>2 DEF Begun, InHand, Filled, Rows
  <2> QED
    BY <2>4, <2>5, <2>6 DEF JobInv
<1>12. CASE PublishTotal(j)
  <2>1. /\ pc[j] = "totals" /\ todo[j] = {} /\ sent[j] \in 0 .. 2 /\ allowed[j] # {}
        /\ Handled(j) = Selected(j) /\ Selected(j) \subseteq Tracks
        /\ counted[j] = TotalsOf(Selected(j))
        /\ outcome[j] # "done"
    <3>1. pc[j] = "totals"
      BY <1>12 DEF PublishTotal
    <3>2. todo[j] = {} /\ sent[j] < 3 /\ counted[j] = TotalsOf(Handled(j))
      BY <1>j, <3>1, TotalNamesAre DEF Counting
    <3>3. Handled(j) = Selected(j)
      BY <1>w, <3>1, <3>2 DEF Handled, Pending
    <3> QED
      BY <1>j, <1>t, <3>1, <3>2, <3>3, SelectedIs DEF WorkTypes, Begun
  <2>2. /\ total' = [total EXCEPT ![TotalNames[sent[j] + 1]] = counted[j][TotalNames[sent[j] + 1]]]
        /\ UNCHANGED <<config, audio, store, metadata, announced, struck>>
    BY <1>12 DEF PublishTotal
  <2>3. TotalsOf(Selected(j))' = TotalsOf(Selected(j)) /\ UNCHANGED manifest
    <3>1. TotalsWith(Selected(j), metadata', AnnouncedCounts') = TotalsOf(Selected(j))
      BY <1>o, <2>1, HandledTotalsStay
    <3> QED
      BY <1>s, <2>2, <3>1 DEF TotalsOf, store
  <2>4. \A t \in Selected(j) : Delivered(t)'
    BY <1>j, <1>o, <2>1, <2>3, DeliveredStays DEF Announced
  <2>5. ~Shared => \A n \in 1 .. sent[j] + 1 : total'[TotalNames[n]] = counted[j][TotalNames[n]]
    <3>1. ASSUME ~Shared, NEW n \in 1 .. sent[j] PROVE total[TotalNames[n]] = counted[j][TotalNames[n]]
      BY <1>j, <2>1, <3>1 DEF Counting
    <3>2. \A n \in 1 .. 3 : TotalNames[n] \in DOMAIN total
      BY <1>t, TotalNamesAre DEF RunTypes, Totals
    <3>3. \A n \in 1 .. 3, m \in 1 .. 3 : TotalNames[n] = TotalNames[m] => n = m
      BY TotalNamesAre
    <3> QED
      BY <2>1, <2>2, <3>1, <3>2, <3>3
  <2>6. CASE sent[j] + 1 = Len(TotalNames)
    <3>1. /\ pc'[j] = "down" /\ todo'[j] = {} /\ sent'[j] = 0 /\ counted'[j] = NoTotals
          /\ outcome'[j] = "done"
      BY <1>12, <1>d, <2>6 DEF PublishTotal, Ends, GoTo
    <3>2. Handled(j)' = Selected(j)
      BY <1>s, <1>w, <3>1 DEF Handled, Pending
    <3>3. Announced(j)'
      BY <2>4, <3>2 DEF Announced
    <3>4. ~Shared => total' = TotalsOf(Selected(j))
      <4>1. \A n \in 1 .. 3 : ~Shared => total'[TotalNames[n]] = TotalsOf(Selected(j))[TotalNames[n]]
        BY <2>1, <2>5, <2>6, TotalNamesAre
      <4>2. DOMAIN total' = Range(TotalNames) /\ total' = [m \in DOMAIN total' |-> total'[m]]
        BY <1>t, <2>2 DEF RunTypes, Totals
      <4>3. DOMAIN TotalsOf(Selected(j)) = Range(TotalNames)
            /\ TotalsOf(Selected(j)) = [m \in Range(TotalNames) |-> TotalsOf(Selected(j))[m]]
        BY TotalNamesAre DEF TotalsOf, TotalsWith
      <4> QED
        BY <4>1, <4>2, <4>3, TotalNamesAre
    <3>5. Counting(j)'
      BY <1>s, <2>3, <3>1, <3>4 DEF Counting
    <3>6. Begun(j)' /\ InHand(j)' /\ Filled(j)' /\ Rows(j)'
      BY <1>s, <1>w, <2>1, <3>1 DEF Begun, InHand, Filled, Rows
    <3> QED
      BY <3>3, <3>5, <3>6 DEF JobInv
  <2>7. CASE sent[j] + 1 # Len(TotalNames)
    <3>1. /\ sent'[j] = sent[j] + 1
          /\ UNCHANGED <<pc, todo, track, idx, seen, merged, counted, outcome>>
      BY <1>12, <1>d, <2>7 DEF PublishTotal
    <3>2. Handled(j)' = Handled(j)
      BY <1>s, <3>1 DEF Handled, Pending
    <3>3. Announced(j)'
      BY <2>1, <2>4, <3>2 DEF Announced
    <3>4. Counting(j)'
      BY <1>s, <2>1, <2>3, <2>5, <2>7, <3>1, <3>2, TotalNamesAre DEF Counting
    <3>5. Begun(j)' /\ InHand(j)' /\ Filled(j)' /\ Rows(j)'
      BY <1>j, <1>s, <1>w, <2>1, <3>1 DEF Begun, InHand, Filled, Rows
    <3> QED
      BY <3>3, <3>4, <3>5 DEF JobInv
  <2> QED
    BY <2>6, <2>7
<1>13. CASE DeliveryFails(j) \/ Stopped(j)
  BY <1>f, <1>13 DEF DeliveryFails, Stopped
<1> QED
  BY <1>1, <1>2, <1>3, <1>4, <1>5, <1>6, <1>7, <1>8, <1>9, <1>10, <1>11, <1>12, <1>13
     DEF JobStep, Step

-----------------------------------------------------------------------------
\* The rows of a version over those there are.
Overwrites(new, rows, t, c, counts) ==
    \A s \in Segments :
        new[s] = IF s \in {t} \X (0 .. counts[t][c] - 1) THEN c ELSE rows[s]

\* They keep the tracks whole.
LEMMA MergeKeepsWhole ==
    ASSUME NEW counts \in [Tracks -> [Contents -> 0 .. MaxSegments]],
           NEW rows, HasWhole(rows, counts),
           NEW t \in Tracks, NEW c \in Contents, counts[t][c] > 0,
           NEW new, Overwrites(new, rows, t, c, counts)
    PROVE  HasWhole(new, counts)
<1> DEFINE row == {t} \X (0 .. counts[t][c] - 1)
<1>0. \A s \in Segments : new[s] = IF s \in row THEN c ELSE rows[s]
  BY DEF Overwrites
<1>1. \A u \in Tracks, d \in Contents :
         counts[u][d] \in 0 .. MaxSegments /\ {u} \X (0 .. counts[u][d] - 1) \subseteq Segments
  <2>1. ASSUME NEW u \in Tracks, NEW d \in Contents
        PROVE  counts[u][d] \in 0 .. MaxSegments
    OBVIOUS
  <2>2. ASSUME NEW u \in Tracks, NEW n \in 0 .. MaxSegments
        PROVE  {u} \X (0 .. n - 1) \subseteq Segments
    <3>1. 0 .. n - 1 \subseteq 0 .. MaxSegments - 1
      BY <2>2, IngestionAssumption
    <3> QED
      BY <3>1 DEF Segments
  <2> QED
    BY <2>1, <2>2
<1>2. \A s \in Segments : /\ s[1] \in Tracks /\ s[2] \in Nat
                          /\ new[s] = IF s \in row THEN c ELSE rows[s]
                          /\ s \in row => s[1] = t /\ s[2] < counts[t][c]
  <2>1. counts[t][c] \in Nat
    BY <1>1, IngestionAssumption
  <2> QED
    BY <1>0, <2>1, IngestionAssumption DEF Segments
<1>3. row \subseteq Segments
  BY <1>1
<1>4. ASSUME NEW s \in Segments, new[s] # "missing"
      PROVE  s[2] < counts[s[1]][new[s]]
  <2>1. CASE s \in row
    BY <1>2, <2>1
  <2>2. CASE s \notin row
    BY <1>2, <1>4, <2>2 DEF HasWhole
  <2> QED
    BY <2>1, <2>2
<1>5. ASSUME NEW s \in Segments, new[s] # "missing"
      PROVE  \E d \in Contents :
                counts[s[1]][d] > 0 /\ \A u \in {s[1]} \X (0 .. counts[s[1]][d] - 1) : new[u] = d
  <2>1. CASE s[1] = t
    <3>1. \A u \in row : new[u] = c
      BY <1>2, <1>3
    <3> QED
      BY <2>1, <3>1
  <2>2. CASE s[1] # t
    <3>1. rows[s] # "missing"
      BY <1>2, <1>5, <2>2
    <3>2. PICK d \in Contents :
             counts[s[1]][d] > 0 /\ \A u \in {s[1]} \X (0 .. counts[s[1]][d] - 1) : rows[u] = d
      BY <3>1 DEF HasWhole
    <3>3. ASSUME NEW u \in {s[1]} \X (0 .. counts[s[1]][d] - 1) PROVE new[u] = d
      <4>1. u \in Segments
        BY <1>1, <1>2
      <4>2. u[1] = s[1] /\ u \notin row
        BY <1>2, <2>2, <4>1
      <4> QED
        BY <1>2, <3>2, <4>1, <4>2
    <3> QED
      BY <3>2, <3>3
  <2> QED
    BY <2>1, <2>2
<1> QED
  BY <1>4, <1>5 DEF HasWhole

\* The versions are counted within the bound, and counted the same after every step.
LEMMA CountIsPublished ==
    ASSUME TypeOK, InputsInv
    PROVE  PublishedCount \in [Tracks -> [Contents -> 0 .. MaxSegments]]
BY VerdictIs DEF PublishedCount

\* What the jobs were given stays as it is, and so does what is published of it.
LEMMA CountStays == ASSUME Steady PROVE PublishedCount' = PublishedCount
<1>1. \A t, c : Count(t, c)' = Count(t, c)
  BY SteadyIs
<1> QED
  BY <1>1 DEF PublishedCount

\* What a step of a job does to the rows it knows of.
LEMMA StepOfRows ==
    ASSUME Inv, NEW j \in Jobs, JobStep(j)
    PROVE  /\ manifest' \in {manifest, merged[j]}
           /\ \A k \in Jobs :
                 \/ merged'[k] \in {merged[k], NoRows}
                 \/ /\ pc[j] = "merge"
                    /\ merged'[k] =
                         [s \in Segments |-> IF s \in RowsOf(j) THEN seen[j].content ELSE manifest[s]]
<1>d. DOMAIN merged = Jobs
  BY DEF Inv, TypeOK
<1>e. ASSUME NEW how, Ends(j, how) PROVE \A k \in Jobs : merged'[k] \in {merged[k], NoRows}
  BY <1>d, <1>e DEF Ends
<1>1. CASE Merge(j)
  BY <1>1, <1>d, <1>e DEF Merge, store
<1>2. CASE FinishStore(j)
  BY <1>2, <1>d DEF FinishStore, work
<1>3. CASE PublishTotal(j) \/ FinishWrite(j) \/ BeginWrite(j) \/ BeginStore(j)
  BY <1>3, <1>d, <1>e DEF PublishTotal, FinishWrite, BeginWrite, BeginStore, store, work
<1>4. CASE Start(j) \/ TakeTrack(j) \/ NoMoreTracks(j) \/ Verify(j)
  BY <1>4, <1>d, <1>e DEF Start, TakeTrack, NoMoreTracks, Verify, store, work
<1>5. CASE PublishMetadata(j) \/ PublishSegment(j)
  BY <1>5, <1>d, <1>e DEF PublishMetadata, PublishSegment, store
<1>6. CASE DeliveryFails(j) \/ Stopped(j)
  BY <1>6, <1>d, <1>e DEF DeliveryFails, Stopped, store
<1> QED
  BY <1>1, <1>2, <1>3, <1>4, <1>5, <1>6 DEF JobStep, Step

\* So the rows of a version stay together.
LEMMA StepKeepsWhole ==
    ASSUME Inv, NEW j \in Jobs, JobStep(j)
    PROVE  RowsAreWhole'
<1>1. /\ HasWhole(manifest, PublishedCount)
      /\ \A k \in Jobs : HasWhole(merged[k], PublishedCount)
  BY DEF Inv, RowsAreWhole
<1>2. HasWhole(NoRows, PublishedCount)
  BY DEF HasWhole, NoRows
<1>3. ASSUME pc[j] = "merge"
      PROVE  HasWhole([s \in Segments |-> IF s \in RowsOf(j) THEN seen[j].content ELSE manifest[s]],
                      PublishedCount)
  <2>1. pc[j] \in Working /\ pc[j] \in Cutting
    BY <1>3 DEF Working, Cutting, Stages
  <2>2. /\ track[j] \in Tracks /\ seen[j].status = "validated" /\ seen[j].content \in Contents
        /\ LastIdx(j) = Count(track[j], seen[j].content) - 1
        /\ LastIdx(j) \in 0 .. MaxSegments - 1
    BY <2>1, InHandIs
  <2>3. PublishedCount \in [Tracks -> [Contents -> 0 .. MaxSegments]]
    BY CountIsPublished DEF Inv
  <2>4. PublishedCount[track[j]][seen[j].content] = Count(track[j], seen[j].content)
    BY <2>2 DEF PublishedCount
  <2>5. Count(track[j], seen[j].content) \in 0 .. MaxSegments
    BY <2>2, VerdictIs DEF Inv
  <2>6. PublishedCount[track[j]][seen[j].content] > 0
    BY <2>2, <2>4, <2>5, IngestionAssumption
  <2> DEFINE new == [s \in Segments |-> IF s \in RowsOf(j) THEN seen[j].content ELSE manifest[s]]
  <2>7. RowsOf(j) = {track[j]} \X (0 .. PublishedCount[track[j]][seen[j].content] - 1)
    BY <2>2, <2>4 DEF RowsOf
  <2>8. Overwrites(new, manifest, track[j], seen[j].content, PublishedCount)
    BY <2>7 DEF Overwrites
  <2> HIDE DEF new
  <2>9. HasWhole(new, PublishedCount)
    BY <1>1, <2>2, <2>3, <2>6, <2>8, MergeKeepsWhole
  <2> QED
    BY <2>9 DEF new
<1>4. PublishedCount' = PublishedCount
  BY StepOnlyTouches, CountStays DEF OnlyTouches
<1>5. /\ HasWhole(manifest', PublishedCount)
      /\ \A k \in Jobs : HasWhole(merged'[k], PublishedCount)
  BY <1>1, <1>2, <1>3, StepOfRows
<1> QED
  BY <1>4, <1>5 DEF RowsAreWhole, HasWhole, Segments

\* What a step of a job publishes: at most one event, about the track in hand.
LEMMA StepPublishes ==
    ASSUME Inv, NEW j \in Jobs, JobStep(j)
    PROVE  \/ UNCHANGED <<metadata, announced>>
           \/ /\ pc[j] = "metadata"
              /\ metadata' = [metadata EXCEPT ![track[j]] = seen[j].status]
              /\ UNCHANGED announced
           \/ /\ pc[j] = "segments"
              /\ announced' = [announced EXCEPT ![<<track[j], idx[j]>>] = seen[j].content]
              /\ UNCHANGED metadata
<1>1. CASE PublishMetadata(j)
  BY <1>1 DEF PublishMetadata
<1>2. CASE PublishSegment(j)
  BY <1>2 DEF PublishSegment, Segment
<1>3. CASE DeliveryFails(j)
  BY <1>3 DEF DeliveryFails, topics, Segment
<1>4. CASE PublishTotal(j) \/ FinishWrite(j) \/ FinishStore(j)
  BY <1>4 DEF PublishTotal, FinishWrite, FinishStore, topics
<1>5. CASE Start(j) \/ TakeTrack(j) \/ BeginWrite(j) \/ Merge(j) \/ BeginStore(j)
  BY <1>5 DEF Start, TakeTrack, BeginWrite, Merge, BeginStore, topics
<1>6. CASE Verify(j) \/ NoMoreTracks(j) \/ Stopped(j)
  BY <1>6 DEF Verify, NoMoreTracks, Stopped, topics
<1> QED
  BY <1>1, <1>2, <1>3, <1>4, <1>5, <1>6 DEF JobStep, Step

\* A step of a job publishes nothing but what it was given.
LEMMA StepKeepsPublished ==
    ASSUME Inv, NEW j \in Jobs, JobStep(j)
    PROVE  PublishedIsSelected'
<1>1. \A k \in Jobs : Selected(k)' = Selected(k)
  BY StepOnlyTouches, SteadyIs DEF OnlyTouches
<1>2. DOMAIN metadata = Tracks
  BY DEF Inv, TypeOK
<1>3. \A t \in Tracks : metadata[t] # "none" => \E k \in Jobs : t \in Selected(k)
  BY DEF Inv, PublishedIsSelected
<1>4. CASE UNCHANGED metadata
  BY <1>1, <1>3, <1>4 DEF PublishedIsSelected
<1>5. CASE /\ pc[j] = "metadata"
           /\ metadata' = [metadata EXCEPT ![track[j]] = seen[j].status]
  <2>1. track[j] \in Selected(j)
    BY <1>5, InHandIs DEF Working, Stages
  <2>2. \A t \in Tracks : metadata'[t] = metadata[t] \/ t = track[j]
    BY <1>2, <1>5
  <2> QED
    BY <1>1, <1>3, <2>1, <2>2 DEF PublishedIsSelected
<1> QED
  BY <1>4, <1>5, StepPublishes

\* A run is given inputs within the bounds; nothing has begun.
LEMMA InitInv == Init => Inv
<1> SUFFICES ASSUME Init PROVE Inv
  OBVIOUS
<1>1. PICK input \in Inputs :
         /\ allowed = input.allowed /\ catalogue = input.catalogue
         /\ files = input.files /\ audio = input.audio
  BY DEF Init
<1>2. /\ allowed \in [Jobs -> SUBSET Tracks]
      /\ files \in [Tracks -> [Contents -> AudioFiles]] /\ audio \in [Tracks -> Contents]
  BY <1>1, InputsAssumption
<1>3. InputsInv
  BY <1>1, InputsAssumption, AllowlistsAssumption DEF InputsInv
<1>4. WorkTypes
  <2>1. Unseen \in Verdicts /\ "down" \in Stages /\ NoRows \in [Segments -> Contents \cup {"missing"}]
    BY DEF Unseen, Verdicts, Statuses, Stages, NoRows
  <2>2. NoTotals \in Totals
    BY DEF NoTotals, Totals
  <2>3. 0 \in 0 .. MaxSegments /\ 0 \in 0 .. Len(TotalNames)
    BY IngestionAssumption, TotalNamesAre
  <2> QED
    BY <2>1, <2>2, <2>3 DEF Init, WorkTypes
<1>5. RunTypes
  <2>1. NoTotals \in Totals
    BY DEF NoTotals, Totals
  <2>2. NoRows \in [Segments -> Contents \cup {"missing"}]
    BY DEF NoRows
  <2> QED
    BY <1>2, <2>1, <2>2 DEF Init, RunTypes
<1>6. PublishedIsSelected
  BY DEF Init, PublishedIsSelected
<1>7. RowsAreWhole
  <2>1. HasWhole(NoRows, PublishedCount)
    BY DEF HasWhole, NoRows
  <2> QED
    BY <2>1 DEF Init, RowsAreWhole
<1>8. ASSUME NEW j \in Jobs PROVE JobInv(j)
  <2>1. "down" \notin Working
    BY DEF Working
  <2> QED
    BY <1>8, <2>1
       DEF Init, JobInv, Begun, InHand, Filled, Rows, Announced, Counting
<1> QED
  BY <1>3, <1>4, <1>5, <1>6, <1>7, <1>8, TypesAre DEF Inv

\* The inputs stay within the bounds while they stay as they are.
LEMMA SteadyInputs == ASSUME InputsInv, Steady PROVE InputsInv'
BY DEF InputsInv, Steady, config

\* The invariant is inductive: under a step of one job it holds of that job and of the others.
LEMMA NextInv == Inv /\ [Next]_vars => Inv'
<1> SUFFICES ASSUME Inv, [Next]_vars PROVE Inv'
  OBVIOUS
<1>t. WorkTypes /\ RunTypes /\ TypeOK /\ InputsInv /\ \A j \in Jobs : JobInv(j)
  BY TypesAre DEF Inv
<1>1. ASSUME NEW k \in Jobs, JobStep(k) PROVE Inv'
  <2>1. OnlyTouches(k) /\ Steady
    BY <1>1, StepOnlyTouches DEF OnlyTouches
  <2>2. TypeOK'
    BY <1>1, JobStepTypes, TypesAre DEF TypeOK, WorkTypes, RunTypes
  <2>3. ASSUME NEW j \in Jobs PROVE JobInv(j)'
    <3>1. CASE j = k
      BY <1>1, <3>1, JobStepKeeps
    <3>2. CASE j # k
      BY <1>t, <2>1, <3>2, OthersUndisturbed, Frame
    <3> QED
      BY <3>1, <3>2
  <2>4. InputsInv' /\ PublishedIsSelected' /\ RowsAreWhole'
    BY <1>1, <1>t, <2>1, StepKeepsPublished, StepKeepsWhole, SteadyInputs
  <2> QED
    BY <2>2, <2>3, <2>4 DEF Inv
<1>2. ASSUME Steady, TypeOK', UNCHANGED <<metadata, manifest, merged>>,
             \A j \in Jobs : Undisturbed(j)
      PROVE  Inv'
  <2>1. \A j \in Jobs : JobInv(j)'
    BY <1>t, <1>2, Frame
  <2>2. \A k \in Jobs : Selected(k)' = Selected(k)
    BY <1>2, SteadyIs
  <2>3. PublishedIsSelected'
    BY <1>2, <2>2 DEF Inv, PublishedIsSelected
  <2>4. RowsAreWhole'
    <3>1. PublishedCount' = PublishedCount
      BY <1>2, CountStays
    <3> QED
      BY <1>2, <3>1 DEF Inv, RowsAreWhole, HasWhole, Segments
  <2> QED
    BY <1>t, <1>2, <2>1, <2>3, <2>4, SteadyInputs DEF Inv
<1>3. ASSUME NEW t \in Tracks, ReplaceAudio(t) PROVE Inv'
  <2>1. PICK c \in Contents : audio' = [audio EXCEPT ![t] = c]
    BY <1>3 DEF ReplaceAudio
  <2>2. /\ UNCHANGED <<config, store, topics, pc, work, outcome>>
        /\ struck' = [struck EXCEPT !["rewrite"] = @ + 1]
    BY <1>3 DEF ReplaceAudio, Strikes
  <2>3. audio' \in [Tracks -> Contents]
    BY <1>t, <2>1 DEF RunTypes
  <2>4. struck' \in [Disruptions -> Nat] /\ struck'["rewrite"] # 0
    BY <1>t, <2>2 DEF RunTypes, Disruptions
  <2>5. Steady /\ \A j \in Jobs : Undisturbed(j)
    BY <2>2, <2>4 DEF Steady, Undisturbed, store, topics, work
  <2>6. TypeOK'
    BY <1>t, <2>2, <2>3, <2>4 DEF TypeOK, config, store, topics, work
  <2> QED
    BY <1>2, <2>2, <2>5, <2>6 DEF store, topics, work
<1>4. CASE UNCHANGED vars
  <2>1. Steady /\ \A j \in Jobs : Undisturbed(j)
    BY <1>4 DEF vars, Steady, Undisturbed, config, store, topics, work
  <2>2. TypeOK'
    BY <1>4, <1>t DEF vars, TypeOK, config, store, topics, work
  <2> QED
    BY <1>2, <1>4, <2>1, <2>2 DEF vars, store, topics, work
<1> QED
  BY <1>1, <1>3, <1>4 DEF Next, JobStep

(***************************************************************************)
(* The inductive invariant: what each job knows of the track in hand       *)
(* agrees with the store and the topics, and its counts with the tracks it *)
(* has announced, over every interleaving of jobs, failures of each call,  *)
(* kills between any two of them and replaced files.                       *)
(***************************************************************************)
THEOREM Invariance == Spec => []Inv
BY InitInv, NextInv, PTL DEF Spec

-----------------------------------------------------------------------------
(***************************************************************************)
(* The types of the service's state, the status of every published track   *)
(* among them: no audio file makes a job publish a status, or cut a        *)
(* segment, that is not one of those it may (ValidationResult,             *)
(* segment_audio).                                                         *)
(***************************************************************************)
THEOREM TypeCorrect == Spec => []TypeOK
<1>1. Inv => TypeOK
  BY DEF Inv
<1> QED
  BY <1>1, Invariance, PTL

(***************************************************************************)
(* The segments tile the track, whatever the window, the hop, the          *)
(* threshold and the audio: what a job has validated has a length, and     *)
(* every length is tiled (segment_audio).                                  *)
(***************************************************************************)
THEOREM AudioIsTiled == Spec => []SegmentsTileTheTrack
<1>1. Inv => SegmentsTileTheTrack
  <2> SUFFICES ASSUME Inv PROVE SegmentsTileTheTrack
    OBVIOUS
  <2>1. ASSUME NEW j \in Jobs PROVE Tiled(seen[j].length)
    <3>1. seen[j].length \in Nat
      BY DEF Inv, TypeOK, Verdicts
    <3> QED
      BY <3>1, EveryLengthIsTiled
  <2> QED
    BY <2>1, NoneUntiled DEF SegmentsTileTheTrack
<1> QED
  BY <1>1, Invariance, PTL

(***************************************************************************)
(* A claim-check URI names one object, whatever runs, tracks, segments,    *)
(* schemes and buckets there are (parse_artifact_uri,                      *)
(* validate_segment_artifact_uri, build_claim_check_store_for_uri).        *)
(***************************************************************************)
THEOREM UrisAreSound == Spec => []UrisNameOneObject
<1>1. UrisNameOneObject
  BY NoneMisnamed, NoneUnreadable DEF UrisNameOneObject
<1> QED
  BY <1>1, PTL

\* A job that is done has announced every track it selected.
LEMMA DoneIsHandled ==
    ASSUME Inv, NEW j \in Jobs, outcome[j] = "done"
    PROVE  Handled(j) = Selected(j) /\ \A t \in Selected(j) : Delivered(t)
<1>1. Begun(j) /\ Announced(j)
  BY DEF Inv, JobInv
<1>2. pc[j] = "down" /\ todo[j] = {} /\ "down" \notin Working
  BY <1>1 DEF Begun, Working
<1>3. Handled(j) = Selected(j)
  BY <1>2 DEF Handled, Pending
<1> QED
  BY <1>1, <1>3 DEF Announced

(***************************************************************************)
(* A job that ends normally has announced every track it was given as some *)
(* version of it was found, the one that is there unless it was replaced,  *)
(* and every segment of a valid one with what its artifact holds, however  *)
(* many executions failed before, of longer and shorter versions           *)
(* (IngestionPipeline.run, process_record): DoneMeansAnnounced for any     *)
(* number of jobs, tracks, versions and segments.                          *)
(***************************************************************************)
THEOREM EveryTrackAnnounced == Spec => []DoneMeansAnnounced
<1>1. ASSUME Inv PROVE DoneMeansAnnounced
  <2> SUFFICES ASSUME NEW j \in Jobs, outcome[j] = "done", NEW t \in Selected(j)
               PROVE  \E c \in Contents :
                         /\ struck["rewrite"] = 0 => c = audio[t]
                         /\ metadata[t] = Verdict(t, c).status
                         /\ \A i \in 0 .. Count(t, c) - 1 :
                               /\ announced[<<t, i>>] = c
                               /\ artifact[<<t, i>>] = c
                               /\ Shared \/ manifest[<<t, i>>] = c
    BY DEF DoneMeansAnnounced
  <2>1. Delivered(t)
    BY <1>1, DoneIsHandled
  <2> QED
    BY <2>1 DEF Delivered, DeliveredAs, Current
<1> QED
  BY <1>1, Invariance, PTL

(***************************************************************************)
(* The run totals published by the only job of a run count each announced  *)
(* track once, and each segment of the version of it that was announced    *)
(* last, whatever executions went before and however many segments of      *)
(* older versions they announced (IngestionRunMetrics.as_payloads):        *)
(* TotalsCountTheRun.                                                      *)
(***************************************************************************)
THEOREM TotalsAreOfTheRun == Spec => []TotalsCountTheRun
<1>1. ASSUME Inv, NEW j \in Jobs, outcome[j] = "done", ~Shared
      PROVE  total = [tracks_total |-> Cardinality({t \in Tracks : metadata[t] # "none"}),
                      segments_total |-> Cardinality({s \in Segments :
                          metadata[s[1]] = "validated" /\ s[2] < Count(s[1], Latest(s[1]))}),
                      validation_failures |->
                          Cardinality({t \in Tracks : metadata[t] \notin {"none", "validated"}})]
  <2>1. allowed[j] # {} /\ total = TotalsOf(Selected(j))
    BY <1>1 DEF Inv, JobInv, Begun, Counting
  <2>2. Selected(j) \subseteq Tracks /\ \A t \in Selected(j) : Delivered(t)
    BY <1>1, SelectedIs, DoneIsHandled DEF Inv
  <2>3. \A t \in Tracks : metadata[t] # "none" => t \in Selected(j)
    <3>1. ASSUME NEW t \in Tracks, NEW k \in Jobs, t \in Selected(k) PROVE t \in Selected(j)
      <4>1. allowed[k] # {}
        BY <1>1, <3>1, SelectedIs DEF Inv
      <4> QED
        BY <1>1, <2>1, <3>1, <4>1, SoleJob
    <3> QED
      BY <1>1, <3>1 DEF Inv, PublishedIsSelected
  <2>4. \A t \in Selected(j) : metadata[t] \in Statuses
    <3>1. ASSUME NEW t \in Selected(j) PROVE metadata[t] \in Statuses
      <4>1. PICK c \in Contents : metadata[t] = Verdict(t, c).status
        BY <2>2 DEF Delivered, DeliveredAs
      <4>2. Verdict(t, c) \in Verdicts
        BY <1>1, <2>2, VerdictIs DEF Inv
      <4> QED
        BY <4>1, <4>2 DEF Verdicts
    <3> QED
      BY <3>1
  <2>5. {t \in Tracks : metadata[t] # "none"} = Selected(j)
    BY <2>2, <2>3, <2>4 DEF Statuses
  <2>6. {t \in Tracks : metadata[t] \notin {"none", "validated"}} = FailuresWith(Selected(j), metadata)
    BY <2>2, <2>3, <2>4 DEF Statuses, FailuresWith
  <2>7. {s \in Segments : metadata[s[1]] = "validated" /\ s[2] < Count(s[1], Latest(s[1]))}
          = SegmentsWith(Selected(j), AnnouncedCounts)
    <3>1. \A s \in Segments : s[1] \in Tracks /\ s[2] \in Nat
      BY DEF Segments
    <3>2. ASSUME NEW s \in Segments
          PROVE  s[1] \in Selected(j) /\ s[2] < AnnouncedCounts[s[1]]
                   <=> metadata[s[1]] = "validated" /\ s[2] < Count(s[1], Latest(s[1]))
      <4>1. CASE metadata[s[1]] = "validated"
        BY <2>3, <3>1, <4>1 DEF AnnouncedCounts
      <4>2. CASE metadata[s[1]] # "validated"
        BY <3>1, <4>2 DEF AnnouncedCounts
      <4> QED
        BY <4>1, <4>2
    <3> QED
      BY <3>2 DEF SegmentsWith
  <2> QED
    BY <2>1, <2>5, <2>6, <2>7 DEF TotalsOf, TotalsWith
<1>2. Inv => TotalsCountTheRun
  BY <1>1 DEF TotalsCountTheRun
<1> QED
  BY <1>2, Invariance, PTL

-----------------------------------------------------------------------------
\* The duration that is announced is a positive number, or none that is finite.
LEMMA DurationIs ==
    ASSUME Inv, NEW j \in Jobs, pc[j] \in Working
    PROVE  /\ Duration(j).is \in {"float", "nan"} /\ ~Below("one", Duration(j))
           /\ Duration(j).is # "nan" <=>
                 seen[j].length > 0 \/ catalogue[track[j]].duration.is # "nan"
<1>1. track[j] \in Selected(j) /\ track[j] \in Tracks /\ pc[j] # "down"
  BY InHandIs DEF Working
<1>2. /\ catalogue[track[j]].duration.is \in {"float", "nan"}
      /\ ~Below("one", catalogue[track[j]].duration)
  BY <1>1 DEF Inv, InputsInv, JobInv, Begun, LoadableCatalogue
<1>3. CASE seen[j].length > 0
  <2>1. Duration(j) = Val("float", "1")
    BY <1>3 DEF Duration
  <2>2. Val("float", "1").is = "float" /\ ~Below("one", Val("float", "1"))
    BY DEF Val, Below
  <2> QED
    BY <1>3, <2>1, <2>2
<1>4. CASE ~(seen[j].length > 0)
  <2>1. Duration(j) = catalogue[track[j]].duration
    BY <1>4 DEF Duration
  <2> QED
    BY <1>2, <1>4, <2>1
<1> QED
  BY <1>3, <1>4

\* The examples the fields are filled with.
LEMMA PlainIs ==
    /\ Plain("run_id") = Val("string", "run1")
    /\ Plain("subset") = Val("string", "small")
    /\ Plain("artist_id") = Val("integer", "1")
    /\ \A f \in {"genre", "source_audio_uri", "manifest_uri", "checksum"} :
          Plain(f) = Val("string", "text")
    /\ RunIdIsValid("run1")
<1>1. Plain("run_id") = Val("string", "run1")
  BY DEF Plain, StringFields, FlagFields
<1>2. Plain("subset") = Val("string", "small")
  BY DEF Plain, StringFields, FlagFields
<1>3. Plain("artist_id") = Val("integer", "1")
  BY DEF Plain, StringFields, FlagFields
<1>4. ASSUME NEW f \in {"genre", "source_audio_uri", "manifest_uri", "checksum"}
      PROVE  Plain(f) = Val("string", "text")
  BY DEF Plain, StringFields, FlagFields
<1>5. RunIdIsValid("run1")
  BY <1>1, PlainRunAssumption DEF Val
<1> QED
  BY <1>1, <1>2, <1>3, <1>4, <1>5

\* Every field of the metadata of a track has a value its consumers accept, except that
\* its duration may not be finite.
LEMMA MetadataFields ==
    ASSUME Inv, NEW j \in Jobs, pc[j] \in Working
    PROVE  LET payload == MetadataPayload(j)
               fields == Required("audio.metadata") \cup Optional("audio.metadata")
           IN  /\ DOMAIN payload = fields
               /\ \A f \in Required("audio.metadata") \cup {"subset"} : payload[f].is # "null"
               /\ \A f \in fields \ {"duration_s"} :
                     payload[f].is # "null" => Accepts(f, payload[f])
               /\ Accepts("duration_s", payload["duration_s"]) <=> Duration(j).is # "nan"
               /\ payload["run_id"].text = "run1"
               /\ payload["subset"].text = "small"
<1> DEFINE payload == MetadataPayload(j)
<1>f. /\ Required("audio.metadata") = {"run_id", "track_id", "artist_id", "genre",
                                       "source_audio_uri", "validation_status", "duration_s"}
      /\ Optional("audio.metadata") = {"subset", "manifest_uri", "checksum"}
  BY DEF Required, Optional
<1>0. DOMAIN payload = Required("audio.metadata") \cup Optional("audio.metadata")
  BY DEF MetadataPayload
<1>m. ASSUME NEW f \in {"run_id", "artist_id", "genre", "source_audio_uri", "subset"}
      PROVE  payload[f] = Plain(f)
  BY <1>f DEF MetadataPayload
<1>n. ASSUME NEW f \in {"manifest_uri", "checksum"}
      PROVE  payload[f] \in {Val("null", "null"), Plain(f)}
  BY <1>f DEF MetadataPayload
<1>1. payload["run_id"] = Val("string", "run1") /\ payload["subset"] = Val("string", "small")
  BY <1>m, PlainIs
<1>2. /\ payload["track_id"] = Val("integer", ToString(track[j]))
      /\ payload["artist_id"] = Val("integer", "1")
  BY <1>f, <1>m, PlainIs DEF MetadataPayload
<1>3. payload["genre"] = Val("string", "text") /\ payload["source_audio_uri"] = Val("string", "text")
  BY <1>m, PlainIs
<1>4. payload["validation_status"].is = "string" /\ payload["validation_status"].text # ""
  <2>1. seen[j].status # ""
    BY DEF Inv, TypeOK, Verdicts, Statuses
  <2>2. payload["validation_status"] = Val("string", seen[j].status)
    BY <1>f DEF MetadataPayload
  <2>3. ASSUME NEW text PROVE Val("string", text).is = "string" /\ Val("string", text).text = text
    BY DEF Val
  <2> HIDE DEF payload
  <2> QED
    BY <2>1, <2>2, <2>3
<1>5. payload["duration_s"] = Duration(j)
  BY <1>f DEF MetadataPayload
<1>6. \A f \in {"manifest_uri", "checksum"} :
         payload[f] \in {Val("null", "null"), Val("string", "text")}
  BY <1>n, PlainIs
<1> HIDE DEF payload
<1>7. ASSUME NEW f \in {"run_id", "genre", "source_audio_uri", "validation_status", "subset"}
      PROVE  payload[f].is # "null" /\ Accepts(f, payload[f])
  <2>1. payload[f].is = "string" /\ payload[f].text # ""
    <3>1. /\ payload["run_id"].is = "string" /\ payload["run_id"].text = "run1"
          /\ payload["subset"].is = "string" /\ payload["subset"].text = "small"
      BY <1>1 DEF Val
    <3>2. /\ payload["genre"].is = "string" /\ payload["genre"].text = "text"
          /\ payload["source_audio_uri"].is = "string" /\ payload["source_audio_uri"].text = "text"
      BY <1>3 DEF Val
    <3>3. payload["validation_status"].is = "string" /\ payload["validation_status"].text # ""
      BY <1>4
    <3> QED
      BY <3>1, <3>2, <3>3
  <2>2. f \in StringFields
    BY DEF StringFields
  <2> QED
    BY <2>1, <2>2 DEF Accepts, IsString
<1>8. ASSUME NEW f \in {"track_id", "artist_id"}
      PROVE  payload[f].is # "null" /\ Accepts(f, payload[f])
  BY <1>2 DEF Accepts, IntegerFields, IsInteger, Val
<1>9. /\ payload["duration_s"].is # "null"
      /\ Accepts("duration_s", payload["duration_s"]) <=> Duration(j).is # "nan"
  <2>1. Duration(j).is \in {"float", "nan"} /\ ~Below("one", Duration(j))
    BY DurationIs
  <2>2. ASSUME NEW v PROVE Accepts("duration_s", v) <=> IsNumber(v) /\ ~Below("one", v)
    BY DEF Accepts, StringFields, IntegerFields, CountFields, FlagFields
  <2> QED
    BY <1>5, <2>1, <2>2 DEF IsNumber
<1>10. ASSUME NEW f \in {"manifest_uri", "checksum"}, payload[f].is # "null"
       PROVE  Accepts(f, payload[f])
  <2>1. payload[f].is = "string" /\ payload[f].text # ""
    <3>1. payload[f] = Val("string", "text")
      BY <1>6, <1>10 DEF Val
    <3> QED
      BY <3>1 DEF Val
  <2>2. f \in StringFields
    BY DEF StringFields
  <2> QED
    BY <2>1, <2>2 DEF Accepts, IsString
<1> QED
  BY <1>f, <1>0, <1>1, <1>7, <1>8, <1>9, <1>10 DEF payload, Val

\* So build_envelope accepts it exactly when the duration is finite.
LEMMA BuildableIs ==
    ASSUME Inv, NEW j \in Jobs, pc[j] \in Working
    PROVE  MetadataIsBuildable(j) <=> Duration(j).is # "nan"
<1> DEFINE payload == MetadataPayload(j)
           json == Sent(payload)
<1>f. /\ Required("audio.metadata") = {"run_id", "track_id", "artist_id", "genre",
                                       "source_audio_uri", "validation_status", "duration_s"}
      /\ Optional("audio.metadata") = {"subset", "manifest_uri", "checksum"}
  BY DEF Required, Optional
<1>1. /\ DOMAIN payload = Required("audio.metadata") \cup Optional("audio.metadata")
      /\ \A f \in Required("audio.metadata") \cup {"subset"} : payload[f].is # "null"
      /\ \A f \in DOMAIN payload \ {"duration_s"} :
             payload[f].is # "null" => Accepts(f, payload[f])
      /\ Accepts("duration_s", payload["duration_s"]) <=> Duration(j).is # "nan"
      /\ payload["run_id"].text = "run1"
      /\ payload["subset"].text = "small"
  BY MetadataFields
<1> HIDE DEF payload
<1>2. /\ DOMAIN json = {f \in DOMAIN payload : payload[f].is # "null"}
      /\ \A f \in DOMAIN json : json[f] = payload[f]
  BY DEF Sent, Restrict
<1> HIDE DEF json
<1>3. ASSUME Duration(j).is # "nan" PROVE ValidPayload("audio.metadata", json)
  <2>1. \A f \in DOMAIN json : Accepts(f, json[f])
    BY <1>1, <1>2, <1>3
  <2> QED
    BY <1>f, <1>1, <1>2, <2>1, PlainIs DEF ValidPayload
<1>4. SourceMatchesPayload("audio.metadata", "ingestion", json)
  BY DEF SourceMatchesPayload
<1>5. "run_id" \in DOMAIN json
  BY <1>f, <1>1, <1>2
<1>6. ASSUME Duration(j).is = "nan" PROVE ~ValidPayload("audio.metadata", json)
  <2>1. "duration_s" \in DOMAIN json /\ ~Accepts("duration_s", json["duration_s"])
    BY <1>f, <1>1, <1>2, <1>6
  <2> QED
    BY <2>1 DEF ValidPayload
<1> QED
  BY <1>3, <1>4, <1>5, <1>6 DEF MetadataIsBuildable, Buildable, payload, json

(***************************************************************************)
(* _build_metadata_payload and build_envelope refuse the metadata of a     *)
(* track in hand only when its file is missing, empty or cannot be probed  *)
(* and its row of the catalogue has a duration that is not finite, which   *)
(* the loader lets through: RejectsAreAnnounceable, whatever the file and  *)
(* the row are.                                                            *)
(***************************************************************************)
THEOREM RejectsAnnounceable == Spec => []RejectsAreAnnounceable
<1>1. Inv => RejectsAreAnnounceable
  BY BuildableIs, DurationIs DEF RejectsAreAnnounceable, Working, Stages
<1> QED
  BY <1>1, Invariance, PTL

(***************************************************************************)
(* What build_envelope accepts, validate_envelope_dict accepts too: every  *)
(* metadata event of every track, and every other event of the examples.   *)
(***************************************************************************)
THEOREM BuiltValidates == Spec => []BuiltEnvelopesValidate
<1>1. ASSUME NEW payload, Buildable("audio.metadata", "ingestion", payload, <<>>)
      PROVE  ValidEnvelope("audio.metadata",
                           Envelope("audio.metadata", "ingestion", payload, <<>>))
  BY <1>1, BuiltIsValid DEF EventTypes, SourcesOf
<1>2. BuiltEnvelopesValidate
  BY <1>1, AllConsumed DEF BuiltEnvelopesValidate, MetadataIsBuildable
<1> QED
  BY <1>2, PTL

(***************************************************************************)
(* Two metadata events have one idempotency key exactly when they replace  *)
(* one row of track_metadata, whatever the jobs found of their tracks; and *)
(* so have any two events that replace rows.                               *)
(***************************************************************************)
THEOREM KeysNameRowsReplaced == Spec => []KeysNameTheRowsReplaced
<1>1. ASSUME NEW j \in Jobs
      PROVE  /\ MetadataPayload(j)["track_id"] = Val("integer", ToString(track[j]))
             /\ MetadataPayload(j)["run_id"] = Plain("run_id")
  BY DEF MetadataPayload, Required, Optional
<1>2. ASSUME NEW j \in Jobs
      PROVE  IdempotencyKey("audio.metadata", MetadataPayload(j))
               = <<"audio.metadata", Plain("run_id").text, ToString(track[j])>>
  <2> DEFINE payload == MetadataPayload(j)
  <2>1. /\ payload["track_id"] = Val("integer", ToString(track[j]))
        /\ payload["run_id"] = Plain("run_id")
    BY <1>1
  <2> HIDE DEF payload
  <2>2. payload["track_id"].text = ToString(track[j]) /\ RunIdOf(payload) = Plain("run_id").text
    BY <2>1 DEF Val, RunIdOf
  <2>3. IdempotencyKey("audio.metadata", payload)
          = <<"audio.metadata", RunIdOf(payload), payload["track_id"].text>>
    BY DEF IdempotencyKey
  <2> QED
    BY <2>2, <2>3 DEF payload
<1>3. ASSUME Inv, NEW j \in Jobs, pc[j] = "metadata" PROVE track[j] \in Tracks
  BY <1>3, InHandIs, SelectedIs DEF Working, Stages, Inv
<1>4. Inv => KeysNameTheRowsReplaced
  <2> SUFFICES ASSUME Inv PROVE KeysNameTheRowsReplaced
    OBVIOUS
  <2>1. ASSUME NEW j \in Jobs, NEW k \in Jobs, pc[j] = "metadata", pc[k] = "metadata"
        PROVE  (IdempotencyKey("audio.metadata", MetadataPayload(j))
                  = IdempotencyKey("audio.metadata", MetadataPayload(k)))
               = (track[j] = track[k])
    <3>1. ToString(track[j]) = ToString(track[k]) => track[j] = track[k]
      BY <1>3, <2>1, DecimalAssumption
    <3> QED
      BY <1>2, <3>1
  <2> QED
    BY <2>1, NoneConfused DEF KeysNameTheRowsReplaced
<1> QED
  BY <1>4, Invariance, PTL

-----------------------------------------------------------------------------
\* What the readers of a run see of its tracks.
PublishedMetadata == [t \in Tracks |-> IF metadata[t] \in {"none", "validated"}
                                       THEN metadata[t] ELSE "rejected"]
PublishedInputs == UNCHANGED <<Shared, PublishedCount>>

\* The inputs of the abstract run stay as they are.
LEMMA InputsPublished == ASSUME Steady PROVE PublishedInputs
BY SteadyIs, CountStays DEF PublishedInputs

\* Nothing that readers see has happened.
LEMMA StepUnseen ==
    ASSUME PublishedInputs, UNCHANGED <<store, metadata, announced>>
    PROVE  UNCHANGED <<Published!run, Published!inputs>>
BY DEF PublishedInputs, PublishedCount, store, Published!inputs, Published!run

\* The version a job has in hand is one of those the abstract run knows.
LEMMA VersionInHand ==
    ASSUME Inv, NEW j \in Jobs, pc[j] \in Working, seen[j].status = "validated"
    PROVE  /\ track[j] \in Tracks /\ seen[j].content \in Contents
           /\ PublishedCount[track[j]][seen[j].content] > 0
           /\ Published!SegmentsOf(track[j], seen[j].content) = RowsOf(j)
           /\ RowsOf(j) \subseteq Segments
           /\ LastIdx(j) \in 0 .. MaxSegments - 1
<1>1. /\ track[j] \in Tracks /\ seen[j].content \in Contents
      /\ LastIdx(j) = Count(track[j], seen[j].content) - 1
      /\ LastIdx(j) \in 0 .. MaxSegments - 1
      /\ RowsOf(j) \subseteq Segments
  BY InHandIs
<1>2. PublishedCount[track[j]][seen[j].content] = Count(track[j], seen[j].content)
  BY <1>1 DEF PublishedCount
<1>3. Count(track[j], seen[j].content) \in 0 .. MaxSegments
  BY <1>1, VerdictIs DEF Inv
<1>4. PublishedCount[track[j]][seen[j].content] > 0
  BY <1>1, <1>2, <1>3, IngestionAssumption
<1>5. Published!SegmentsOf(track[j], seen[j].content)
        = {track[j]} \X (0 .. PublishedCount[track[j]][seen[j].content] - 1)
  BY DEF Published!SegmentsOf, PublishedCount
<1> QED
  BY <1>1, <1>2, <1>4, <1>5 DEF RowsOf

\* An artifact is torn or filled.
LEMMA WriteImplements ==
    ASSUME Inv, PublishedInputs, NEW j \in Jobs, pc[j] \in {"write", "writing"},
           NEW content \in {seen[j].content, "torn"},
           artifact' = [artifact EXCEPT ![Segment(j)] = content],
           UNCHANGED <<file, manifest, metadata, announced>>
    PROVE  Published!Publish
<1>1. pc[j] \in Working /\ pc[j] \in Cutting
  BY DEF Working, Cutting, Stages
<1>2. /\ Segment(j) = <<track[j], idx[j]>> /\ Segment(j) \in Segments
      /\ idx[j] \in 0 .. LastIdx(j) /\ seen[j].status = "validated"
  BY <1>1, InHandIs
<1>3. /\ seen[j].content \in Contents
      /\ Published!SegmentsOf(track[j], seen[j].content) = RowsOf(j)
  BY <1>1, <1>2, VersionInHand
<1>4. Segment(j)[1] = track[j] /\ Segment(j) \in RowsOf(j)
  BY <1>2 DEF RowsOf
<1>5. Published!WriteArtifact(Segment(j))
  <2>1. Segment(j) \in Published!SegmentsOf(Segment(j)[1], seen[j].content)
    BY <1>3, <1>4
  <2>2. \E c \in {c \in Contents : Segment(j) \in Published!SegmentsOf(Segment(j)[1], c)} :
           \E x \in {c, "torn"} : artifact' = [artifact EXCEPT ![Segment(j)] = x]
    BY <1>3, <2>1
  <2> QED
    BY <2>2 DEF Published!WriteArtifact, Published!inputs, PublishedInputs, PublishedCount
<1> QED
  BY <1>2, <1>5 DEF Published!Publish, Published!Segments, Segments

\* The segments of the version that a job has filled are stored.
LEMMA FilledIsStored ==
    ASSUME Inv, NEW j \in Jobs, pc[j] \in Working \ {"write", "writing"},
           seen[j].status = "validated"
    PROVE  Published!Stored(track[j], seen[j].content)
<1>1. \A i \in 0 .. LastIdx(j) : artifact[<<track[j], i>>] = seen[j].content
  BY DEF Inv, JobInv, Filled
<1>2. /\ Published!SegmentsOf(track[j], seen[j].content) = RowsOf(j)
      /\ PublishedCount[track[j]][seen[j].content] > 0
  BY VersionInHand
<1>3. \A s \in RowsOf(j) : artifact[s] = seen[j].content
  BY <1>1 DEF RowsOf
<1> QED
  BY <1>2, <1>3 DEF Published!Stored, PublishedCount

\* Its rows are listed, too, while the run is the job's own.
LEMMA RowsAreListed ==
    ASSUME Inv, NEW j \in Jobs, pc[j] \in {"verify", "metadata", "segments"},
           seen[j].status = "validated"
    PROVE  Published!Listed(track[j], seen[j].content)
<1>1. pc[j] \in Working
  BY DEF Working, Stages
<1>2. Published!SegmentsOf(track[j], seen[j].content) = RowsOf(j)
  BY <1>1, VersionInHand
<1>3. ~Shared => \A s \in RowsOf(j) : manifest[s] = seen[j].content
  BY DEF Inv, JobInv, Rows
<1> QED
  BY <1>2, <1>3 DEF Published!Listed

\* A manifest that is stored has the rows of the version that is stored.
LEMMA StoreImplements ==
    ASSUME Inv, PublishedInputs, NEW j \in Jobs, FinishStore(j)
    PROVE  Published!Publish
<1>1. /\ pc[j] \in {"store", "storing"} /\ file' = "whole" /\ manifest' = merged[j]
      /\ UNCHANGED <<artifact, metadata, announced>>
  BY DEF FinishStore, topics
<1>2. pc[j] \in Working \ {"write", "writing"} /\ pc[j] \in Cutting
  BY <1>1 DEF Working, Cutting, Stages
<1>3. track[j] \in Tracks /\ seen[j].status = "validated"
  BY <1>2, InHandIs
<1>4. /\ seen[j].content \in Contents /\ RowsOf(j) \subseteq Segments
      /\ Published!SegmentsOf(track[j], seen[j].content) = RowsOf(j)
  BY <1>2, <1>3, VersionInHand
<1>5. Published!Stored(track[j], seen[j].content)
  BY <1>2, <1>3, FilledIsStored
<1>6. merged[j] \in [Segments -> Contents \cup {"missing"}]
  BY DEF Inv, TypeOK
<1>7. /\ \A s \in RowsOf(j) : merged[j][s] = seen[j].content
      /\ ~Shared => \A s \in Segments \ RowsOf(j) : merged[j][s] = manifest[s]
  BY <1>1 DEF Inv, JobInv, Rows
<1>8. /\ merged[j] \in Published!Manifests
      /\ Published!HasWholeTracks(merged[j])
  <2>1. HasWhole(merged[j], PublishedCount)
    BY DEF Inv, RowsAreWhole
  <2> QED
    BY <1>6, <2>1
       DEF HasWhole, PublishedCount, Segments, Published!Manifests, Published!HasWholeTracks,
           Published!Segments, Published!SegmentsOf
<1>9. \/ manifest' = [s \in Published!Segments |->
                         IF s \in Published!SegmentsOf(track[j], seen[j].content)
                         THEN seen[j].content ELSE manifest[s]]
      \/ /\ Shared
         /\ manifest' \in {rows \in Published!Manifests :
                              /\ \A s \in Published!SegmentsOf(track[j], seen[j].content) :
                                    rows[s] = seen[j].content
                              /\ Published!HasWholeTracks(rows)}
  <2>1. CASE Shared
    BY <1>1, <1>4, <1>7, <1>8, <2>1
  <2>2. CASE ~Shared
    <3>1. merged[j] = [s \in Segments |-> merged[j][s]]
      BY <1>6
    <3>2. \A s \in Segments : merged[j][s] = IF s \in RowsOf(j) THEN seen[j].content ELSE manifest[s]
      BY <1>7, <2>2
    <3>3. merged[j] = [s \in Segments |-> IF s \in RowsOf(j) THEN seen[j].content ELSE manifest[s]]
      BY <3>1, <3>2
    <3> QED
      BY <1>1, <1>4, <3>3 DEF Published!Segments, Segments
  <2> QED
    BY <2>1, <2>2
<1>10. Published!StoreRows(track[j])
  BY <1>1, <1>4, <1>5, <1>9
     DEF Published!StoreRows, Published!inputs, PublishedInputs, PublishedCount
<1> QED
  BY <1>3, <1>10 DEF Published!Publish

\* A track, or one of its segments, is announced.
LEMMA AnnounceImplements ==
    ASSUME Inv, PublishedInputs, NEW j \in Jobs, UNCHANGED store,
           \/ /\ pc[j] = "metadata"
              /\ metadata' = [metadata EXCEPT ![track[j]] = seen[j].status]
              /\ UNCHANGED announced
           \/ /\ pc[j] = "segments"
              /\ announced' = [announced EXCEPT ![<<track[j], idx[j]>>] = seen[j].content]
              /\ UNCHANGED metadata
    PROVE  Published!Publish
<1>w. "metadata" \in Working \ {"write", "writing"} /\ "segments" \in Working \ {"write", "writing"}
      /\ "segments" \in Cutting
  BY DEF Working, Cutting, Stages
<1>1. track[j] \in Tracks /\ metadata \in [Tracks -> Statuses \cup {"none"}]
  BY <1>w, InHandIs DEF Inv, TypeOK
<1>2. CASE /\ pc[j] = "metadata"
           /\ metadata' = [metadata EXCEPT ![track[j]] = seen[j].status]
           /\ UNCHANGED announced
  <2>1. seen[j].status \in Statuses
    BY DEF Inv, TypeOK, Verdicts
  <2>2. \A t \in Tracks : metadata'[t] = IF t = track[j] THEN seen[j].status ELSE metadata[t]
    BY <1>1, <1>2
  <2>3. PICK t \in Tracks : t = track[j]
    BY <1>1
  <2>4. CASE seen[j].status = "validated"
    <3>1. PublishedMetadata' = [PublishedMetadata EXCEPT ![t] = "validated"]
      BY <1>1, <2>2, <2>4, <2>3 DEF PublishedMetadata
    <3>2. \E c \in Contents : Published!Stored(t, c) /\ Published!Listed(t, c)
      BY <1>2, <1>w, <2>4, <2>3, VersionInHand, FilledIsStored, RowsAreListed
    <3>3. Published!AnnounceTrack(t)
      BY <1>2, <3>1, <3>2
         DEF Published!AnnounceTrack, Published!inputs, PublishedInputs, PublishedCount,
             PublishedMetadata, store
    <3> QED
      BY <3>3 DEF Published!Publish
  <2>5. CASE seen[j].status # "validated"
    <3>1. PublishedMetadata' = [PublishedMetadata EXCEPT ![t] = "rejected"]
      BY <1>1, <2>1, <2>2, <2>5, <2>3 DEF PublishedMetadata, Statuses
    <3>2. Published!AnnounceTrack(t)
      BY <1>2, <3>1
         DEF Published!AnnounceTrack, Published!inputs, PublishedInputs, PublishedCount,
             PublishedMetadata, store
    <3> QED
      BY <3>2 DEF Published!Publish
  <2> QED
    BY <2>4, <2>5
<1>3. CASE /\ pc[j] = "segments"
           /\ announced' = [announced EXCEPT ![<<track[j], idx[j]>>] = seen[j].content]
           /\ UNCHANGED metadata
  <2>1. /\ seen[j].status = "validated" /\ seen[j].content \in Contents
        /\ idx[j] \in 0 .. LastIdx(j) /\ <<track[j], idx[j]>> \in Segments
    BY <1>3, <1>w, InHandIs
  <2> DEFINE s == <<track[j], idx[j]>>
  <2>2. s[1] = track[j] /\ s \in RowsOf(j) /\ s \in Segments
    BY <2>1 DEF RowsOf
  <2>3. PublishedMetadata[s[1]] = "validated"
    BY <1>1, <1>3, <2>2 DEF Inv, JobInv, Filled, PublishedMetadata
  <2>4. /\ Published!SegmentsOf(s[1], seen[j].content) = RowsOf(j)
        /\ Published!Stored(s[1], seen[j].content)
        /\ Published!Listed(s[1], seen[j].content)
    BY <1>3, <1>w, <2>1, <2>2, VersionInHand, FilledIsStored, RowsAreListed
  <2> HIDE DEF s
  <2>5. \E c \in {c \in Contents : s \in Published!SegmentsOf(s[1], c)} :
           /\ Published!Stored(s[1], c) /\ Published!Listed(s[1], c)
           /\ announced' = [announced EXCEPT ![s] = c]
    BY <1>3, <2>1, <2>2, <2>4 DEF s
  <2>6. Published!AnnounceSegment(s)
    BY <1>3, <2>3, <2>5
       DEF Published!AnnounceSegment, Published!inputs, PublishedInputs, PublishedCount,
           PublishedMetadata, store
  <2> QED
    BY <2>2, <2>6 DEF Published!Publish, Published!Segments, Segments
<1> QED
  BY <1>2, <1>3

-----------------------------------------------------------------------------
\* Every step of a job is one readers may see, or none.
LEMMA JobStepImplements ==
    ASSUME Inv, NEW j \in Jobs, JobStep(j)
    PROVE  [Published!Publish]_<<Published!run, Published!inputs>>
<1>1. PublishedInputs
  BY StepOnlyTouches, InputsPublished DEF OnlyTouches
<1>2. CASE UNCHANGED <<store, metadata, announced>>
  BY <1>1, <1>2, StepUnseen
<1>3. CASE UNCHANGED store /\ ~UNCHANGED <<metadata, announced>>
  BY <1>1, <1>3, StepPublishes, AnnounceImplements
<1>4. CASE BeginWrite(j)
  <2>1. /\ pc[j] = "write" /\ artifact' = [artifact EXCEPT ![Segment(j)] = "torn"]
        /\ UNCHANGED <<file, manifest, metadata, announced>>
    BY <1>4 DEF BeginWrite, topics
  <2> QED
    BY <1>1, <2>1, WriteImplements
<1>5. CASE FinishWrite(j)
  <2>1. /\ pc[j] \in {"write", "writing"}
        /\ artifact' = [artifact EXCEPT ![Segment(j)] = seen[j].content]
        /\ UNCHANGED <<file, manifest, metadata, announced>>
    BY <1>5 DEF FinishWrite, topics
  <2> QED
    BY <1>1, <2>1, WriteImplements
<1>6. CASE BeginStore(j)
  <2>1. file' = "torn" /\ UNCHANGED <<artifact, manifest, metadata, announced>>
    BY <1>6 DEF BeginStore, topics
  <2>2. Published!TruncateManifest
    BY <1>1, <2>1 DEF Published!TruncateManifest, Published!inputs, PublishedInputs, PublishedCount
  <2> QED
    BY <2>2 DEF Published!Publish
<1>7. CASE FinishStore(j)
  BY <1>1, <1>7, StoreImplements
<1>8. CASE Start(j) \/ TakeTrack(j) \/ Merge(j) \/ Verify(j)
  <2>1. UNCHANGED store
    BY <1>8 DEF Start, TakeTrack, Merge, Verify
  <2> QED
    BY <1>2, <1>3, <2>1 DEF store
<1>9. CASE PublishMetadata(j) \/ PublishSegment(j) \/ NoMoreTracks(j) \/ PublishTotal(j)
  <2>1. UNCHANGED store
    BY <1>9 DEF PublishMetadata, PublishSegment, NoMoreTracks, PublishTotal
  <2> QED
    BY <1>2, <1>3, <2>1 DEF store
<1>10. CASE DeliveryFails(j) \/ Stopped(j)
  <2>1. UNCHANGED store
    BY <1>10 DEF DeliveryFails, Stopped
  <2> QED
    BY <1>2, <1>3, <2>1 DEF store
<1> QED
  BY <1>4, <1>5, <1>6, <1>7, <1>8, <1>9, <1>10 DEF JobStep, Step

\* The jobs start where the abstract run does.
LEMMA InitImplements == Init => Published!Init
<1> SUFFICES ASSUME Init PROVE Published!Init
  OBVIOUS
<1>1. Inv
  BY InitInv
<1>2. Shared \in BOOLEAN
  BY DEF Shared
<1>3. PublishedCount \in [Tracks -> [Contents -> 0 .. MaxSegments]]
  BY <1>1, CountIsPublished DEF Inv
<1>4. PublishedMetadata = [t \in Tracks |-> "none"]
  BY DEF Init, PublishedMetadata
<1>5. (file # "torn") = TRUE
  BY DEF Init
<1>6. /\ artifact = [s \in Published!Segments |-> "missing"]
      /\ manifest = [s \in Published!Segments |-> "missing"]
      /\ announced = [s \in Published!Segments |-> "none"]
  BY DEF Init, NoRows, Segments, Published!Segments
<1> QED
  BY <1>2, <1>3, <1>4, <1>5, <1>6 DEF Init, Published!Init, PublishedCount, PublishedMetadata

\* Every step of the service is a step of the abstract run, or leaves it alone.
LEMMA NextImplements == Inv /\ [Next]_vars => [Published!Publish]_<<Published!run, Published!inputs>>
<1> SUFFICES ASSUME Inv, [Next]_vars
             PROVE  [Published!Publish]_<<Published!run, Published!inputs>>
  OBVIOUS
<1>1. ASSUME NEW j \in Jobs, JobStep(j)
      PROVE  [Published!Publish]_<<Published!run, Published!inputs>>
  BY <1>1, JobStepImplements
<1>2. ASSUME NEW t \in Tracks, ReplaceAudio(t)
      PROVE  [Published!Publish]_<<Published!run, Published!inputs>>
  <2>1. struck'["rewrite"] # 0
    BY <1>2 DEF ReplaceAudio, Strikes, Inv, TypeOK, Disruptions
  <2>2. Steady /\ UNCHANGED <<store, metadata, announced>>
    BY <1>2, <2>1 DEF ReplaceAudio, Steady, topics
  <2> QED
    BY <2>2, InputsPublished, StepUnseen
<1>3. CASE UNCHANGED vars
  BY <1>3, InputsPublished, StepUnseen DEF vars, Steady, config, topics
<1> QED
  BY <1>1, <1>2, <1>3 DEF Next, JobStep

(***************************************************************************)
(* The service implements RunPublication: a track is published as          *)
(* validated only when the segments of a version of it are stored, a       *)
(* segment only as what its artifact holds, and a row leaves the manifest, *)
(* or comes back into it, only when jobs share the run                     *)
(* (write_segment_artifacts, verify_manifest_consistency, process_record). *)
(***************************************************************************)
THEOREM Implementation == Spec => RunIsPublished
<1>1. Init => Published!Init
  BY InitImplements
<1>2. Inv /\ [Next]_vars => [Published!Publish]_<<Published!run, Published!inputs>>
  BY NextImplements
<1> QED
  BY <1>1, <1>2, Invariance, PTL DEF Spec, RunIsPublished, Published!Spec

=============================================================================
