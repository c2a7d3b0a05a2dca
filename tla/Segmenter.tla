------------------------------ MODULE Segmenter ------------------------------
(***************************************************************************)
(* How a decoded waveform is cut into segments: full windows every Hop     *)
(* samples, then a padded tail when what is left is longer than TailPad.   *)
(* Lengths and positions are in samples; a model scales them down.         *)
(***************************************************************************)
EXTENDS Naturals, Sequences, FiniteSets, FiniteSetsExt

CONSTANTS
    Window,         \* segment_duration_s in samples
    Hop,            \* segment_duration_s - segment_overlap_s in samples
    TailPad         \* tail_pad_threshold_s in samples

ASSUME SegmenterAssumption ==
    /\ Window \in Nat \ {0}
    /\ Hop \in 1..Window
    /\ TailPad \in Nat

\* The indexes whose window lies within the waveform.
FullWindows(length) == {n \in 0..length : n * Hop + Window <= length}

\* The first sample after the last hop, where a tail would start.
TailStart(length) == Cardinality(FullWindows(length)) * Hop

\* Mutant of HasTail: a tail as long as the threshold is kept.
HasTailInclusive(length) == length >= TailStart(length) + TailPad

\* The tail is kept, and padded to a window, when it is longer than the threshold.
HasTail(length) == length > TailStart(length) + TailPad

SegmentCount(length) ==
    Cardinality(FullWindows(length)) + (IF HasTail(length) THEN 1 ELSE 0)

\* A segment: where it starts, how many samples of it are audio, whether it is the last.
SegmentAudio(length) ==
    [n \in 1..SegmentCount(length) |->
        [segment_idx |-> n - 1,
         start |-> (n - 1) * Hop,
         samples |-> Min({Window, length - (n - 1) * Hop}),
         is_last_segment |-> n = SegmentCount(length)]]

-----------------------------------------------------------------------------
CONSTANT Lengths        \* the lengths a decoded waveform may have

ASSUME LengthsAssumption == Lengths \subseteq Nat

\* Indexes count from zero, what is not covered is a short suffix, a padded segment holds
\* more audio than the threshold, and the one that starts last is flagged.
Tiled(length) ==
    LET segments == SegmentAudio(length)
        covered == UNION {s.start .. s.start + s.samples - 1 :
                             s \in {segments[n] : n \in DOMAIN segments}}
    IN  /\ length > TailPad => segments # <<>>
        /\ covered \subseteq 0 .. length - 1
        /\ \A sample \in (0 .. length - 1) \ covered : sample + TailPad >= length
        /\ \A n \in DOMAIN segments :
              /\ segments[n].segment_idx = n - 1
              /\ segments[n].samples = Window \/ segments[n].samples > TailPad
              /\ segments[n].is_last_segment <=>
                   \A m \in DOMAIN segments : segments[m].start <= segments[n].start

\* The lengths that are not tiled.
Untiled == {length \in Lengths : ~Tiled(length)}
=============================================================================
