--------------------------- MODULE SegmenterProofs ---------------------------
(***************************************************************************)
(* Proofs about Segmenter.tla: the segments of a waveform tile it, for any *)
(* window, any hop that is no longer, any threshold and any length.        *)
(*                                                                         *)
(* The windows that lie within the waveform are an initial segment of the  *)
(* indexes, so their number is the index of the first that does not; and a *)
(* sample belongs to the last segment that starts at or before it, unless  *)
(* it lies after the end of all of them.                                   *)
(***************************************************************************)
EXTENDS Segmenter, FiniteSetTheorems, WellFoundedInduction, TLAPS

\* A set of numbers has a least one.
LEMMA MinIsIn ==
    ASSUME NEW S, S \subseteq Nat, S # {}
    PROVE  Min(S) \in S /\ \A y \in S : Min(S) <= y
<1>1. PICK x \in S : \A y \in S : ~ (<<y, x>> \in OpToRel(<, Nat))
  BY NatLessThanWellFounded, WFMin
<1>2. ASSUME NEW y \in S PROVE x <= y
  <2>1. ~ (<<y, x>> \in OpToRel(<, Nat))
    BY <1>1
  <2>2. x \in Nat /\ y \in Nat
    OBVIOUS
  <2>3. ~ (y < x)
    BY <2>1, <2>2 DEF OpToRel
  <2> QED
    BY <2>2, <2>3
<1> QED
  BY <1>2 DEF Min

\* The lesser of two numbers.
LEMMA MinOfTwo ==
    ASSUME NEW a \in Nat, NEW b \in Nat
    PROVE  Min({a, b}) = IF a <= b THEN a ELSE b
<1>1. Min({a, b}) \in {a, b} /\ Min({a, b}) <= a /\ Min({a, b}) <= b
  BY MinIsIn
<1> QED
  BY <1>1

\* Segments start one hop after the other.
LEMMA HopsGrow ==
    ASSUME NEW a \in Nat, NEW b \in Nat, a <= b
    PROVE  /\ a * Hop \in Nat /\ b * Hop \in Nat
           /\ a * Hop <= b * Hop
           /\ (a + 1) * Hop = a * Hop + Hop
           /\ a < b => a * Hop < b * Hop
           /\ b <= b * Hop
<1>1. Hop \in Nat /\ Hop >= 1
  BY SegmenterAssumption
<1>2. PICK d \in Nat : b = a + d
  <2>1. b - a \in Nat /\ b = a + (b - a)
    OBVIOUS
  <2> QED
    BY <2>1
<1>3. a * Hop \in Nat /\ b * Hop \in Nat /\ d * Hop \in Nat
  BY <1>1
<1>4. b * Hop = a * Hop + d * Hop
  BY <1>1, <1>2
<1>5. d > 0 => d * Hop > 0
  BY <1>1
<1>6. b <= b * Hop
  BY <1>1
<1>7. (a + 1) * Hop = a * Hop + Hop
  BY <1>1
<1> QED
  BY <1>2, <1>3, <1>4, <1>5, <1>6, <1>7

\* The full windows are those before the first that is not.
LEMMA FullWindowsAreFirst ==
    ASSUME NEW length \in Nat
    PROVE  LET full == Cardinality(FullWindows(length)) IN
           /\ full \in Nat
           /\ FullWindows(length) = 0 .. full - 1
           /\ \A n \in 0 .. full - 1 : n * Hop + Window <= length
           /\ full * Hop + Window > length
<1> DEFINE F == FullWindows(length)
           Rest == {n \in Nat : n \notin F}
           m == Min(Rest)
<1>1. Rest \subseteq Nat /\ length + 1 \in Rest
  BY DEF FullWindows
<1>2. m \in Rest /\ \A y \in Rest : m <= y
  BY <1>1, MinIsIn
<1> HIDE DEF m
<1>3. m \in Nat /\ m \notin F /\ \A n \in 0 .. m - 1 : n \in F
  <2>1. m \in Nat /\ m \notin F
    BY <1>2
  <2>2. ASSUME NEW n \in 0 .. m - 1 PROVE n \in F
    <3>1. n \in Nat /\ n < m
      BY <2>1
    <3>2. n \notin F => m <= n
      BY <1>2, <3>1
    <3> QED
      BY <2>1, <3>1, <3>2
  <2> QED
    BY <2>1, <2>2
<1>4. Window \in Nat /\ Window > 0
  BY SegmenterAssumption
<1>5. m * Hop \in Nat /\ m * Hop + Window > length
  <2>1. m * Hop \in Nat /\ m <= m * Hop
    BY <1>3, HopsGrow
  <2>2. CASE m > length
    BY <1>3, <1>4, <2>1, <2>2
  <2>3. CASE m <= length
    <3>1. m \in 0..length
      BY <1>3, <2>3
    <3>2. ~ (m * Hop + Window <= length)
      BY <1>3, <3>1 DEF FullWindows
    <3> QED
      BY <1>4, <2>1, <3>2
  <2> QED
    BY <1>3, <2>2, <2>3
<1>6. \A n \in F : n \in Nat /\ n * Hop \in Nat /\ n * Hop + Window <= length
  <2> SUFFICES ASSUME NEW n \in F
               PROVE  n \in Nat /\ n * Hop \in Nat /\ n * Hop + Window <= length
    OBVIOUS
  <2>1. n \in Nat /\ n * Hop + Window <= length
    BY DEF FullWindows
  <2> QED
    BY <2>1, HopsGrow
<1>7. ASSUME NEW n \in F PROVE n < m
  <2>1. n \in Nat /\ n * Hop \in Nat /\ n * Hop + Window <= length
    BY <1>6
  <2>2. m <= n => m * Hop <= n * Hop
    BY <1>3, <2>1, HopsGrow
  <2> QED
    BY <1>3, <1>4, <1>5, <2>1, <2>2
<1>8. F = 0 .. m - 1
  <2>1. \A n \in F : n \in 0 .. m - 1
    BY <1>3, <1>6, <1>7
  <2> HIDE DEF F
  <2> QED
    BY <1>3, <2>1
<1>9. Cardinality(0 .. m - 1) = m
  BY <1>3, FS_Interval
<1>10. Cardinality(FullWindows(length)) = m
  BY <1>8, <1>9
<1>11. FullWindows(length) = 0 .. m - 1 /\ \A n \in 0 .. m - 1 : n * Hop + Window <= length
  BY <1>6, <1>8
<1> HIDE DEF F, Rest
<1> QED
  BY <1>3, <1>5, <1>10, <1>11

\* The segments of a waveform: the full windows, and then perhaps a tail.
LEMMA SegmentsAre ==
    ASSUME NEW length \in Nat
    PROVE  \E full, count \in Nat :
              /\ full = Cardinality(FullWindows(length)) /\ count = SegmentCount(length)
              /\ IF length > full * Hop + TailPad THEN count = full + 1 ELSE count = full
              /\ full * Hop \in Nat /\ full * Hop + Window > length
              /\ DOMAIN SegmentAudio(length) = 1 .. count
              /\ \A n \in 1 .. count :
                    /\ (n - 1) * Hop \in Nat
                    /\ SegmentAudio(length)[n].segment_idx = n - 1
                    /\ SegmentAudio(length)[n].start = (n - 1) * Hop
                    /\ SegmentAudio(length)[n].is_last_segment <=> n = count
                    /\ n <= full => /\ SegmentAudio(length)[n].samples = Window
                                    /\ (n - 1) * Hop + Window <= length
                    /\ n > full => SegmentAudio(length)[n].samples = length - full * Hop
<1>1. PICK full : full = Cardinality(FullWindows(length))
  OBVIOUS
<1>2. /\ full \in Nat /\ full * Hop \in Nat /\ full * Hop + Window > length
      /\ \A n \in 0 .. full - 1 : n * Hop + Window <= length
  BY <1>1, FullWindowsAreFirst, HopsGrow
<1>3. PICK count : count = SegmentCount(length)
  OBVIOUS
<1>4. /\ count \in Nat
      /\ IF length > full * Hop + TailPad THEN count = full + 1 ELSE count = full
  BY <1>1, <1>2, <1>3 DEF SegmentCount, HasTail, TailStart
<1>5. Window \in Nat /\ Window > 0 /\ TailPad \in Nat
  BY SegmenterAssumption
<1>6. DOMAIN SegmentAudio(length) = 1 .. count
  BY <1>3 DEF SegmentAudio
<1>7. ASSUME NEW n \in 1 .. count
      PROVE  /\ (n - 1) * Hop \in Nat
             /\ SegmentAudio(length)[n].segment_idx = n - 1
             /\ SegmentAudio(length)[n].start = (n - 1) * Hop
             /\ SegmentAudio(length)[n].is_last_segment <=> n = count
             /\ n <= full => /\ SegmentAudio(length)[n].samples = Window
                             /\ (n - 1) * Hop + Window <= length
             /\ n > full => SegmentAudio(length)[n].samples = length - full * Hop
  <2>1. n \in Nat /\ n - 1 \in Nat /\ n >= 1 /\ n <= count
    BY <1>4
  <2>2. PICK start : start = (n - 1) * Hop
    OBVIOUS
  <2>3. start \in Nat
    BY <2>1, <2>2, HopsGrow
  <2> DEFINE last == n = count
  <2>4. SegmentAudio(length)[n] = [segment_idx |-> n - 1, start |-> start,
                                   samples |-> Min({Window, length - start}),
                                   is_last_segment |-> last]
    BY <1>3, <2>2 DEF SegmentAudio
  <2>5. n <= full => start + Window <= length
    BY <1>2, <2>1, <2>2
  <2>6. n > full => n - 1 = full /\ start = full * Hop /\ length > start
    BY <1>2, <1>4, <1>5, <2>1, <2>2
  <2>7. length - start \in Nat
    BY <1>2, <1>5, <2>1, <2>3, <2>5, <2>6
  <2>8. Min({Window, length - start}) = IF Window <= length - start THEN Window ELSE length - start
    BY <1>5, <2>7, MinOfTwo
  <2>9. n <= full => Min({Window, length - start}) = Window
    BY <1>5, <2>3, <2>5, <2>8
  <2>10. n > full => Min({Window, length - start}) = length - full * Hop
    BY <1>2, <1>5, <2>6, <2>8
  <2> HIDE DEF last
  <2>11. SegmentAudio(length)[n].is_last_segment = last
    BY <2>4
  <2>12. SegmentAudio(length)[n].is_last_segment <=> n = count
    BY <2>11 DEF last
  <2> QED
    BY <2>12, <2>2, <2>3, <2>4, <2>5, <2>9, <2>10, <2>11
<1> QED
  BY <1>1, <1>2, <1>3, <1>4, <1>6, <1>7

\* A sample that starts no later than some segment belongs to the last that
\* starts no later than it, unless it lies after the end of the audio.
LEMMA SegmentOf ==
    ASSUME NEW count \in Nat, NEW x \in Nat, count > 0
    PROVE  \E n \in 1 .. count : /\ (n - 1) * Hop <= x
                                 /\ n < count => x < n * Hop
<1> DEFINE Later == {k \in Nat : k >= count \/ k * Hop > x}
           k == Min(Later)
<1>1. Later \subseteq Nat /\ count \in Later
  OBVIOUS
<1>2. k \in Later /\ \A y \in Later : k <= y
  BY <1>1, MinIsIn
<1> HIDE DEF k
<1>3. k \in Nat /\ k <= count
  BY <1>1, <1>2
<1>4. 0 * Hop = 0 /\ 0 \notin Later
  BY SegmenterAssumption
<1>5. k >= 1
  BY <1>2, <1>3, <1>4
<1>6. k - 1 \in Nat /\ k - 1 \notin Later
  BY <1>2, <1>3, <1>5
<1>7. (k - 1) * Hop <= x
  <2>1. (k - 1) * Hop \in Nat
    BY <1>6, HopsGrow
  <2> QED
    BY <1>6, <2>1
<1>8. k < count => x < k * Hop
  <2>1. k * Hop \in Nat
    BY <1>3, HopsGrow
  <2> QED
    BY <1>2, <1>3, <2>1
<1> QED
  BY <1>3, <1>5, <1>7, <1>8

\* Every waveform is tiled by its segments (segment_audio).
THEOREM EveryLengthIsTiled ==
    ASSUME NEW length \in Nat
    PROVE  Tiled(length)
<1> DEFINE segments == SegmentAudio(length)
<1>1. PICK full \in Nat, count \in Nat :
         /\ full = Cardinality(FullWindows(length)) /\ count = SegmentCount(length)
         /\ IF length > full * Hop + TailPad THEN count = full + 1 ELSE count = full
         /\ full * Hop \in Nat /\ full * Hop + Window > length
         /\ DOMAIN SegmentAudio(length) = 1 .. count
         /\ \A n \in 1 .. count :
               /\ (n - 1) * Hop \in Nat
               /\ SegmentAudio(length)[n].segment_idx = n - 1
               /\ SegmentAudio(length)[n].start = (n - 1) * Hop
               /\ SegmentAudio(length)[n].is_last_segment <=> n = count
               /\ n <= full => /\ SegmentAudio(length)[n].samples = Window
                               /\ (n - 1) * Hop + Window <= length
               /\ n > full => SegmentAudio(length)[n].samples = length - full * Hop
  BY SegmentsAre
<1> HIDE DEF segments
<1>2. /\ Window \in Nat /\ Window > 0 /\ TailPad \in Nat
      /\ Hop \in Nat /\ Hop > 0 /\ Hop <= Window
  BY SegmenterAssumption
<1>3. DOMAIN segments = 1 .. count
  BY <1>1 DEF segments
<1>4. ASSUME NEW n \in 1 .. count
      PROVE  \E start \in Nat, samples \in Nat :
                /\ start = (n - 1) * Hop
                /\ segments[n].segment_idx = n - 1
                /\ segments[n].start = start /\ segments[n].samples = samples
                /\ segments[n].is_last_segment <=> n = count
                /\ start + samples <= length
                /\ samples = Window \/ samples > TailPad
                /\ n <= full => samples = Window
                /\ n > full => n = full + 1 /\ samples = length - start /\ n = count
  <2>1. PICK start : start = (n - 1) * Hop
    OBVIOUS
  <2>2. /\ start \in Nat
        /\ segments[n].segment_idx = n - 1
        /\ segments[n].start = start
        /\ segments[n].is_last_segment <=> n = count
        /\ n <= full => segments[n].samples = Window /\ start + Window <= length
        /\ n > full => segments[n].samples = length - full * Hop
    BY <1>1, <2>1 DEF segments
  <2>3. CASE n <= full
    BY <1>2, <2>1, <2>2, <2>3
  <2>4. CASE n > full
    <3>1. n = full + 1 /\ n = count /\ length > full * Hop + TailPad
      BY <1>1, <2>4
    <3>2. start = full * Hop
      BY <2>1, <3>1
    <3>3. length > start + TailPad /\ segments[n].samples = length - start
      BY <2>2, <2>4, <3>1, <3>2
    <3>4. length - start \in Nat /\ length - start > TailPad
      BY <1>2, <2>2, <3>3
    <3> QED
      BY <2>1, <2>2, <2>4, <3>1, <3>3, <3>4
  <2> QED
    BY <2>3, <2>4
<1> DEFINE covered == UNION {s.start .. s.start + s.samples - 1 :
                                s \in {segments[n] : n \in DOMAIN segments}}
<1>5. ASSUME NEW n \in 1 .. count, NEW x \in segments[n].start .. segments[n].start + segments[n].samples - 1
      PROVE  x \in covered
  BY <1>3
<1>6. ASSUME NEW x \in covered
      PROVE  x \in 0 .. length - 1
  <2>1. PICK n \in 1 .. count : x \in segments[n].start .. segments[n].start + segments[n].samples - 1
    BY <1>3
  <2>2. PICK start \in Nat, samples \in Nat :
           segments[n].start = start /\ segments[n].samples = samples /\ start + samples <= length
    BY <1>4
  <2> QED
    BY <2>1, <2>2
<1> HIDE DEF covered
<1>7. length > TailPad => segments # <<>>
  <2> SUFFICES ASSUME length > TailPad PROVE segments # <<>>
    OBVIOUS
  <2>1. count > 0
    <3>1. CASE full = 0
      BY <1>1, <1>2, <3>1
    <3>2. CASE full > 0
      BY <1>1, <3>2
    <3> QED
      BY <3>1, <3>2
  <2>2. 1 \in DOMAIN segments
    BY <1>3, <2>1
  <2> QED
    BY <2>2
<1>8. ASSUME NEW x \in (0 .. length - 1) \ covered
      PROVE  x + TailPad >= length
  <2> SUFFICES ASSUME x + TailPad < length PROVE FALSE
    BY <1>2
  <2>1. x \in Nat /\ x < length
    OBVIOUS
  <2>2. count > 0
    <3>1. CASE full = 0
      BY <1>1, <1>2, <2>1, <3>1
    <3>2. CASE full > 0
      BY <1>1, <3>2
    <3> QED
      BY <3>1, <3>2
  <2>3. PICK n \in 1 .. count : (n - 1) * Hop <= x /\ (n < count => x < n * Hop)
    BY <2>1, <2>2, SegmentOf
  <2>4. PICK start \in Nat, samples \in Nat :
           /\ start = (n - 1) * Hop
           /\ segments[n].start = start /\ segments[n].samples = samples
           /\ n <= full => samples = Window
           /\ n > full => n = full + 1 /\ samples = length - start /\ n = count
    BY <1>4
  <2>5. n * Hop = start + Hop
    <3>1. n - 1 \in Nat /\ n = (n - 1) + 1
      OBVIOUS
    <3> QED
      BY <2>4, <3>1, HopsGrow
  <2>6. x < start + samples
    <3>1. CASE n > full
      BY <2>1, <2>4, <3>1
    <3>2. CASE n <= full /\ n < count
      BY <1>2, <2>1, <2>3, <2>4, <2>5, <3>2
    <3>3. CASE n <= full /\ n = count
      <4> PICK past \in Nat : past = full * Hop
        BY <1>1
      <4>1. ~ (length > past + TailPad) /\ count = full
        BY <1>1, <3>3
      <4>2. x < past /\ past = n * Hop
        BY <1>2, <2>1, <3>3, <4>1
      <4> QED
        BY <1>2, <2>1, <2>4, <2>5, <3>3, <4>2
    <3> QED
      BY <3>1, <3>2, <3>3
  <2>7. x \in segments[n].start .. segments[n].start + segments[n].samples - 1
    BY <2>1, <2>3, <2>4, <2>6
  <2> QED
    BY <1>5, <2>7
<1>9. ASSUME NEW n \in DOMAIN segments
      PROVE  segments[n].is_last_segment <=>
                \A m \in DOMAIN segments : segments[m].start <= segments[n].start
  <2>1. n \in 1 .. count /\ n \in Nat /\ n - 1 \in Nat
    BY <1>3
  <2>2. /\ segments[n].is_last_segment <=> n = count
        /\ segments[n].start = (n - 1) * Hop
    BY <1>1, <2>1 DEF segments
  <2>3. ASSUME n = count, NEW m \in DOMAIN segments
        PROVE  segments[m].start <= segments[n].start
    <3>1. m \in 1 .. count /\ m - 1 \in Nat /\ m - 1 <= n - 1
      BY <1>3, <2>3
    <3>2. segments[m].start = (m - 1) * Hop
      BY <1>1, <3>1 DEF segments
    <3>3. (m - 1) * Hop <= (n - 1) * Hop
      BY <2>1, <3>1, HopsGrow
    <3> QED
      BY <2>2, <3>2, <3>3
  <2>4. ASSUME n # count
        PROVE  \E m \in DOMAIN segments : ~ (segments[m].start <= segments[n].start)
    <3>1. count \in 1 .. count /\ count - 1 \in Nat /\ n - 1 < count - 1
      BY <2>1, <2>4
    <3>2. segments[count].start = (count - 1) * Hop
      BY <1>1, <3>1 DEF segments
    <3>3. /\ (n - 1) * Hop \in Nat /\ (count - 1) * Hop \in Nat
          /\ (n - 1) * Hop < (count - 1) * Hop
      BY <2>1, <3>1, HopsGrow
    <3>4. ~ (segments[count].start <= segments[n].start)
      BY <2>2, <3>2, <3>3
    <3> QED
      BY <1>3, <3>1, <3>4
  <2> QED
    BY <2>2, <2>3, <2>4
<1>10. ASSUME NEW n \in DOMAIN segments
       PROVE  /\ segments[n].segment_idx = n - 1
              /\ segments[n].samples = Window \/ segments[n].samples > TailPad
  BY <1>3, <1>4
<1> QED
  BY <1>6, <1>7, <1>8, <1>9, <1>10 DEF Tiled, covered, segments

\* So no length is left untiled, whatever lengths a model tries.
THEOREM NoneUntiled == Untiled = {}
BY EveryLengthIsTiled, LengthsAssumption DEF Untiled
=============================================================================
