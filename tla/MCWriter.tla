------------------------------ MODULE MCWriter ------------------------------
(***************************************************************************)
(* Instances of Writer for TLC.  Each identity stands for one kind of row: *)
(* a track, two segments of one run, a run total (replay safe) and, of a   *)
(* second run, a per-record sample (append only).                          *)
(***************************************************************************)
EXTENDS Writer, TLC

MCTopicOf == [k \in Keys |->
    CASE k = "track" -> MetadataTopic
      [] k \in {"total", "sample"} -> MetricTopic
      [] OTHER -> FeatureTopic]

MCRunOf == [k \in Keys |-> IF k = "sample" THEN "run2" ELSE "run1"]

MCAppendOnly == Keys \cap {"sample"}

\* Members overlap: an evicted one goes on, next to a crash or shutdown and an error.
MCOverlap == [crash |-> 1, error |-> 1, rebalance |-> 0, eviction |-> 1]

\* One error, and no member outlives its assignment.
MCErrors == [crash |-> 0, error |-> 1, rebalance |-> 0, eviction |-> 0]

\* Every disruption once, for liveness.
MCRebalance == [crash |-> 1, error |-> 1, rebalance |-> 1, eviction |-> 1]

Symmetry == Permutations(Writers)
=============================================================================
