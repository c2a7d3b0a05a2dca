---------------------------- MODULE MCProcessing ----------------------------
(***************************************************************************)
(* Instances of Processing for TLC: two segments of one run, and contents  *)
(* of which one is silent.                                                 *)
(***************************************************************************)
EXTENDS Processing, TLC

MCRunOf == [s \in Segments |-> "run1"]
MCSilent == Contents \cap {"quiet"}

\* A lone replica: it crashes, fails and is revoked, and artifacts are rewritten.
MCLone == [crash |-> 1, error |-> 1, rebalance |-> 1, eviction |-> 0, rewrite |-> 1]

\* Two replicas, an evicted one going on with its record.
MCOverlap == [crash |-> 1, error |-> 1, rebalance |-> 0, eviction |-> 1, rewrite |-> 1]

\* Two replicas that take turns.
MCTurns == [crash |-> 0, error |-> 0, rebalance |-> 2, eviction |-> 0, rewrite |-> 0]

\* For liveness: an eviction is the rebalance, the error may end a process.
MCOnce == [crash |-> 1, error |-> 1, rebalance |-> 0, eviction |-> 1, rewrite |-> 1]

Symmetry == Permutations(Replicas)
=============================================================================
