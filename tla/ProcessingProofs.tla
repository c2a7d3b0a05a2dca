--------------------------- MODULE ProcessingProofs ---------------------------
(***************************************************************************)
(* Proofs about Processing.tla, for any replicas, segments, contents,      *)
(* forms and bounds.                                                       *)
(*                                                                         *)
(* The first part is about any number of replicas.  What a replica does    *)
(* with its record (Holds) does not depend on what it remembers of the     *)
(* run: it publishes before it commits, and the record it commits is the   *)
(* one after the last committed one.                                       *)
(***************************************************************************)
EXTENDS Processing, TLAPS

Loaded == {"record", "features", "metrics", "persist", "replace", "offset"}
Recorded == {"features", "metrics", "persist", "replace", "offset"}
Announced == {"metrics", "persist", "replace", "offset"}
Counted == {"persist", "replace", "offset"}

\* The record of a replica, and how far it has brought it.
Holds(p) ==
    /\ pc[p] \in Busy => current[p] \in 1..Len(ready)
    /\ pc[p] \in Loaded => Event(p).form = "valid"
    /\ pc[p] \in Loaded => audio[p] = Event(p).content
    /\ pc[p] \in Recorded => next[p] # {}
    /\ pc[p] \in Announced => FeatureOf(p) \in features
    /\ pc[p] \in Counted => ratio[Run(p)] # {}
    /\ pc[p] = "failed" => failure[p] # "none"

\* The owner of the topic works on the first offset that is not committed, or on none.
InStep(p) ==
    owner = p =>
        /\ pc[p] # "down"
        /\ pc[p] = "idle" => position = committed
        /\ pc[p] \in Busy => position = committed + 1 /\ current[p] = position

Inv ==
    /\ TypeOK
    /\ committed <= Len(ready)
    /\ \A p \in Replicas : Holds(p) /\ InStep(p)
    /\ CommittedIsPublished
    /\ FeaturesMatchChecksum

\* No replica has started, and nothing is published.
LEMMA InitInv == Init => Inv
BY SegmentsAssumption, ReplicasAssumption, ContentsAssumption, BoundsAssumption
   DEF Init, Inv, TypeOK, Holds, InStep, CommittedIsPublished, CommittedEvents,
       FeaturesMatchChecksum, Busy, Stages, Loaded, Recorded, Announced, Counted, Disruptions

\* The log grows at its end; what has been published stays published.
GoesOn ==
    /\ Len(ready) <= Len(ready')
    /\ \A o \in 1..Len(ready) : ready'[o] = ready[o]
    /\ features \subseteq features'
    /\ \A r \in Runs : ratio[r] # {} => ratio'[r] # {}

\* Nothing a replica does reaches into another one.
Apart(q) ==
    /\ UNCHANGED <<pc[q], current[q], audio[q], next[q], failure[q]>>
    /\ owner' = q => owner = q /\ UNCHANGED <<position, committed>>

\* The record of a replica is one of the log, of a known run.
LEMMA EventsAreSound ==
    ASSUME TypeOK, NEW p \in Replicas, current[p] \in 1..Len(ready)
    PROVE  Event(p) \in Events /\ Run(p) \in Runs
<1>1. ready \in Seq(Events)
  BY DEF TypeOK
<1>2. Event(p) \in Events
  BY <1>1 DEF Event
<1>3. Event(p).segment \in Segments
  BY <1>2 DEF Events
<1> QED
  BY <1>2, <1>3 DEF Run, Runs

\* An artifact that cannot be loaded ends in a failure and touches nothing else.
LEMMA LoadEnds ==
    ASSUME NEW p, LoadRejected(p) \/ LoadFails(p)
    PROVE  /\ pc[p] = "load"
           /\ Fails(p, "artifact_load_failed") \/ Fails(p, "processing_failed")
           /\ UNCHANGED <<artifact, kafka, topics, current, attempt, memory, disk>>
           /\ UNCHANGED struck \/ Strikes("error")
BY DEF LoadRejected, LoadFails

\* A replica keeps its record while others work.
LEMMA Frame ==
    ASSUME TypeOK, GoesOn, NEW q \in Replicas, Holds(q), InStep(q), Apart(q)
    PROVE  Holds(q)' /\ InStep(q)'
<1>2. current[q] \in 1..Len(ready) => Event(q)' = Event(q) /\ Run(q)' = Run(q) /\ Run(q) \in Runs
  BY EventsAreSound DEF GoesOn, Apart, Event, Run
<1>3. pc[q] \in Busy => FeatureOf(q)' = FeatureOf(q)
  BY <1>2 DEF Holds, FeatureOf, Apart
<1>4. InStep(q)'
  BY DEF InStep, Apart
<1> QED
  BY <1>2, <1>3, <1>4 DEF Holds, Apart, GoesOn, Busy, Loaded, Recorded, Announced, Counted

-----------------------------------------------------------------------------
\* Every action keeps the types.
LEMMA TypeStep == Inv /\ [Next]_vars => TypeOK'
<1> SUFFICES ASSUME Inv, [Next]_vars PROVE TypeOK'
  OBVIOUS
<1>t. TypeOK
  BY DEF Inv
<1>e. \A p \in Replicas : pc[p] \in Busy => Event(p) \in Events /\ Run(p) \in Runs
  BY EventsAreSound DEF Inv, Holds
<1>s. \A d : d \in Disruptions /\ Strikes(d) => struck' \in [Disruptions -> Nat]
  BY <1>t DEF Strikes, TypeOK
<1>o. \A p \in Replicas : /\ pc[p] \in Loaded => Outcome(p) \in Outcomes
                          /\ pc[p] \in Loaded => FeatureOf(p) \in Features
  BY <1>e DEF Outcome, Outcomes, FeatureOf, Features, Events, Loaded, Busy
<1>g. ASSUME NEW p \in Replicas, Gone(p)
      PROVE  /\ pc' \in [Replicas -> Stages]
             /\ current' \in [Replicas -> Nat]
             /\ attempt' \in [Replicas -> 0..MaxAttempts]
             /\ audio' \in [Replicas -> Contents \cup {"missing", "torn"}]
             /\ loaded' \in [Replicas -> SUBSET Runs]
             /\ cache' \in [Replicas -> [Runs -> SUBSET Outcomes]]
             /\ next' \in [Replicas -> SUBSET Outcomes]
             /\ failure' \in [Replicas -> FailureClasses \cup {"none"}]
             /\ owner' \in Replicas \cup {NoReplica}
             /\ UNCHANGED <<artifact, ready, position, disk>>
  BY <1>t, <1>g, BoundsAssumption DEF TypeOK, Gone, GoTo, Stages
<1>p. ASSUME NEW p \in Replicas
      PROVE  /\ \A stage \in Stages : GoTo(p, stage) => pc' \in [Replicas -> Stages]
             /\ \A class \in FailureClasses : Fails(p, class) =>
                   /\ pc' \in [Replicas -> Stages]
                   /\ failure' \in [Replicas -> FailureClasses \cup {"none"}]
  <2>1. "failed" \in Stages
    BY DEF Stages, Busy
  <2>2. pc \in [Replicas -> Stages] /\ failure \in [Replicas -> FailureClasses \cup {"none"}]
    BY <1>t DEF TypeOK
  <2>3. \A stage \in Stages : GoTo(p, stage) => pc' \in [Replicas -> Stages]
    BY <2>2 DEF GoTo
  <2> QED
    BY <2>1, <2>2, <2>3 DEF Fails
<1> USE <1>t DEF TypeOK, kafka, topics, progress, memory, disk
<1>1. ASSUME NEW s \in Segments, BeginRewrite(s) \/ FinishWrite(s)
      PROVE  TypeOK'
  BY <1>1, <1>s DEF BeginRewrite, FinishWrite, Disruptions
<1>2. ASSUME NEW s \in Segments, Publish(s)
      PROVE  TypeOK'
  <2>1. PICK f \in Forms :
           ready' = Append(ready, [segment |-> s, content |-> artifact[s], form |-> f])
    BY <1>2 DEF Publish
  <2>2. [segment |-> s, content |-> artifact[s], form |-> f] \in Events
    BY <1>2, ContentsAssumption DEF Publish, Events
  <2>3. ready' \in Seq(Events)
    BY <2>1, <2>2
  <2> QED
    BY <1>2, <2>3 DEF Publish
<1>3. ASSUME NEW p \in Replicas, Start(p) \/ Assign(p) \/ Revoke(p) \/ Evict(p)
      PROVE  TypeOK'
  BY <1>3, <1>s DEF Start, Assign, Revoke, Evict, GoTo, Stages, Disruptions
<1>4. ASSUME NEW p \in Replicas, Poll(p)
      PROVE  TypeOK'
  <2>1. pc' \in [Replicas -> Stages] /\ failure' \in [Replicas -> FailureClasses \cup {"none"}]
    <3>1. {"load"} \subseteq Stages /\ {"envelope_invalid", "processing_failed"} \subseteq FailureClasses
      BY DEF Stages, Busy, FailureClasses
    <3> QED
      BY <1>4, <1>p, <3>1 DEF Poll
  <2>2. /\ current' \in [Replicas -> Nat] /\ position' \in Nat
        /\ attempt' \in [Replicas -> 0..MaxAttempts]
    BY <1>4, BoundsAssumption DEF Poll
  <2> QED
    BY <1>4, <2>1, <2>2 DEF Poll
<1>5. ASSUME NEW p \in Replicas, Load(p) \/ LoadUnready(p)
      PROVE  TypeOK'
  <2>1. artifact[Event(p).segment] \in Contents \cup {"missing", "torn"}
    BY <1>5, <1>e DEF Load, LoadUnready, Events, Busy
  <2>2. pc' \in [Replicas -> Stages] /\ failure' \in [Replicas -> FailureClasses \cup {"none"}]
    <3>1. "record" \in Stages /\ {"artifact_not_ready", "checksum_mismatch"} \subseteq FailureClasses
      BY DEF Stages, Busy, FailureClasses
    <3> QED
      BY <1>5, <1>p, <3>1 DEF Load, LoadUnready
  <2>3. audio' \in [Replicas -> Contents \cup {"missing", "torn"}]
    BY <1>5, <2>1 DEF Load, LoadUnready
  <2>4. attempt' \in [Replicas -> 0..MaxAttempts]
    <3>1. \/ attempt' = attempt
          \/ attempt[p] < MaxAttempts /\ attempt' = [attempt EXCEPT ![p] = @ + 1]
      BY <1>5 DEF Load, LoadUnready, RetriesLeft
    <3>2. attempt[p] < MaxAttempts => attempt[p] + 1 \in 0..MaxAttempts
      BY BoundsAssumption
    <3> QED
      BY <3>1, <3>2
  <2> QED
    BY <1>5, <2>2, <2>3, <2>4 DEF Load, LoadUnready
<1>15. ASSUME NEW p \in Replicas, LoadRejected(p) \/ LoadFails(p)
       PROVE  TypeOK'
  <2>1. /\ {"artifact_load_failed", "processing_failed"} \subseteq FailureClasses
        /\ "error" \in Disruptions
    BY DEF FailureClasses, Disruptions
  <2>2. pc' \in [Replicas -> Stages] /\ failure' \in [Replicas -> FailureClasses \cup {"none"}]
    BY <1>15, <1>p, <2>1, LoadEnds
  <2>3. struck' \in [Disruptions -> Nat]
    BY <1>15, <1>s, <2>1, LoadEnds
  <2> QED
    BY <1>15, <2>2, <2>3, LoadEnds
<1>6. ASSUME NEW p \in Replicas, RecordSuccess(p)
      PROVE  TypeOK'
  <2> DEFINE base == MetricsFor(p, Run(p))
  <2>1. Run(p) \in Runs /\ Outcome(p) \in Outcomes
    BY <1>6, <1>e, <1>o DEF RecordSuccess, Busy, Loaded
  <2>2. base \in SUBSET Outcomes
    BY <2>1 DEF MetricsFor
  <2> HIDE DEF base
  <2>3. loaded' \in [Replicas -> SUBSET Runs]
    BY <1>6, <2>1 DEF RecordSuccess
  <2>4. cache' \in [Replicas -> [Runs -> SUBSET Outcomes]]
    BY <1>6, <2>2 DEF RecordSuccess, base
  <2>5. next' \in [Replicas -> SUBSET Outcomes]
    <3>1. CASE Drifted(base, Outcome(p))
      BY <1>6, <3>1 DEF RecordSuccess, base
    <3>2. CASE ~Drifted(base, Outcome(p))
      <4>1. next' = [next EXCEPT ![p] = base \cup {Outcome(p)}]
        BY <1>6, <3>2 DEF RecordSuccess, base
      <4> QED
        BY <2>1, <2>2, <4>1
    <3> QED
      BY <3>1, <3>2
  <2>6. pc' \in [Replicas -> Stages] /\ failure' \in [Replicas -> FailureClasses \cup {"none"}]
    <3>1. "features" \in Stages /\ "metrics_state_failed" \in FailureClasses
      BY DEF Stages, Busy, FailureClasses
    <3> QED
      BY <1>6, <1>p, <3>1 DEF RecordSuccess
  <2> QED
    BY <1>6, <2>3, <2>4, <2>5, <2>6 DEF RecordSuccess
<1>7. ASSUME NEW p \in Replicas, PublishFeatures(p) \/ PublishMetrics(p) \/ PublishFails(p)
      PROVE  TypeOK'
  <2>1. /\ {"metrics", "offset", "persist"} \subseteq Stages
        /\ {"feature_publish_failed", "metric_publish_failed"} \subseteq FailureClasses
        /\ "error" \in Disruptions
    BY DEF Stages, Busy, FailureClasses, Disruptions
  <2>2. pc[p] = "features" => FeatureOf(p) \in Features
    BY <1>o DEF Loaded
  <2>3. AfterMetrics(p) \in Stages
    BY <2>1 DEF AfterMetrics
  <2>4. CASE PublishFeatures(p)
    BY <1>p, <2>1, <2>2, <2>4 DEF PublishFeatures
  <2>5. CASE PublishMetrics(p)
    <3>1. ratio' \in [Runs -> SUBSET Outcomes]
      BY <2>5 DEF PublishMetrics
    <3> QED
      BY <1>p, <2>3, <2>5, <3>1 DEF PublishMetrics
  <2>6. CASE PublishFails(p)
    <3>1. ratio' \in [Runs -> SUBSET Outcomes]
      BY <2>6 DEF PublishFails
    <3>2. features' \subseteq Features
      BY <2>2, <2>6 DEF PublishFails
    <3>3. pc' \in [Replicas -> Stages] /\ failure' \in [Replicas -> FailureClasses \cup {"none"}]
      BY <1>p, <2>1, <2>6 DEF PublishFails
    <3>4. struck' \in [Disruptions -> Nat]
      BY <1>s, <2>1, <2>6 DEF PublishFails
    <3> QED
      BY <2>6, <3>1, <3>2, <3>3, <3>4 DEF PublishFails
  <2> QED
    BY <1>7, <2>4, <2>5, <2>6
<1>8. ASSUME NEW p \in Replicas, PersistTemp(p) \/ PersistFails(p)
      PROVE  TypeOK'
  <2>1. "replace" \in Stages /\ "metrics_state_failed" \in FailureClasses /\ "error" \in Disruptions
    BY DEF Stages, Busy, FailureClasses, Disruptions
  <2>2. CASE PersistTemp(p)
    <3>1. temp' \in [Runs -> SUBSET SUBSET Outcomes]
      <4>1. {next[p]} \in SUBSET SUBSET Outcomes
        OBVIOUS
      <4>2. temp' = [temp EXCEPT ![Run(p)] = {next[p]}]
        BY <2>2 DEF PersistTemp
      <4> QED
        BY <4>1, <4>2
    <3> QED
      BY <1>p, <2>1, <2>2, <3>1 DEF PersistTemp
  <2>3. CASE PersistFails(p)
    BY <1>p, <1>s, <2>1, <2>3 DEF PersistFails
  <2> QED
    BY <1>8, <2>2, <2>3
<1>9. ASSUME NEW p \in Replicas, ReplaceState(p)
      PROVE  TypeOK'
  <2>1. Run(p) \in Runs
    BY <1>9, <1>e DEF ReplaceState, Busy
  <2> DEFINE saved == CHOOSE outcomes \in temp[Run(p)] : TRUE
  <2>2. temp[Run(p)] # {} => saved \in SUBSET Outcomes
    BY <2>1
  <2> HIDE DEF saved
  <2>3. stateFile' \in [Runs -> SUBSET Outcomes]
    BY <1>9, <2>2 DEF ReplaceState, saved
  <2>4. cache' \in [Replicas -> [Runs -> SUBSET Outcomes]]
    <3>1. cache' = cache \/ cache' = [cache EXCEPT ![p][Run(p)] = next[p]]
      BY <1>9 DEF ReplaceState
    <3> DEFINE saves == [cache[p] EXCEPT ![Run(p)] = next[p]]
    <3>2. saves \in [Runs -> SUBSET Outcomes]
      OBVIOUS
    <3>3. cache' = cache \/ cache' = [cache EXCEPT ![p] = saves]
      BY <3>1
    <3> HIDE DEF saves
    <3> QED
      BY <3>2, <3>3
  <2>5. temp' \in [Runs -> SUBSET SUBSET Outcomes]
    BY <1>9 DEF ReplaceState
  <2>6. pc' \in [Replicas -> Stages] /\ failure' \in [Replicas -> FailureClasses \cup {"none"}]
    <3>1. "offset" \in Stages /\ "metrics_state_failed" \in FailureClasses
      BY DEF Stages, Busy, FailureClasses
    <3> QED
      BY <1>9, <1>p, <3>1 DEF ReplaceState
  <2> QED
    BY <1>9, <2>3, <2>4, <2>5, <2>6 DEF ReplaceState
<1>10. ASSUME NEW p \in Replicas, CommitOffset(p)
       PROVE  TypeOK'
  <2>1. "idle" \in Stages
    BY DEF Stages
  <2>2. current' \in [Replicas -> Nat] /\ committed' \in Nat
    BY <1>10 DEF CommitOffset
  <2> QED
    BY <1>10, <1>p, <2>1, <2>2 DEF CommitOffset
<1>11. ASSUME NEW p \in Replicas, OffsetCommitFenced(p) \/ OffsetCommitFails(p)
       PROVE  TypeOK'
  <2>1. CASE OffsetCommitFenced(p)
    BY <1>g, <2>1 DEF OffsetCommitFenced
  <2>2. CASE OffsetCommitFails(p)
    <3>1. "error" \in Disruptions /\ current[p] \in Nat
      BY DEF Disruptions
    <3>2. committed' \in Nat /\ struck' \in [Disruptions -> Nat]
      BY <1>s, <2>2, <3>1 DEF OffsetCommitFails
    <3> QED
      BY <1>g, <2>2, <3>2 DEF OffsetCommitFails
  <2> QED
    BY <1>11, <2>1, <2>2
<1>12. ASSUME NEW p \in Replicas, EmitFailureMetric(p)
       PROVE  TypeOK'
  <2>1. failure[p] \in FailureClasses
    BY <1>12 DEF EmitFailureMetric, Inv, Holds
  <2>2. [offset |-> current[p], class |-> failure[p]] \in [offset : Nat, class : FailureClasses]
    BY <2>1
  <2>3. errors' \subseteq [offset : Nat, class : FailureClasses]
    BY <1>12, <2>2 DEF EmitFailureMetric
  <2> QED
    BY <1>12, <1>g, <2>3 DEF EmitFailureMetric
<1>13. ASSUME NEW p \in Replicas, EmitFailureMetricFails(p) \/ Crash(p)
       PROVE  TypeOK'
  BY <1>13, <1>g, <1>s DEF EmitFailureMetricFails, Crash, Disruptions
<1>14. CASE UNCHANGED vars
  BY <1>14 DEF vars
<1> QED
  BY <1>1, <1>2, <1>3, <1>4, <1>5, <1>6, <1>7, <1>8, <1>9, <1>10, <1>11, <1>12, <1>13, <1>14,
     <1>15 DEF Next, Work, Disrupt

-----------------------------------------------------------------------------
\* What a process does at its end.
LEMMA GoneHolds ==
    ASSUME TypeOK, NEW p \in Replicas, Gone(p)
    PROVE  /\ Holds(p)' /\ InStep(p)'
           /\ \A q \in Replicas \ {p} : UNCHANGED <<pc[q], current[q], audio[q], next[q], failure[q]>>
           /\ owner' # p /\ UNCHANGED <<ready, position>>
           /\ \A q \in Replicas : owner' = q => owner = q
<1>1. /\ pc' = [pc EXCEPT ![p] = "down"]
      /\ current' = [current EXCEPT ![p] = 0]
      /\ audio' = [audio EXCEPT ![p] = "missing"]
      /\ next' = [next EXCEPT ![p] = {}]
      /\ failure' = [failure EXCEPT ![p] = "none"]
      /\ owner' = IF owner = p THEN NoReplica ELSE owner
      /\ UNCHANGED <<ready, position>>
  BY DEF Gone, GoTo
<1>2. pc'[p] = "down" /\ owner' # p
  BY <1>1, ReplicasAssumption DEF TypeOK
<1>3. Holds(p)' /\ InStep(p)'
  BY <1>2 DEF Holds, InStep, Busy, Loaded, Recorded, Announced, Counted
<1> QED
  BY <1>1, <1>2, <1>3, ReplicasAssumption DEF TypeOK

\* An action of p that leaves the group, the log and the other replicas alone.
Local(p) ==
    /\ \A q \in Replicas \ {p} : UNCHANGED <<pc[q], current[q], audio[q], next[q], failure[q]>>
    /\ UNCHANGED <<ready, owner, position, committed>>

\* A step inside one replica leaves the others, and its own record, alone.
LEMMA LocalStep ==
    ASSUME TypeOK, NEW p \in Replicas, InStep(p), Local(p), current'[p] = current[p],
           pc[p] \in Busy, pc'[p] \in Busy
    PROVE  /\ \A q \in Replicas \ {p} : Apart(q)
           /\ InStep(p)'
           /\ Event(p)' = Event(p) /\ Run(p)' = Run(p)
BY DEF Local, Apart, InStep, Event, Run, Busy

\* Every action keeps the records of all replicas, and what has been published.
LEMMA HoldStep ==
    ASSUME Inv, [Next]_vars
    PROVE  GoesOn /\ \A p \in Replicas : Holds(p)' /\ InStep(p)'
<1>t. TypeOK /\ \A p \in Replicas : Holds(p) /\ InStep(p)
  BY DEF Inv
<1>e. \A p \in Replicas : pc[p] \in Busy => Event(p) \in Events /\ Run(p) \in Runs
  BY <1>t, EventsAreSound DEF Holds
<1>g. UNCHANGED <<ready, features, ratio>> => GoesOn
  BY DEF GoesOn
<1>f. ASSUME NEW p \in Replicas, GoesOn, \A q \in Replicas \ {p} : Apart(q),
             Holds(p)', InStep(p)'
      PROVE  GoesOn /\ \A q \in Replicas : Holds(q)' /\ InStep(q)'
  BY <1>t, <1>f, Frame
\* The end of a process.
<1>d. ASSUME NEW p \in Replicas, Gone(p), UNCHANGED <<features, ratio>>,
             owner = p \/ UNCHANGED committed
      PROVE  GoesOn /\ \A q \in Replicas : Holds(q)' /\ InStep(q)'
  <2>1. \A q \in Replicas \ {p} : Apart(q)
    BY <1>t, <1>d, GoneHolds DEF Apart
  <2> QED
    BY <1>t, <1>d, <1>f, <1>g, <2>1, GoneHolds
\* A step from one stage of a record to another, or to its failure.
<1>w. ASSUME NEW p \in Replicas, Local(p), current'[p] = current[p], GoesOn,
             pc[p] \in Busy, pc'[p] \in Busy,
             pc'[p] \in Loaded => Event(p).form = "valid",
             pc'[p] \in Loaded => audio'[p] = Event(p).content,
             pc'[p] \in Recorded => next'[p] # {},
             pc'[p] \in Announced => FeatureOf(p)' \in features',
             pc'[p] \in Counted => ratio'[Run(p)] # {},
             pc'[p] = "failed" => failure'[p] # "none"
      PROVE  GoesOn /\ \A q \in Replicas : Holds(q)' /\ InStep(q)'
  <2>1. /\ \A q \in Replicas \ {p} : Apart(q)
        /\ InStep(p)' /\ Event(p)' = Event(p) /\ Run(p)' = Run(p)
    BY <1>t, <1>w, LocalStep
  <2>2. Holds(p)'
    BY <1>t, <1>w, <2>1 DEF Holds, Local
  <2> QED
    BY <1>f, <1>w, <2>1, <2>2
<1>p. ASSUME NEW p \in Replicas
      PROVE  /\ \A stage : GoTo(p, stage) =>
                   pc'[p] = stage /\ \A q \in Replicas \ {p} : pc'[q] = pc[q]
             /\ \A class : Fails(p, class) =>
                   /\ pc'[p] = "failed" /\ failure'[p] = class
                   /\ \A q \in Replicas \ {p} : pc'[q] = pc[q] /\ failure'[q] = failure[q]
  BY <1>t DEF GoTo, Fails, TypeOK
<1>1. CASE \E s \in Segments : BeginRewrite(s) \/ FinishWrite(s)
  <2>1. UNCHANGED <<kafka, topics, progress, memory>>
    BY <1>1 DEF BeginRewrite, FinishWrite
  <2>2. GoesOn /\ \A q \in Replicas : Apart(q)
    BY <1>g, <2>1 DEF Apart, kafka, topics, progress, memory
  <2> QED
    BY <1>t, <2>2, Frame
<1>2. ASSUME NEW s \in Segments, Publish(s)
      PROVE  GoesOn /\ \A p \in Replicas : Holds(p)' /\ InStep(p)'
  <2>1. PICK e : ready' = Append(ready, e)
    BY <1>2 DEF Publish
  <2>2. GoesOn
    BY <1>2, <1>t, <2>1 DEF GoesOn, Publish, topics, TypeOK
  <2>3. \A q \in Replicas : Apart(q)
    BY <1>2 DEF Publish, Apart, progress, memory
  <2> QED
    BY <1>t, <2>2, <2>3, Frame
<1>3. ASSUME NEW p \in Replicas, Start(p) \/ Assign(p) \/ Revoke(p) \/ Evict(p)
      PROVE  GoesOn /\ \A q \in Replicas : Holds(q)' /\ InStep(q)'
  <2>1. GoesOn
    BY <1>3, <1>g DEF Start, Assign, Revoke, Evict, kafka, topics
  <2>2. \A q \in Replicas \ {p} : Apart(q)
    BY <1>3, <1>p, ReplicasAssumption
       DEF Start, Assign, Revoke, Evict, Apart, kafka, progress, memory
  <2>3. Holds(p)' /\ InStep(p)'
    <3>1. CASE Start(p)
      BY <1>p, <1>t, <3>1
         DEF Start, Holds, InStep, kafka, Busy, Loaded, Recorded, Announced, Counted
    <3>2. CASE Assign(p)
      BY <1>t, <3>2
         DEF Assign, Holds, InStep, topics, progress, memory, Busy, Loaded, Recorded,
             Announced, Counted
    <3>3. CASE Revoke(p) \/ Evict(p)
      <4>1. /\ owner' = NoReplica
            /\ UNCHANGED <<ready, position, committed, topics, progress, memory>>
        BY <3>3 DEF Revoke, Evict
      <4>2. InStep(p)'
        BY <4>1, ReplicasAssumption DEF InStep
      <4>3. Holds(p)'
        BY <1>t, <4>1 DEF Holds, topics, progress, memory, Event, Run, FeatureOf
      <4> QED
        BY <4>2, <4>3
    <3> QED
      BY <1>3, <3>1, <3>2, <3>3
  <2> QED
    BY <1>f, <2>1, <2>2, <2>3
<1>4. ASSUME NEW p \in Replicas, Poll(p)
      PROVE  GoesOn /\ \A q \in Replicas : Holds(q)' /\ InStep(q)'
  <2>1. /\ owner = p /\ owner' = p /\ pc[p] = "idle" /\ position < Len(ready)
        /\ position' = position + 1 /\ current' = [current EXCEPT ![p] = position + 1]
        /\ UNCHANGED <<ready, committed, features, ratio, audio, next>>
    BY <1>4 DEF Poll, topics, memory
  <2>2. \/ pc'[p] = "load"
        \/ pc'[p] = "failed" /\ failure'[p] # "none"
    BY <1>4, <1>p DEF Poll
  <2>3. \A q \in Replicas \ {p} : Apart(q)
    BY <1>4, <1>p, <1>t, <2>1 DEF Poll, Apart, TypeOK
  <2>4. current'[p] = position + 1 /\ position \in Nat
    BY <1>t, <2>1 DEF TypeOK
  <2>5. Holds(p)'
    BY <2>1, <2>2, <2>4
       DEF Holds, Event, Busy, Loaded, Recorded, Announced, Counted
  <2>6. InStep(p)'
    BY <1>t, <2>1, <2>2, <2>4 DEF InStep, Busy
  <2> QED
    BY <1>f, <1>g, <2>1, <2>3, <2>5, <2>6
<1>5. ASSUME NEW p \in Replicas, Load(p) \/ LoadUnready(p)
      PROVE  GoesOn /\ \A q \in Replicas : Holds(q)' /\ InStep(q)'
  <2>1. Local(p) /\ current' = current /\ GoesOn
    BY <1>5, <1>g, <1>p, <1>t
       DEF Load, LoadUnready, Local, kafka, topics, memory, TypeOK
  <2>2. pc[p] = "load"
    BY <1>5 DEF Load, LoadUnready
  <2>3. \/ pc'[p] = "record" /\ audio'[p] = Event(p).content /\ Event(p).form = "valid"
        \/ pc'[p] = "load"
        \/ pc'[p] = "failed" /\ failure'[p] # "none"
    BY <1>5, <1>p, <1>t, <2>2 DEF Load, LoadUnready, TypeOK
  <2> QED
    BY <1>w, <2>1, <2>2, <2>3 DEF Busy, Loaded, Recorded, Announced, Counted
<1>12. ASSUME NEW p \in Replicas, LoadRejected(p) \/ LoadFails(p)
       PROVE  GoesOn /\ \A q \in Replicas : Holds(q)' /\ InStep(q)'
  <2>1. pc[p] = "load" /\ pc'[p] = "failed" /\ failure'[p] # "none"
    BY <1>12, <1>p, LoadEnds
  <2>2. Local(p) /\ current' = current /\ UNCHANGED <<ready, features, ratio>>
    BY <1>12, <1>p, LoadEnds DEF Local, kafka, topics, memory
  <2> QED
    BY <1>g, <1>w, <2>1, <2>2 DEF Busy, Loaded, Recorded, Announced, Counted
<1>6. ASSUME NEW p \in Replicas, RecordSuccess(p)
      PROVE  GoesOn /\ \A q \in Replicas : Holds(q)' /\ InStep(q)'
  <2>1. Local(p) /\ current' = current /\ audio' = audio /\ GoesOn
    BY <1>6, <1>g, <1>p, <1>t
       DEF RecordSuccess, Local, kafka, topics, TypeOK
  <2>2. pc[p] = "record" /\ Event(p).form = "valid" /\ audio[p] = Event(p).content
    BY <1>6, <1>t DEF RecordSuccess, Holds, Loaded
  <2>3. \/ pc'[p] = "features" /\ next'[p] # {}
        \/ pc'[p] = "failed" /\ failure'[p] # "none"
    <3> DEFINE base == MetricsFor(p, Run(p))
    <3>1. CASE Drifted(base, Outcome(p))
      BY <1>6, <1>p, <3>1 DEF RecordSuccess
    <3>2. CASE ~Drifted(base, Outcome(p))
      <4>1. next' = [next EXCEPT ![p] = base \cup {Outcome(p)}] /\ GoTo(p, "features")
        BY <1>6, <3>2 DEF RecordSuccess
      <4>2. p \in DOMAIN next
        BY <1>t DEF TypeOK
      <4> HIDE DEF base
      <4> QED
        BY <1>p, <4>1, <4>2
    <3> QED
      BY <3>1, <3>2
  <2> QED
    BY <1>w, <2>1, <2>2, <2>3 DEF Busy, Loaded, Recorded, Announced, Counted
<1>7. ASSUME NEW p \in Replicas, PublishFeatures(p) \/ PublishMetrics(p) \/ PublishFails(p)
      PROVE  GoesOn /\ \A q \in Replicas : Holds(q)' /\ InStep(q)'
  <2>1. Local(p) /\ UNCHANGED <<current, audio, next>>
    BY <1>7, <1>p, <1>t
       DEF PublishFeatures, PublishMetrics, PublishFails, Local, kafka, memory
  <2>2. /\ pc[p] \in {"features", "metrics"} /\ Event(p).form = "valid"
        /\ audio[p] = Event(p).content /\ next[p] # {} /\ Run(p) \in Runs
        /\ pc[p] = "metrics" => FeatureOf(p) \in features
    BY <1>7, <1>t, <1>e DEF PublishFeatures, PublishMetrics, PublishFails, Holds, Busy, Loaded,
       Recorded, Announced
  <2>3. GoesOn
    <3>1. ratio' = ratio \/ ratio' = [ratio EXCEPT ![Run(p)] = next[p]]
      BY <1>7 DEF PublishFeatures, PublishMetrics, PublishFails
    <3>2. features \subseteq features' /\ ready' = ready
      BY <1>7, <2>1 DEF PublishFeatures, PublishMetrics, PublishFails, Local
    <3>3. ratio \in [Runs -> SUBSET Outcomes]
      BY <1>t DEF TypeOK
    <3>4. \A r \in Runs : ratio[r] # {} => ratio'[r] # {}
      BY <2>2, <3>1, <3>3
    <3> QED
      BY <3>2, <3>4 DEF GoesOn
  <2>4. FeatureOf(p)' = FeatureOf(p)
    BY <2>1 DEF FeatureOf, Event, Local
  <2>5. \/ pc'[p] = "metrics" /\ FeatureOf(p) \in features'
        \/ /\ pc'[p] \in {"persist", "offset"} /\ ratio'[Run(p)] # {}
           /\ FeatureOf(p) \in features'
        \/ pc'[p] = "failed" /\ failure'[p] # "none"
    BY <1>7, <1>p, <1>t, <2>2
       DEF PublishFeatures, PublishMetrics, PublishFails, AfterMetrics, TypeOK
  <2> QED
    BY <1>w, <2>1, <2>2, <2>3, <2>4, <2>5 DEF Busy, Loaded, Recorded, Announced, Counted
<1>8. ASSUME NEW p \in Replicas, PersistTemp(p) \/ ReplaceState(p) \/ PersistFails(p)
      PROVE  GoesOn /\ \A q \in Replicas : Holds(q)' /\ InStep(q)'
  <2>1. /\ Local(p) /\ UNCHANGED <<current, audio, next, features, ratio>>
        /\ pc[p] \in {"persist", "replace"}
    BY <1>8, <1>p, <1>t
       DEF PersistTemp, ReplaceState, PersistFails, Local, kafka, topics, memory
  <2>2. FeatureOf(p)' = FeatureOf(p) /\ GoesOn
    BY <1>g, <2>1 DEF FeatureOf, Event, Local
  <2>3. \/ pc'[p] \in {"replace", "offset"}
        \/ pc'[p] = "failed" /\ failure'[p] # "none"
    BY <1>8, <1>p DEF PersistTemp, ReplaceState, PersistFails
  <2> QED
    BY <1>w, <1>t, <2>1, <2>2, <2>3 DEF Holds, Busy, Loaded, Recorded, Announced, Counted
<1>9. ASSUME NEW p \in Replicas, CommitOffset(p)
      PROVE  GoesOn /\ \A q \in Replicas : Holds(q)' /\ InStep(q)'
  <2>1. /\ owner = p /\ owner' = p /\ pc[p] = "offset" /\ committed' = current[p]
        /\ pc'[p] = "idle"
        /\ UNCHANGED <<ready, position, features, ratio, audio, next, failure>>
    BY <1>9, <1>p DEF CommitOffset, topics, memory
  <2>2. \A q \in Replicas \ {p} : Apart(q)
    BY <1>9, <1>p, <1>t, <2>1 DEF CommitOffset, Apart, TypeOK
  <2>3. Holds(p)' /\ InStep(p)'
    BY <1>t, <2>1 DEF Holds, InStep, Busy, Loaded, Recorded, Announced, Counted
  <2> QED
    BY <1>f, <1>g, <2>1, <2>2, <2>3
<1>10. ASSUME NEW p \in Replicas,
              \/ OffsetCommitFenced(p) \/ OffsetCommitFails(p) \/ EmitFailureMetric(p)
              \/ EmitFailureMetricFails(p) \/ Crash(p)
       PROVE  GoesOn /\ \A q \in Replicas : Holds(q)' /\ InStep(q)'
  BY <1>10, <1>d DEF OffsetCommitFenced, OffsetCommitFails, EmitFailureMetric,
     EmitFailureMetricFails, Crash, topics
<1>11. CASE UNCHANGED vars
  <2>1. GoesOn /\ \A q \in Replicas : Apart(q)
    BY <1>11, <1>g DEF Apart, vars, kafka, topics, progress, memory
  <2> QED
    BY <1>t, <2>1, Frame
<1> QED
  BY <1>1, <1>2, <1>3, <1>4, <1>5, <1>6, <1>7, <1>8, <1>9, <1>10, <1>11, <1>12
     DEF Next, Work, Disrupt

\* A commit is of a record that has been published; nothing else is committed.
LEMMA CommitStep ==
    ASSUME Inv, [Next]_vars, GoesOn
    PROVE  committed' <= Len(ready') /\ CommittedIsPublished'
<1>t. TypeOK /\ committed <= Len(ready) /\ CommittedIsPublished
  BY DEF Inv
<1>1. ready \in Seq(Events) /\ Len(ready) \in Nat /\ committed \in Nat /\ committed' \in Nat
  <2>1. TypeOK'
    BY TypeStep
  <2> QED
    BY <1>t, <2>1 DEF TypeOK
<1>2. \A o \in 1..committed : ready[o] \in Events /\ RunOf[ready[o].segment] \in Runs
  <2>1. \A o \in 1..committed : ready[o] \in Events
    BY <1>t, <1>1
  <2> QED
    BY <2>1 DEF Events, Runs
<1>3. ASSUME NEW o \in 1..committed
      PROVE  /\ ready'[o] = ready[o] /\ ready[o].form = "valid"
             /\ \E f \in features' : f.segment = ready[o].segment /\ f.content = ready[o].content
             /\ ratio'[RunOf[ready[o].segment]] # {}
  <2>1. ready[o] \in CommittedEvents
    BY DEF CommittedEvents
  <2>2. /\ ready[o].form = "valid"
        /\ \E f \in features : f.segment = ready[o].segment /\ f.content = ready[o].content
        /\ ratio[RunOf[ready[o].segment]] # {}
    BY <1>t, <2>1 DEF CommittedIsPublished
  <2>3. o \in 1..Len(ready)
    BY <1>t, <1>1
  <2> QED
    BY <1>2, <2>2, <2>3 DEF GoesOn
<1>4. CASE UNCHANGED committed
  <2>1. committed' <= Len(ready')
    BY <1>t, <1>1, <1>4 DEF GoesOn
  <2>2. \A e \in CommittedEvents' : \E o \in 1..committed : e = ready'[o]
    BY <1>4 DEF CommittedEvents
  <2>3. CommittedIsPublished'
    BY <1>3, <2>2 DEF CommittedIsPublished
  <2> QED
    BY <2>1, <2>3
<1>5. ASSUME NEW p \in Replicas, pc[p] = "offset", owner = p, committed' = current[p],
             UNCHANGED ready
      PROVE  committed' <= Len(ready') /\ CommittedIsPublished'
  <2>1. /\ current[p] \in 1..Len(ready) /\ current[p] = committed + 1
        /\ Event(p).form = "valid" /\ audio[p] = Event(p).content
        /\ FeatureOf(p) \in features /\ ratio[Run(p)] # {}
    BY <1>5 DEF Inv, Holds, InStep, Busy, Loaded, Announced, Counted
  <2>2. /\ FeatureOf(p) \in features' /\ ratio'[RunOf[Event(p).segment]] # {}
        /\ FeatureOf(p).segment = Event(p).segment /\ FeatureOf(p).content = Event(p).content
    <3>1. Run(p) \in Runs
      BY <1>t, <2>1, EventsAreSound
    <3> QED
      BY <2>1, <3>1 DEF GoesOn, FeatureOf, Run
  <2>3. \A o \in 1..committed' : o \in 1..committed \/ o = current[p]
    BY <1>1, <1>5, <2>1
  <2>4. ASSUME NEW o \in 1..committed'
        PROVE  /\ ready'[o].form = "valid"
               /\ \E f \in features' : f.segment = ready'[o].segment /\ f.content = ready'[o].content
               /\ ratio'[RunOf[ready'[o].segment]] # {}
    BY <1>3, <1>5, <2>1, <2>2, <2>3 DEF Event
  <2>5. committed' <= Len(ready')
    BY <1>5, <2>1
  <2> QED
    BY <2>4, <2>5 DEF CommittedIsPublished, CommittedEvents
<1>6. \/ UNCHANGED committed
      \/ \E p \in Replicas : /\ pc[p] = "offset" /\ owner = p /\ committed' = current[p]
                             /\ UNCHANGED ready
  <2>1. ASSUME NEW s \in Segments, BeginRewrite(s) \/ FinishWrite(s) \/ Publish(s)
        PROVE  UNCHANGED committed
    BY <2>1 DEF BeginRewrite, FinishWrite, Publish, kafka
  <2>2. ASSUME NEW p \in Replicas, Start(p) \/ Assign(p) \/ Poll(p) \/ Revoke(p) \/ Evict(p)
        PROVE  UNCHANGED committed
    BY <2>2 DEF Start, Assign, Poll, Revoke, Evict, kafka
  <2>3. ASSUME NEW p \in Replicas,
               \/ Load(p) \/ LoadUnready(p) \/ RecordSuccess(p) \/ PublishFeatures(p)
               \/ PublishMetrics(p) \/ PublishFails(p) \/ PersistTemp(p) \/ ReplaceState(p)
               \/ PersistFails(p) \/ LoadRejected(p) \/ LoadFails(p)
        PROVE  UNCHANGED committed
    BY <2>3, LoadEnds DEF Load, LoadUnready, RecordSuccess, PublishFeatures, PublishMetrics,
       PublishFails, PersistTemp, ReplaceState, PersistFails, kafka
  <2>4. ASSUME NEW p \in Replicas,
               \/ OffsetCommitFenced(p) \/ EmitFailureMetric(p) \/ EmitFailureMetricFails(p)
               \/ Crash(p)
        PROVE  UNCHANGED committed
    BY <2>4 DEF OffsetCommitFenced, EmitFailureMetric, EmitFailureMetricFails, Crash
  <2>5. ASSUME NEW p \in Replicas, CommitOffset(p) \/ OffsetCommitFails(p)
        PROVE  \/ UNCHANGED committed
               \/ /\ pc[p] = "offset" /\ owner = p /\ committed' = current[p]
                  /\ UNCHANGED ready
    BY <2>5 DEF CommitOffset, OffsetCommitFails, Gone
  <2>6. CASE UNCHANGED vars
    BY <2>6 DEF vars, kafka
  <2> QED
    BY <2>1, <2>2, <2>3, <2>4, <2>5, <2>6 DEF Next, Work, Disrupt
<1> QED
  BY <1>4, <1>5, <1>6

\* Features are added one at a time, from the audio the replica has loaded.
LEMMA FeaturesStep ==
    ASSUME Inv, [Next]_vars
    PROVE  \/ UNCHANGED features
           \/ \E p \in Replicas : /\ features' = features \cup {FeatureOf(p)}
                                  /\ pc[p] = "features" /\ audio[p] = Event(p).content
<1>1. ASSUME NEW s \in Segments, BeginRewrite(s) \/ FinishWrite(s) \/ Publish(s)
      PROVE  UNCHANGED features
  BY <1>1 DEF BeginRewrite, FinishWrite, Publish, topics
<1>2. ASSUME NEW p \in Replicas, Start(p) \/ Assign(p) \/ Poll(p) \/ Revoke(p) \/ Evict(p)
      PROVE  UNCHANGED features
  BY <1>2 DEF Start, Assign, Poll, Revoke, Evict, topics
<1>3. ASSUME NEW p \in Replicas,
             \/ Load(p) \/ LoadUnready(p) \/ RecordSuccess(p) \/ PublishMetrics(p)
             \/ PersistTemp(p) \/ ReplaceState(p) \/ PersistFails(p)
             \/ LoadRejected(p) \/ LoadFails(p)
      PROVE  UNCHANGED features
  BY <1>3, LoadEnds DEF Load, LoadUnready, RecordSuccess, PublishMetrics, PersistTemp, ReplaceState,
     PersistFails, topics
<1>4. ASSUME NEW p \in Replicas,
             \/ CommitOffset(p) \/ OffsetCommitFenced(p) \/ OffsetCommitFails(p)
             \/ EmitFailureMetric(p) \/ EmitFailureMetricFails(p) \/ Crash(p)
      PROVE  UNCHANGED features
  BY <1>4 DEF CommitOffset, OffsetCommitFenced, OffsetCommitFails, EmitFailureMetric,
     EmitFailureMetricFails, Crash, topics
<1>5. ASSUME NEW p \in Replicas, PublishFeatures(p) \/ PublishFails(p)
      PROVE  \/ UNCHANGED features
             \/ /\ features' = features \cup {FeatureOf(p)}
                /\ pc[p] = "features" /\ audio[p] = Event(p).content
  BY <1>5 DEF PublishFeatures, PublishFails, Inv, Holds, Loaded
<1>6. CASE UNCHANGED vars
  BY <1>6 DEF vars, topics
<1> QED
  BY <1>1, <1>2, <1>3, <1>4, <1>5, <1>6 DEF Next, Work, Disrupt

\* The conjuncts together are inductive.
LEMMA StepInv == Inv /\ [Next]_vars => Inv'
<1> SUFFICES ASSUME Inv, [Next]_vars PROVE Inv'
  OBVIOUS
<1>1. TypeOK'
  BY TypeStep
<1>2. GoesOn /\ \A p \in Replicas : Holds(p)' /\ InStep(p)'
  BY HoldStep
<1>3. committed' <= Len(ready') /\ CommittedIsPublished'
  BY <1>2, CommitStep
<1>4. FeaturesMatchChecksum'
  BY FeaturesStep DEF Inv, FeaturesMatchChecksum, FeatureOf
<1> QED
  BY <1>1, <1>2, <1>3, <1>4 DEF Inv

(***************************************************************************)
(* The inductive invariant of a service with any number of replicas: what  *)
(* each of them holds of its record, and that only the owner's record, the *)
(* next one, can be committed.                                             *)
(***************************************************************************)
THEOREM Invariance == Spec => []Inv
<1> QED
  BY InitInv, StepInv, PTL DEF Spec

(***************************************************************************)
(* Every variable of the processing service keeps its type.                *)
(***************************************************************************)
THEOREM TypeCorrect == Spec => []TypeOK
<1>1. Inv => TypeOK
  BY DEF Inv
<1> QED
  BY Invariance, <1>1, PTL

(***************************************************************************)
(* With any number of replicas, evicted ones among them: an offset is      *)
(* committed only after the features of its segment and a silent ratio of  *)
(* its run have been published.                                            *)
(***************************************************************************)
THEOREM OffsetsFollowPublication == Spec => []CommittedIsPublished
<1>1. Inv => CommittedIsPublished
  BY DEF Inv
<1> QED
  BY Invariance, <1>1, PTL

(***************************************************************************)
(* Whatever ingestion does to the artifacts meanwhile: features are of the *)
(* bytes whose checksum they carry.                                        *)
(***************************************************************************)
THEOREM FeaturesAreOfTheirBytes == Spec => []FeaturesMatchChecksum
<1>1. Inv => FeaturesMatchChecksum
  BY DEF Inv
<1> QED
  BY Invariance, <1>1, PTL
-----------------------------------------------------------------------------
(***************************************************************************)
(* The second part is about a service that is not scaled: at most one      *)
(* replica, however often it is stopped, fenced and restarted.  What it    *)
(* remembers of a run is then what the state file says (Memory), and all   *)
(* that has been published beyond the state file is of the record after    *)
(* the last committed one (Unsaved).  With a second replica the first of   *)
(* these fails, which is what the run of a scaled service shows.           *)
(***************************************************************************)
Lone == \A p, q \in Replicas : p = q

Memory(p) ==
    /\ pc[p] \in Busy => current[p] = committed + 1
    /\ \A r \in loaded[p] : cache[p][r] = stateFile[r]
    /\ pc[p] \in Recorded =>
          /\ Run(p) \in loaded[p]
          /\ ~Drifted(stateFile[Run(p)], Outcome(p))
          /\ next[p] = stateFile[Run(p)] \cup {Outcome(p)}
    /\ pc[p] = "replace" => temp[Run(p)] = {next[p]}
    /\ pc[p] \in Counted => ratio[Run(p)] = next[p]
    /\ pc[p] = "offset" => Outcome(p) \in stateFile[Run(p)]

\* A state file has one outcome for a segment, of its run, and the ratio counts it.
FileIsSound ==
    \A r \in Runs :
        /\ \A x \in stateFile[r] : RunOf[x.segment] = r
        /\ \A x, y \in stateFile[r] : x.segment = y.segment => x.silent = y.silent
        /\ stateFile[r] \subseteq ratio[r]

RatioIsPublished ==
    \A r \in Runs : \A x \in ratio[r] :
        \E f \in features : f.segment = x.segment /\ f.silent = x.silent

\* Features of the record after the last committed one that agree with the state file.
Unsaved(f) ==
    /\ committed + 1 <= Len(ready)
    /\ ready[committed + 1].segment = f.segment
    /\ ready[committed + 1].content = f.content
    /\ ~Drifted(stateFile[RunOf[f.segment]], [segment |-> f.segment, silent |-> f.silent])

FeaturesAreSaved ==
    \A f \in features :
        \/ [segment |-> f.segment, silent |-> f.silent] \in stateFile[RunOf[f.segment]]
        \/ Unsaved(f)

Stored ==
    /\ FileIsSound
    /\ RatioIsPublished
    /\ FeaturesAreSaved
    /\ StateCoversCommitted

LoneInv == Stored /\ \A p \in Replicas : Memory(p)

\* Nothing is stored or remembered at first.
LEMMA InitLone == Init => LoneInv
BY DEF Init, LoneInv, Stored, FileIsSound, RatioIsPublished, FeaturesAreSaved,
   StateCoversCommitted, CommittedSegments, CommittedEvents, Memory, Busy, Recorded, Counted

\* What is stored stays so when only the rest changes, and the log grows.
LEMMA StoredFrame ==
    ASSUME TypeOK, committed <= Len(ready), GoesOn, Stored,
           UNCHANGED <<features, ratio, stateFile, committed>>
    PROVE  Stored'
<1>1. ready \in Seq(Events) /\ Len(ready) \in Nat /\ committed \in Nat
  BY DEF TypeOK
<1>2. FileIsSound' /\ RatioIsPublished'
  BY DEF Stored, FileIsSound, RatioIsPublished
<1>3. \A f : Unsaved(f) => Unsaved(f)'
  BY <1>1 DEF Unsaved, GoesOn
<1>4. FeaturesAreSaved'
  BY <1>3 DEF Stored, FeaturesAreSaved
<1>5. CommittedEvents' = CommittedEvents
  BY <1>1 DEF CommittedEvents, GoesOn
<1>6. StateCoversCommitted'
  BY <1>5 DEF Stored, StateCoversCommitted, CommittedSegments
<1> QED
  BY <1>2, <1>4, <1>6 DEF Stored

\* In a lone replica the stored state moves only with its own record.
LEMMA MemoryStep ==
    ASSUME Lone, Inv, Inv', LoneInv, GoesOn, NEW p \in Replicas,
           Start(p) \/ Assign(p) \/ Poll(p) \/ Work(p) \/ Disrupt(p)
    PROVE  Stored' /\ Memory(p)'
<1>t. /\ TypeOK /\ committed <= Len(ready) /\ Holds(p) /\ InStep(p)
      /\ FeaturesMatchChecksum /\ Stored /\ Memory(p)
  BY DEF Inv, LoneInv
<1>r. ready \in Seq(Events) /\ Len(ready) \in Nat /\ committed \in Nat
  BY <1>t DEF TypeOK
<1>e. pc[p] \in Busy => Event(p) \in Events /\ Run(p) \in Runs /\ Event(p) = ready[committed + 1]
                        /\ committed + 1 <= Len(ready)
  BY <1>t, <1>r, EventsAreSound DEF Holds, Memory, Event
<1>p. /\ \A stage : GoTo(p, stage) => pc'[p] = stage
      /\ \A class : Fails(p, class) => pc'[p] = "failed"
  BY <1>t DEF GoTo, Fails, TypeOK
<1>s. UNCHANGED <<features, ratio, stateFile, committed>> => Stored'
  BY <1>t, StoredFrame
\* The end of a process.
<1>g. ASSUME Gone(p)
      PROVE  Memory(p)'
  <2>1. pc'[p] = "down" /\ loaded'[p] = {}
    BY <1>t, <1>g DEF Gone, GoTo, TypeOK
  <2> QED
    BY <2>1 DEF Memory, Busy, Recorded, Counted
\* A step that leaves the record and what is remembered alone.
<1>q. ASSUME UNCHANGED <<ready, committed, current, audio, loaded, cache, next, stateFile>>
      PROVE  /\ Event(p)' = Event(p) /\ Run(p)' = Run(p) /\ Outcome(p)' = Outcome(p)
             /\ \A r \in loaded'[p] : cache'[p][r] = stateFile'[r]
             /\ pc'[p] \in Busy /\ pc[p] \in Busy => current'[p] = committed' + 1
             /\ pc[p] \in Recorded =>
                   /\ Run(p)' \in loaded'[p]
                   /\ ~Drifted(stateFile[Run(p)], Outcome(p))'
                   /\ next'[p] = stateFile'[Run(p)'] \cup {Outcome(p)'}
  BY <1>t, <1>q DEF Memory, Event, Run, Outcome, Drifted
<1>1. CASE Start(p) \/ Assign(p) \/ Revoke(p)
  <2>1. /\ UNCHANGED <<features, ratio, stateFile, ready, committed, loaded, cache>>
        /\ pc'[p] = "idle"
    BY <1>1, <1>p DEF Start, Assign, Revoke, kafka, topics, disk, memory, progress
  <2> QED
    BY <1>s, <1>t, <2>1 DEF Memory, Busy, Recorded, Counted
<1>2. CASE Evict(p)
  <2>1. UNCHANGED <<ready, committed, topics, progress, memory, disk>>
    BY <1>2 DEF Evict
  <2> QED
    BY <1>s, <1>t, <2>1
       DEF Memory, topics, progress, memory, disk, Event, Run, Outcome, Drifted
<1>3. CASE Poll(p)
  <2>1. /\ owner = p /\ pc[p] = "idle" /\ current' = [current EXCEPT ![p] = position + 1]
        /\ UNCHANGED <<features, ratio, stateFile, committed, loaded, cache>>
    BY <1>3 DEF Poll, topics, memory, disk
  <2>2. current'[p] = committed + 1
    BY <1>t, <2>1 DEF InStep, TypeOK
  <2>3. pc'[p] \in {"load", "failed"}
    BY <1>3, <1>p DEF Poll
  <2> QED
    BY <1>s, <1>t, <2>1, <2>2, <2>3 DEF Memory, Busy, Recorded, Counted
<1>4. CASE Load(p) \/ LoadUnready(p)
  <2>1. /\ UNCHANGED <<features, ratio, stateFile, committed, current, loaded, cache>>
        /\ pc[p] = "load"
    BY <1>4 DEF Load, LoadUnready, kafka, topics, memory, disk
  <2>2. pc'[p] \in {"load", "record", "failed"}
    BY <1>4, <1>p, <2>1 DEF Load, LoadUnready
  <2> QED
    BY <1>s, <1>t, <2>1, <2>2 DEF Memory, Busy, Recorded, Counted
<1>17. CASE LoadRejected(p) \/ LoadFails(p)
  <2>1. /\ UNCHANGED <<features, ratio, stateFile, committed, current, loaded, cache>>
        /\ pc[p] = "load" /\ pc'[p] = "failed"
    BY <1>17, <1>p, LoadEnds DEF kafka, topics, memory, disk
  <2> QED
    BY <1>s, <1>t, <2>1 DEF Memory, Busy, Recorded, Counted
<1>5. CASE RecordSuccess(p)
  <2> DEFINE base == stateFile[Run(p)]
  <2>1. MetricsFor(p, Run(p)) = base
    BY <1>t DEF MetricsFor, Memory
  <2>2. /\ UNCHANGED <<features, ratio, stateFile, ready, committed, current, audio>>
        /\ pc[p] = "record"
        /\ loaded' = [loaded EXCEPT ![p] = @ \cup {Run(p)}]
        /\ cache' = [cache EXCEPT ![p][Run(p)] = base]
        /\ \/ Drifted(base, Outcome(p)) /\ pc'[p] = "failed"
           \/ /\ ~Drifted(base, Outcome(p)) /\ pc'[p] = "features"
              /\ next' = [next EXCEPT ![p] = base \cup {Outcome(p)}]
    BY <1>5, <1>p, <2>1 DEF RecordSuccess, kafka, topics, disk
  <2>3. Event(p)' = Event(p) /\ Run(p)' = Run(p) /\ Outcome(p)' = Outcome(p)
    BY <2>2 DEF Event, Run, Outcome
  <2>4. loaded'[p] = loaded[p] \cup {Run(p)}
    BY <1>t, <2>2 DEF TypeOK
  <2>5. \A r \in loaded'[p] : cache'[p][r] = stateFile'[r]
    <3>1. \A r \in Runs : cache'[p][r] = IF r = Run(p) THEN base ELSE cache[p][r]
      BY <1>t, <2>2 DEF TypeOK
    <3>2. loaded[p] \subseteq Runs /\ Run(p) \in Runs
      BY <1>t, <1>e, <2>2 DEF TypeOK, Busy
    <3> QED
      BY <1>t, <2>2, <2>4, <3>1, <3>2 DEF Memory
  <2>6. pc'[p] = "features" => next'[p] = base \cup {Outcome(p)}
    BY <1>t, <2>2 DEF TypeOK
  <2>7. current'[p] = committed' + 1
    BY <1>t, <2>2 DEF Memory, Busy
  <2>8. pc'[p] = "features" => ~Drifted(stateFile[Run(p)], Outcome(p))'
    BY <2>2, <2>3 DEF Drifted
  <2> QED
    BY <1>s, <2>2, <2>3, <2>4, <2>5, <2>6, <2>7, <2>8 DEF Memory, Busy, Recorded, Counted
<1>6. CASE PublishFeatures(p) \/ (PublishFails(p) /\ pc[p] = "features")
  <2>1. /\ UNCHANGED <<ready, committed, current, audio, loaded, cache, next, stateFile, ratio>>
        /\ pc[p] = "features"
        /\ features' \in {features, features \cup {FeatureOf(p)}}
        /\ pc'[p] \in {"metrics", "failed"}
    BY <1>6, <1>p DEF PublishFeatures, PublishFails, kafka, memory, disk
  <2>2. Memory(p)'
    BY <1>q, <1>t, <2>1 DEF Memory, Busy, Recorded, Counted
  <2>3. FileIsSound' /\ StateCoversCommitted'
    <3>1. FileIsSound'
      BY <1>t, <2>1 DEF Stored, FileIsSound
    <3>2. CommittedEvents' = CommittedEvents
      BY <2>1 DEF CommittedEvents
    <3>3. StateCoversCommitted'
      BY <1>t, <2>1, <3>2 DEF Stored, StateCoversCommitted, CommittedSegments
    <3> QED
      BY <3>1, <3>3
  <2>4. RatioIsPublished'
    BY <1>t, <2>1 DEF Stored, RatioIsPublished
  <2>5. Unsaved(FeatureOf(p))
    BY <1>e, <1>t, <2>1 DEF Unsaved, FeatureOf, Memory, Busy, Recorded, Run, Outcome
  <2>6. FeaturesAreSaved'
    <3>1. \A f : Unsaved(f)' = Unsaved(f)
      BY <2>1 DEF Unsaved, Drifted
    <3>2. \A f \in features' : f \in features \/ f = FeatureOf(p)
      BY <2>1
    <3> QED
      BY <1>t, <2>1, <2>5, <3>1, <3>2 DEF Stored, FeaturesAreSaved
  <2> QED
    BY <2>2, <2>3, <2>4, <2>6 DEF Stored
<1>7. CASE PublishMetrics(p) \/ (PublishFails(p) /\ pc[p] = "metrics")
  <2>1. /\ UNCHANGED <<ready, committed, current, audio, loaded, cache, next, stateFile, features>>
        /\ pc[p] = "metrics"
        /\ \/ UNCHANGED ratio /\ pc'[p] = "failed"
           \/ /\ ratio' = [ratio EXCEPT ![Run(p)] = next[p]]
              /\ pc'[p] \in {AfterMetrics(p), "failed"}
    BY <1>7, <1>p DEF PublishMetrics, PublishFails, kafka, memory, disk
  <2>2. /\ next[p] = stateFile[Run(p)] \cup {Outcome(p)} /\ Run(p) \in loaded[p]
        /\ FeatureOf(p) \in features /\ Run(p) \in Runs
    BY <1>e, <1>t, <2>1 DEF Memory, Holds, Busy, Recorded, Announced
  <2>3. /\ AfterMetrics(p) \in {"offset", "persist"}
        /\ AfterMetrics(p) = "offset" => Outcome(p) \in stateFile[Run(p)]
    BY <1>t, <2>2 DEF AfterMetrics, Memory
  <2>4. ratio' # ratio => \A r \in Runs : ratio'[r] = IF r = Run(p) THEN next[p] ELSE ratio[r]
    BY <1>t, <2>1 DEF TypeOK
  <2>5. Memory(p)'
    <3>1. pc'[p] \in Counted => ratio'[Run(p)] = next[p]
      BY <1>t, <2>1, <2>2 DEF Counted, TypeOK
    <3> QED
      BY <1>q, <1>t, <2>1, <2>3, <3>1 DEF Memory, Busy, Recorded, Counted
  <2>6. FileIsSound'
    BY <1>t, <2>1, <2>2, <2>4 DEF Stored, FileIsSound
  <2>7. \E f \in features : f.segment = Outcome(p).segment /\ f.silent = Outcome(p).silent
    BY <2>2 DEF FeatureOf, Outcome
  <2>8. RatioIsPublished'
    BY <1>t, <2>1, <2>2, <2>4, <2>7 DEF Stored, RatioIsPublished, FileIsSound
  <2>9. FeaturesAreSaved'
    <3>1. \A f : Unsaved(f)' = Unsaved(f)
      BY <2>1 DEF Unsaved, Drifted
    <3> QED
      BY <1>t, <2>1, <3>1 DEF Stored, FeaturesAreSaved
  <2>10. StateCoversCommitted'
    <3>1. CommittedEvents' = CommittedEvents
      BY <2>1 DEF CommittedEvents
    <3> QED
      BY <1>t, <2>1, <3>1 DEF Stored, StateCoversCommitted, CommittedSegments
  <2> QED
    BY <2>5, <2>6, <2>8, <2>9, <2>10 DEF Stored
<1>8. CASE PersistTemp(p) \/ PersistFails(p)
  <2>1. /\ UNCHANGED <<ready, committed, current, audio, loaded, cache, next, stateFile, features,
                       ratio>>
        /\ pc[p] \in {"persist", "replace"}
        /\ \/ pc'[p] = "failed"
           \/ pc'[p] = "replace" /\ temp' = [temp EXCEPT ![Run(p)] = {next[p]}]
    BY <1>8, <1>p DEF PersistTemp, PersistFails, kafka, topics, memory, disk
  <2>2. pc'[p] = "replace" => temp'[Run(p)] = {next[p]}
    BY <1>e, <1>t, <2>1 DEF TypeOK, Busy
  <2>3. Memory(p)'
    BY <1>q, <1>t, <2>1, <2>2 DEF Memory, Busy, Recorded, Counted
  <2> QED
    BY <1>s, <2>1, <2>3
<1>9. CASE ReplaceState(p)
  <2>1. /\ next[p] = stateFile[Run(p)] \cup {Outcome(p)} /\ Run(p) \in loaded[p]
        /\ temp[Run(p)] = {next[p]} /\ ratio[Run(p)] = next[p] /\ Run(p) \in Runs
        /\ ~Drifted(stateFile[Run(p)], Outcome(p)) /\ current[p] = committed + 1
        /\ audio[p] = Event(p).content /\ Event(p) = ready[committed + 1]
    BY <1>9, <1>e, <1>t DEF ReplaceState, Memory, Holds, Loaded, Busy, Recorded, Counted
  <2>2. /\ UNCHANGED <<ready, committed, current, audio, loaded, next, features, ratio>>
        /\ pc'[p] = "offset"
        /\ stateFile' = [stateFile EXCEPT ![Run(p)] = next[p]]
        /\ cache' = [cache EXCEPT ![p][Run(p)] = next[p]]
    BY <1>9, <1>p, <2>1 DEF ReplaceState, kafka, topics
  <2>3. \A r \in Runs :
           /\ stateFile'[r] = IF r = Run(p) THEN next[p] ELSE stateFile[r]
           /\ cache'[p][r] = IF r = Run(p) THEN next[p] ELSE cache[p][r]
    BY <1>t, <2>2 DEF TypeOK
  <2>4. Event(p)' = Event(p) /\ Run(p)' = Run(p) /\ Outcome(p)' = Outcome(p)
    BY <2>2 DEF Event, Run, Outcome
  <2>5. Outcome(p).segment = Event(p).segment /\ RunOf[Event(p).segment] = Run(p)
        /\ Outcome(p).silent = (Event(p).content \in Silent)
    BY <2>1 DEF Outcome, Run
  <2>6. FileIsSound'
    BY <1>t, <2>1, <2>2, <2>3, <2>5 DEF Stored, FileIsSound, Drifted
  <2>7. ~Drifted(stateFile[Run(p)], Outcome(p))'
    BY <2>1, <2>3, <2>4 DEF Drifted
  <2>8. Memory(p)'
    <3>1. \A r \in loaded'[p] : cache'[p][r] = stateFile'[r]
      BY <1>t, <2>2, <2>3 DEF Memory, TypeOK
    <3> QED
      BY <2>1, <2>2, <2>3, <2>4, <2>7, <3>1 DEF Memory, Busy, Recorded, Counted
  <2>9. FeaturesAreSaved'
    <3> SUFFICES ASSUME NEW f \in features
                 PROVE  \/ [segment |-> f.segment, silent |-> f.silent]
                              \in stateFile'[RunOf[f.segment]]
                        \/ Unsaved(f)'
      BY <2>2 DEF FeaturesAreSaved
    <3> DEFINE saved == [segment |-> f.segment, silent |-> f.silent]
    <3>1. f \in Features /\ RunOf[f.segment] \in Runs
      BY <1>t DEF TypeOK, Features, Runs
    <3>2. CASE saved \in stateFile[RunOf[f.segment]]
      BY <2>1, <2>3, <3>1, <3>2
    <3>3. CASE Unsaved(f)
      <4>1. f.segment = Event(p).segment /\ f.content = Event(p).content
        BY <2>1, <3>3 DEF Unsaved
      <4>2. f.silent = (f.content \in Silent)
        BY <1>t DEF FeaturesMatchChecksum
      <4>3. saved = Outcome(p)
        BY <2>1, <4>1, <4>2 DEF Outcome
      <4> QED
        BY <2>1, <2>3, <2>5, <4>1, <4>3
    <3> QED
      BY <1>t, <3>2, <3>3 DEF Stored, FeaturesAreSaved
  <2>10. RatioIsPublished'
    BY <1>t, <2>2 DEF Stored, RatioIsPublished
  <2>11. StateCoversCommitted'
    BY <1>t, <2>1, <2>2, <2>3
       DEF Stored, StateCoversCommitted, CommittedSegments, CommittedEvents, SegmentsOf
  <2> QED
    BY <2>6, <2>8, <2>9, <2>10, <2>11 DEF Stored
\* A commit, with or without the process going on.
<1>c. ASSUME pc[p] = "offset", committed' = current[p],
             UNCHANGED <<ready, features, ratio, stateFile>>
      PROVE  Stored'
  <2>1. /\ Outcome(p) \in stateFile[Run(p)] /\ committed' = committed + 1
        /\ Event(p) = ready[committed + 1] /\ audio[p] = Event(p).content
        /\ committed + 1 <= Len(ready) /\ Run(p) \in Runs
    BY <1>c, <1>e, <1>t DEF Memory, Holds, Loaded, Busy
  <2>2. Outcome(p) = [segment |-> Event(p).segment, silent |-> Event(p).content \in Silent]
    BY <2>1 DEF Outcome
  <2>3. FeaturesAreSaved'
    <3> SUFFICES ASSUME NEW f \in features
                 PROVE  [segment |-> f.segment, silent |-> f.silent]
                              \in stateFile[RunOf[f.segment]]
      BY <1>c DEF FeaturesAreSaved
    <3>1. CASE Unsaved(f)
      <4>1. f.segment = Event(p).segment /\ f.content = Event(p).content
        BY <2>1, <3>1 DEF Unsaved
      <4>2. f.silent = (f.content \in Silent)
        BY <1>t DEF FeaturesMatchChecksum
      <4> QED
        BY <2>1, <2>2, <4>1, <4>2 DEF Run
    <3> QED
      BY <1>t, <3>1 DEF Stored, FeaturesAreSaved
  <2>4. CommittedEvents' = CommittedEvents \cup {Event(p)}
    <3>1. 1..committed' = 1..committed \cup {committed + 1}
      BY <1>r, <2>1
    <3> QED
      BY <1>c, <2>1, <3>1 DEF CommittedEvents
  <2>5. StateCoversCommitted'
    BY <1>c, <1>t, <2>1, <2>2, <2>4
       DEF Stored, StateCoversCommitted, CommittedSegments, SegmentsOf, Run
  <2>6. FileIsSound' /\ RatioIsPublished'
    BY <1>c, <1>t DEF Stored, FileIsSound, RatioIsPublished
  <2> QED
    BY <2>3, <2>5, <2>6 DEF Stored
<1>10. CASE CommitOffset(p)
  <2>1. /\ pc[p] = "offset" /\ committed' = current[p] /\ pc'[p] = "idle"
        /\ UNCHANGED <<ready, features, ratio, stateFile, loaded, cache>>
    BY <1>10, <1>p DEF CommitOffset, topics, memory, disk
  <2>2. Memory(p)'
    BY <1>t, <2>1 DEF Memory, Busy, Recorded, Counted
  <2> QED
    BY <1>c, <2>1, <2>2
<1>11. CASE OffsetCommitFails(p)
  <2>1. /\ pc[p] = "offset" /\ committed' \in {committed, current[p]} /\ Gone(p)
        /\ UNCHANGED <<ready, features, ratio, stateFile>>
    BY <1>11 DEF OffsetCommitFails, Gone, topics, disk
  <2> QED
    BY <1>c, <1>g, <1>s, <2>1
<1>12. CASE \/ OffsetCommitFenced(p) \/ EmitFailureMetric(p) \/ EmitFailureMetricFails(p)
            \/ Crash(p)
  <2>1. Gone(p) /\ UNCHANGED <<features, ratio, stateFile, committed>>
    BY <1>12 DEF OffsetCommitFenced, EmitFailureMetric, EmitFailureMetricFails, Crash, Gone,
       topics, disk
  <2> QED
    BY <1>g, <1>s, <2>1
<1>13. ASSUME PublishFails(p)
       PROVE  pc[p] = "features" \/ pc[p] = "metrics"
  BY <1>13 DEF PublishFails
<1>14. CASE PublishFails(p)
  BY <1>6, <1>7, <1>13, <1>14
<1>15. CASE Work(p)
  <2>1. \/ Load(p) \/ LoadUnready(p) \/ RecordSuccess(p) \/ PublishFeatures(p)
        \/ PublishMetrics(p) \/ PersistTemp(p) \/ ReplaceState(p) \/ CommitOffset(p)
        \/ OffsetCommitFenced(p) \/ EmitFailureMetric(p) \/ LoadRejected(p)
    BY <1>15 DEF Work
  <2> QED
    <3>1. CASE Load(p) \/ LoadUnready(p) \/ RecordSuccess(p)
      BY <1>4, <1>5, <3>1
    <3>2. CASE PublishFeatures(p)
      BY <1>6, <3>2
    <3>3. CASE PublishMetrics(p)
      BY <1>7, <3>3
    <3>4. CASE PersistTemp(p) \/ ReplaceState(p) \/ CommitOffset(p)
      BY <1>8, <1>9, <1>10, <3>4
    <3>5. CASE OffsetCommitFenced(p) \/ EmitFailureMetric(p)
      BY <1>12, <3>5
    <3>6. CASE LoadRejected(p)
      BY <1>17, <3>6
    <3> QED
      BY <2>1, <3>1, <3>2, <3>3, <3>4, <3>5, <3>6
<1>16. CASE Disrupt(p)
  <2>1. \/ Revoke(p) \/ Evict(p) \/ Crash(p) \/ PublishFails(p) \/ PersistFails(p)
        \/ OffsetCommitFails(p) \/ EmitFailureMetricFails(p) \/ LoadFails(p)
    BY <1>16 DEF Disrupt
  <2> QED
    BY <1>1, <1>2, <1>8, <1>11, <1>12, <1>14, <1>17, <2>1
<1> QED
  BY <1>1, <1>3, <1>15, <1>16

\* Nobody else moves what a lone replica remembers.
LEMMA StepLone ==
    ASSUME Lone, Inv, Inv', LoneInv, [Next]_vars
    PROVE  LoneInv'
<1>1. GoesOn
  BY HoldStep
<1>2. ASSUME UNCHANGED <<committed, topics, progress, memory, disk>>
      PROVE  LoneInv'
  <2>1. Stored'
    BY <1>1, <1>2, StoredFrame DEF LoneInv, Inv, topics, disk
  <2>2. ASSUME NEW p \in Replicas
        PROVE  Memory(p)'
    <3>1. pc[p] \in Busy => Event(p)' = Event(p)
      BY <1>1, <1>2 DEF Inv, Holds, GoesOn, Event, progress
    <3>2. pc[p] \in Busy => Run(p)' = Run(p) /\ Outcome(p)' = Outcome(p)
      BY <1>2, <3>1 DEF Run, Outcome, memory
    <3> QED
      BY <1>2, <3>2
         DEF LoneInv, Memory, Drifted, topics, progress, memory, disk, Busy, Recorded, Counted
  <2> QED
    BY <2>1, <2>2 DEF LoneInv
<1>3. CASE \E s \in Segments : BeginRewrite(s) \/ FinishWrite(s) \/ Publish(s)
  BY <1>2, <1>3 DEF BeginRewrite, FinishWrite, Publish, kafka
<1>4. ASSUME NEW p \in Replicas, Start(p) \/ Assign(p) \/ Poll(p) \/ Work(p) \/ Disrupt(p)
      PROVE  LoneInv'
  <2>1. Stored' /\ Memory(p)'
    BY <1>1, <1>4, MemoryStep
  <2> QED
    BY <2>1 DEF LoneInv, Lone
<1>5. CASE UNCHANGED vars
  BY <1>2, <1>5 DEF vars, kafka
<1> QED
  BY <1>3, <1>4, <1>5 DEF Next

(***************************************************************************)
(* The inductive invariant of a service with one replica: its memory, the  *)
(* state file and the silent ratio agree but for the record in work.       *)
(***************************************************************************)
THEOREM LoneInvariance == ASSUME Lone PROVE Spec => []LoneInv
<1>1. Inv /\ Inv' /\ LoneInv /\ [Next]_vars => LoneInv'
  BY StepLone
<1> QED
  BY InitLone, <1>1, Invariance, PTL DEF Spec

(***************************************************************************)
(* With one replica, stopped and restarted at any point: the state file    *)
(* has every segment that will not be delivered again.                     *)
(***************************************************************************)
THEOREM StateIsComplete == ASSUME Lone PROVE Spec => []StateCoversCommitted
<1>1. LoneInv => StateCoversCommitted
  BY DEF LoneInv, Stored
<1> QED
  BY LoneInvariance, <1>1, PTL

(***************************************************************************)
(* With one replica: the silent ratio on display counts every committed    *)
(* segment, and nothing that was not published.                            *)
(***************************************************************************)
THEOREM RatioIsStable == ASSUME Lone PROVE Spec => []RatioIsReplayStable
<1>1. LoneInv => RatioIsReplayStable
  BY DEF LoneInv, Stored, FileIsSound, StateCoversCommitted, RatioIsPublished,
     RatioIsReplayStable, SegmentsOf
<1> QED
  BY LoneInvariance, <1>1, PTL

(***************************************************************************)
(* With one replica: no two features events of a segment disagree about    *)
(* its silence, whatever is ingested again.                                *)
(***************************************************************************)
THEOREM FlagIsStable == ASSUME Lone PROVE Spec => []SilentFlagIsStable
<1>1. Inv /\ LoneInv => SilentFlagIsStable
  <2> SUFFICES ASSUME Inv, LoneInv, NEW f \in features, NEW g \in features,
                      f.segment = g.segment
               PROVE  f.silent = g.silent
    BY DEF SilentFlagIsStable
  <2> DEFINE saved(h) == [segment |-> h.segment, silent |-> h.silent]
             file == stateFile[RunOf[f.segment]]
  <2>0. ASSUME NEW h, saved(h) \in file, NEW k, Unsaved(k),
               h.segment = f.segment, k.segment = f.segment
        PROVE  h.silent = k.silent
    <3>1. ~Drifted(file, saved(k))
      BY <2>0 DEF Unsaved
    <3>2. saved(h).segment = saved(k).segment => saved(h).silent = saved(k).silent
      BY <2>0, <3>1 DEF Drifted
    <3> QED
      BY <2>0, <3>2
  <2>1. /\ f.silent = (f.content \in Silent) /\ g.silent = (g.content \in Silent)
        /\ RunOf[f.segment] \in Runs
    BY DEF Inv, FeaturesMatchChecksum, TypeOK, Features, Runs
  <2>2. /\ saved(f) \in file \/ Unsaved(f)
        /\ saved(g) \in file \/ Unsaved(g)
    BY DEF LoneInv, Stored, FeaturesAreSaved
  <2>3. CASE saved(f) \in file /\ saved(g) \in file
    BY <2>1, <2>3 DEF LoneInv, Stored, FileIsSound
  <2>4. CASE Unsaved(f) /\ Unsaved(g)
    BY <2>1, <2>4 DEF Unsaved
  <2>5. CASE (saved(f) \in file /\ Unsaved(g)) \/ (Unsaved(f) /\ saved(g) \in file)
    BY <2>0, <2>5
  <2>6. \/ saved(f) \in file /\ saved(g) \in file
        \/ Unsaved(f) /\ Unsaved(g)
        \/ (saved(f) \in file /\ Unsaved(g)) \/ (Unsaved(f) /\ saved(g) \in file)
    BY <2>2
  <2> QED
    BY <2>3, <2>4, <2>5, <2>6
<1> QED
  BY Invariance, LoneInvariance, <1>1, PTL
=============================================================================
