---------------------------- MODULE WriterProofs ----------------------------
(***************************************************************************)
(* Proofs about Writer.tla, for any set of members, identities, versions,  *)
(* forms and any bound on the logs and the disruptions.                    *)
(*                                                                         *)
(* None of the safety properties is inductive alone.  An offset may be     *)
(* committed because the transaction of its record has been installed      *)
(* (OffsetFollowsTransaction) and everything before it was committed by    *)
(* the same owner or earlier (OwnerIsInStep).  A transaction may insert    *)
(* because what its statement saw is still what is committed               *)
(* (FoundIsCurrent), which holds because whoever could change it needs a   *)
(* lock the transaction holds (LocksAreExclusive).  IndInv puts these      *)
(* together; one lemma per action shows that the action preserves it, and  *)
(* the theorems read the safety properties off it.                         *)
(*                                                                         *)
(* Two results need more.  That no sample of an append-only metric is lost *)
(* is a count over the log (SamplesKept), carried next to IndInv.  That    *)
(* the writer implements EventSink holds while no member outlives its      *)
(* assignment (NoEvictions), and needs that checkpoints, rows and offsets  *)
(* are never more than one event apart (InOrder).                          *)
(***************************************************************************)
EXTENDS Writer, SequenceTheorems, FiniteSetTheorems, TLAPS

\* IndInv holds initially: nothing is published, held or stored.
LEMMA InitInd == Init => IndInv
<1> SUFFICES ASSUME Init PROVE IndInv
  OBVIOUS
<1> USE DEF Init
<1>1. TypeOK
  BY KeysAssumption, BoundsAssumption, WritersAssumption
     DEF TypeOK, Topics, Stages, InTransaction, Statements, NoRecord, Locks
<1>2. LogIsSound
  BY BoundsAssumption DEF LogIsSound
<1>3. RecordIsSound
  BY DEF RecordIsSound, Busy, Stages, InTransaction, Statements
<1>4. OwnerIsInStep
  BY WritersAssumption DEF OwnerIsInStep
<1>5. LocksAreExclusive
  BY DEF LocksAreExclusive
<1>6. FoundIsCurrent
  BY DEF FoundIsCurrent, Executed
<1>7. OffsetFollowsTransaction
  BY DEF OffsetFollowsTransaction
<1>8. CommittedIsPersisted /\ InvalidBlocks
  BY DEF CommittedIsPersisted, InvalidBlocks
<1>9. CheckpointIsPersisted
  BY DEF CheckpointIsPersisted
<1>10. OneRowPerIdentity
  BY DEF OneRowPerIdentity
<1> QED
  BY <1>1, <1>2, <1>3, <1>4, <1>5, <1>6, <1>7, <1>8, <1>9, <1>10 DEF IndInv

-----------------------------------------------------------------------------
(***************************************************************************)
(* What the conjuncts of IndInv about members say of one member.           *)
(***************************************************************************)
MemberSound(w) ==
    /\ pc[w] \in Busy => /\ current[w] \in Records
                         /\ current[w].offset <= Len(log[current[w].topic])
    /\ pc[w] \in InTransaction \cup {"offset"} => Event(w).form = "valid"
    /\ pc[w] = "failed" => failure[w] \in FailureClasses
    /\ pc[w] \notin InTransaction => held[w] = {}
    /\ found[w] \subseteq Executed(pc[w])
    /\ \A s \in Executed(pc[w]) : LocksOf(w, s) \subseteq held[w]
    /\ \A l \in held[w] : \E s \in Executed(pc[w]) : l \in LocksOf(w, s)
    /\ "payload" \in Executed(pc[w]) =>
          ("payload" \in found[w] <=> /\ rows[Event(w).key] # <<>>
                                     /\ Event(w).key \notin AppendOnly)
    /\ \A s \in Executed(pc[w]) \cap SuccessMetrics : (s \in found[w] <=> own[Own(s, w)] > 0)
    /\ pc[w] = "offset" =>
          /\ Persisted(current[w].topic, current[w].offset)
          /\ checkpoint[current[w].topic][RunOf[Event(w).key]] > 0

\* Locks kept apart, the other half of LocksAreExclusive.
Apart == \A w, v \in Writers : w # v => held[w] \cap held[v] = {}

Grouped ==
    /\ TypeOK /\ LogIsSound /\ OwnerIsInStep /\ Apart
    /\ \A w \in Writers : MemberSound(w)
    /\ CommittedIsPersisted /\ CheckpointIsPersisted
    /\ OneRowPerIdentity /\ InvalidBlocks

\* IndInv, regrouped by what one step of one member can disturb.
LEMMA Regroup == IndInv <=> Grouped
BY DEF IndInv, Grouped, RecordIsSound, FoundIsCurrent, OffsetFollowsTransaction,
       LocksAreExclusive, Apart, MemberSound

\* The same for the next state.
LEMMA RegroupNext == Grouped' => IndInv'
BY DEF IndInv, Grouped, RecordIsSound, FoundIsCurrent, OffsetFollowsTransaction,
       LocksAreExclusive, Apart, MemberSound

-----------------------------------------------------------------------------
(***************************************************************************)
(* What a step leaves alone: published events stay, the sink forgets       *)
(* nothing, and a member that takes no part is where it was.               *)
(***************************************************************************)
LogGrows ==
    \A t \in Topics :
        /\ Len(log'[t]) \in Nat
        /\ Len(log[t]) <= Len(log'[t])
        /\ \A o \in 1..Len(log[t]) : log'[t][o] = log[t][o]

SinkGrows ==
    /\ \A k \in Keys : rows[k] # <<>> => rows'[k] # <<>>
    /\ \A m \in OwnMetrics : own[m] = 1 => own'[m] = 1
    /\ \A t \in Topics, r \in Runs : checkpoint[t][r] > 0 => checkpoint'[t][r] > 0

Untouched(v) ==
    /\ pc'[v] = pc[v]
    /\ current'[v] = current[v]
    /\ failure'[v] = failure[v]
    /\ held'[v] = held[v]
    /\ found'[v] = found[v]

\* The rows behind what v's transaction has seen are as they were.
Undisturbed(v) ==
    /\ "payload" \in Executed(pc[v]) /\ Event(v).key \notin AppendOnly =>
          rows'[Event(v).key] = rows[Event(v).key]
    /\ \A s \in Executed(pc[v]) \cap SuccessMetrics : own'[Own(s, v)] = own[Own(s, v)]

\* A busy member works on an event of its topic.
LEMMA EventIsTyped ==
    ASSUME TypeOK, LogIsSound, NEW v \in Writers, MemberSound(v), pc[v] \in Busy
    PROVE  /\ current[v] \in Records
           /\ current[v].topic \in Topics
           /\ current[v].offset \in 1..Len(log[current[v].topic])
           /\ Event(v) \in Events
           /\ Event(v).key \in Keys
           /\ Event(v).version \in Versions
           /\ RunOf[Event(v).key] \in Runs
           /\ TopicOf[Event(v).key] = current[v].topic
           /\ \A name \in SuccessMetrics \cup FailureClasses : Own(name, v) \in OwnMetrics
<1>1. /\ current[v] \in Records
      /\ current[v].offset <= Len(log[current[v].topic])
  BY DEF MemberSound
<1>2. /\ current[v].topic \in Topics
      /\ current[v].offset \in 1..MaxLog
  BY <1>1 DEF Records, Offsets
<1>3. log[current[v].topic] \in Seq(Events)
  BY <1>2 DEF TypeOK
<1>4. current[v].offset \in 1..Len(log[current[v].topic])
  BY <1>1, <1>2, <1>3, BoundsAssumption
<1>5. Event(v) \in Events
  BY <1>3, <1>4 DEF Event
<1>6. Event(v).key \in Keys /\ Event(v).version \in Versions
  BY <1>5 DEF Events
<1>7. TopicOf[Event(v).key] = current[v].topic
  BY <1>2, <1>4 DEF LogIsSound, Event
<1>8. \A name \in SuccessMetrics \cup FailureClasses : Own(name, v) \in OwnMetrics
  BY <1>1 DEF Own, OwnMetrics
<1> QED
  BY <1>1, <1>2, <1>4, <1>5, <1>6, <1>7, <1>8 DEF Runs

\* The event of a member that takes no part is the same after the step.
LEMMA EventKept ==
    ASSUME TypeOK, LogIsSound, NEW v \in Writers, MemberSound(v), pc[v] \in Busy,
           LogGrows, current'[v] = current[v]
    PROVE  /\ Event(v)' = Event(v)
           /\ \A s : LocksOf(v, s)' = LocksOf(v, s)
           /\ \A s : Own(s, v)' = Own(s, v)
<1>1. Event(v)' = Event(v)
  BY EventIsTyped DEF LogGrows, Event
<1>2. \A s : Own(s, v)' = Own(s, v)
  BY DEF Own
<1> QED
  BY <1>1, <1>2 DEF LocksOf

\* What has been persisted stays persisted.
LEMMA PersistedKept ==
    ASSUME TypeOK, LogIsSound, LogGrows, SinkGrows,
           NEW t \in Topics, NEW o \in 1..Len(log[t]), Persisted(t, o)
    PROVE  /\ Persisted(t, o)'
           /\ log'[t][o] = log[t][o]
           /\ log[t][o].key \in Keys
           /\ RunOf[log[t][o].key] \in Runs
<1>1. log[t][o] \in Events
  BY DEF TypeOK
<1>2. log[t][o].key \in Keys /\ RunOf[log[t][o].key] \in Runs
  BY <1>1 DEF Events, Runs
<1>3. log'[t][o] = log[t][o]
  BY DEF LogGrows
<1>4. o \in Offsets
  BY BoundsAssumption DEF LogIsSound, Offsets, TypeOK
<1>5. \A name \in SuccessMetrics :
         [name |-> name, record |-> [topic |-> t, offset |-> o]] \in OwnMetrics
  BY <1>4 DEF OwnMetrics, Records
<1> QED
  BY <1>2, <1>3, <1>5 DEF Persisted, SinkGrows

\* A member that takes no part and whose rows nobody touches stays sound.
LEMMA OtherMember ==
    ASSUME TypeOK, LogIsSound, NEW v \in Writers, MemberSound(v),
           LogGrows, SinkGrows, Untouched(v), Undisturbed(v)
    PROVE  MemberSound(v)'
<1>1. CASE pc[v] \notin Busy
  <2>1. Executed(pc[v]) = {} /\ pc[v] \notin InTransaction /\ pc[v] # "offset" /\ pc[v] # "failed"
    BY <1>1 DEF Executed, Busy, Stages, InTransaction, Statements, TypeOK
  <2> QED
    BY <1>1, <2>1 DEF MemberSound, Untouched
<1>2. CASE pc[v] \in Busy
  <2>1. /\ Event(v)' = Event(v)
        /\ \A s : LocksOf(v, s)' = LocksOf(v, s)
        /\ \A s : Own(s, v)' = Own(s, v)
    BY <1>2, EventKept DEF Untouched
  <2>2. /\ current'[v] \in Records
        /\ current'[v].offset <= Len(log'[current'[v].topic])
    BY <1>2, EventIsTyped DEF Untouched, LogGrows, TypeOK
  <2>3. pc[v] = "offset" =>
          /\ Persisted(current[v].topic, current[v].offset)'
          /\ checkpoint'[current'[v].topic][RunOf[Event(v).key]] > 0
    <3> SUFFICES ASSUME pc[v] = "offset"
                 PROVE  /\ Persisted(current[v].topic, current[v].offset)'
                        /\ checkpoint'[current'[v].topic][RunOf[Event(v).key]] > 0
      OBVIOUS
    <3>1. PICK t, o : /\ t = current[v].topic /\ t \in Topics
                      /\ o = current[v].offset /\ o \in 1..Len(log[t])
      BY <1>2, EventIsTyped
    <3>2. Persisted(t, o) /\ checkpoint[t][RunOf[Event(v).key]] > 0
      BY <3>1 DEF MemberSound
    <3>3. Persisted(t, o)'
      BY <3>1, <3>2, PersistedKept
    <3>4. checkpoint'[t][RunOf[Event(v).key]] > 0
      BY <1>2, <3>1, <3>2, EventIsTyped DEF SinkGrows
    <3>5. current'[v].topic = t /\ current'[v].offset = o
      BY <3>1 DEF Untouched
    <3> QED
      BY <3>3, <3>4, <3>5
  <2>4. "payload" \in Executed(pc[v]) =>
          ("payload" \in found[v] <=> /\ rows'[Event(v).key] # <<>>
                                     /\ Event(v).key \notin AppendOnly)
    BY DEF MemberSound, Undisturbed
  <2>5. \A s \in Executed(pc[v]) \cap SuccessMetrics :
            (s \in found[v] <=> own'[Own(s, v)] > 0)
    BY DEF MemberSound, Undisturbed
  <2> QED
    BY <2>1, <2>2, <2>3, <2>4, <2>5 DEF MemberSound, Untouched
<1> QED
  BY <1>1, <1>2

\* A step that commits no offset keeps what IndInv says of committed offsets, of
\* the checkpoints it leaves alone, and of the members W that take no part.
LEMMA SinkFrame ==
    ASSUME IndInv, LogGrows, SinkGrows, UNCHANGED committed,
           NEW W \in SUBSET Writers, \A v \in W : Untouched(v) /\ Undisturbed(v)
    PROVE  /\ \A v \in W : MemberSound(v)'
           /\ CommittedIsPersisted'
           /\ InvalidBlocks'
           /\ \A t \in Topics, r \in Runs : \A o :
                  o = checkpoint[t][r] /\ o > 0 =>
                      o <= Len(log'[t]) /\ Persisted(t, o)' /\ RunOf[log'[t][o].key] = r
<1> USE Regroup DEF Grouped
<1>1. \A v \in W : MemberSound(v)'
  BY OtherMember
<1>2. \A t \in Topics : \A o \in 1..committed[t] : o \in 1..Len(log[t])
  BY DEF LogIsSound, TypeOK
<1>3. CommittedIsPersisted'
  BY <1>2, PersistedKept DEF CommittedIsPersisted, SinkGrows
<1>4. InvalidBlocks'
  BY <1>2 DEF InvalidBlocks, LogGrows
<1>5. ASSUME NEW t \in Topics, NEW r \in Runs, NEW o, o = checkpoint[t][r], o > 0
      PROVE  o <= Len(log'[t]) /\ Persisted(t, o)' /\ RunOf[log'[t][o].key] = r
  <2>1. o <= Len(log[t]) /\ Persisted(t, o) /\ RunOf[log[t][o].key] = r
    BY <1>5 DEF CheckpointIsPersisted
  <2>2. o \in 1..Len(log[t])
    BY <1>5, <2>1, BoundsAssumption DEF TypeOK
  <2>3. Persisted(t, o)' /\ log'[t][o] = log[t][o]
    BY <2>1, <2>2, PersistedKept
  <2>4. Len(log[t]) <= Len(log'[t])
    BY DEF LogGrows
  <2>5. o <= Len(log'[t])
    BY <2>2, <2>4 DEF LogGrows
  <2> QED
    BY <2>1, <2>3, <2>5
<1> QED
  BY <1>1, <1>3, <1>4, <1>5

\* The same for a step that leaves the database alone.
LEMMA Frame ==
    ASSUME IndInv, LogGrows, UNCHANGED <<committed, database>>,
           NEW W \in SUBSET Writers, \A v \in W : Untouched(v)
    PROVE  /\ \A v \in W : MemberSound(v)'
           /\ CommittedIsPersisted'
           /\ CheckpointIsPersisted'
           /\ OneRowPerIdentity'
           /\ InvalidBlocks'
<1>1. SinkGrows /\ \A v \in W : Undisturbed(v)
  BY DEF SinkGrows, Undisturbed, database
<1>2. OneRowPerIdentity'
  BY DEF IndInv, OneRowPerIdentity, database
<1>3. checkpoint' = checkpoint
  BY DEF database
<1>4. CheckpointIsPersisted'
  BY <1>1, <1>3, SinkFrame DEF CheckpointIsPersisted
<1> QED
  BY <1>1, <1>2, <1>4, SinkFrame

-----------------------------------------------------------------------------
(***************************************************************************)
(* Every action preserves IndInv, one lemma for each.                      *)
(***************************************************************************)
\* A log that does not change has not shrunk.
LEMMA LogKept ==
    ASSUME TypeOK, UNCHANGED log
    PROVE  LogGrows
BY DEF TypeOK, LogGrows

\* The counters of the disruptions keep their type.
LEMMA StrikesTyped ==
    ASSUME TypeOK, NEW d \in Disruptions, Strikes(d)
    PROVE  struck' \in [Disruptions -> Nat]
BY DEF Strikes, TypeOK

\* Publish preserves IndInv: an event is only ever added at the end.
LEMMA PublishInd ==
    ASSUME IndInv, NEW t \in Topics, Publish(t)
    PROVE  IndInv'
<1> USE Regroup, RegroupNext DEF Grouped
<1>1. PICK e : /\ e \in Events /\ TopicOf[e.key] = t
               /\ Len(log[t]) < MaxLog
               /\ log' = [log EXCEPT ![t] = Append(@, e)]
  BY BoundsAssumption DEF Publish, Events
<1>2. TypeOK'
  BY <1>1 DEF Publish, TypeOK, member, transaction, database
<1>3. /\ log'[t] \in Seq(Events) /\ log[t] \in Seq(Events)
      /\ Len(log'[t]) = Len(log[t]) + 1
      /\ log'[t][Len(log[t]) + 1] = e
      /\ \A o \in 1..Len(log[t]) : log'[t][o] = log[t][o]
      /\ \A s \in Topics \ {t} : log'[s] = log[s]
  BY <1>1 DEF TypeOK
<1>4. LogGrows
  <2> SUFFICES ASSUME NEW s \in Topics
               PROVE  /\ Len(log'[s]) \in Nat
                      /\ Len(log[s]) <= Len(log'[s])
                      /\ \A o \in 1..Len(log[s]) : log'[s][o] = log[s][o]
    BY DEF LogGrows
  <2>1. log[s] \in Seq(Events)
    BY DEF TypeOK
  <2>2. CASE s # t
    BY <1>3, <2>1, <2>2
  <2>3. CASE s = t
    BY <1>3, <2>1, <2>3
  <2> QED
    BY <2>2, <2>3
<1>5. LogIsSound'
  <2> SUFFICES ASSUME NEW s \in Topics
               PROVE  /\ Len(log'[s]) <= MaxLog
                      /\ committed[s] <= Len(log'[s])
                      /\ position[s] <= Len(log'[s])
                      /\ \A o \in 1..Len(log'[s]) : TopicOf[log'[s][o].key] = s
    BY DEF LogIsSound, Publish
  <2>1. CASE s # t
    BY <1>3, <2>1 DEF LogIsSound
  <2>2. CASE s = t
    <3>1. /\ Len(log[t]) \in Nat /\ committed[t] \in Nat /\ position[t] \in Nat
          /\ committed[t] <= Len(log[t]) /\ position[t] <= Len(log[t])
      BY <1>3 DEF LogIsSound, TypeOK
    <3>2. \A o \in 1..Len(log'[t]) : o \in 1..Len(log[t]) \/ o = Len(log[t]) + 1
      BY <1>3, <3>1
    <3>3. \A o \in 1..Len(log'[t]) : TopicOf[log'[t][o].key] = t
      BY <1>1, <1>3, <3>2 DEF LogIsSound
    <3> QED
      BY <1>1, <1>3, <2>2, <3>1, <3>3, BoundsAssumption
  <2> QED
    BY <2>1, <2>2
<1>6. OwnerIsInStep' /\ Apart'
  BY DEF Publish, OwnerIsInStep, Apart, member, transaction
<1>7. UNCHANGED <<committed, database>> /\ \A v \in Writers : Untouched(v)
  BY DEF Publish, member, transaction, Untouched
<1> QED
  BY <1>2, <1>4, <1>5, <1>6, <1>7, Frame

\* Start preserves IndInv.
LEMMA StartInd ==
    ASSUME IndInv, NEW w \in Writers, Start(w)
    PROVE  IndInv'
<1> USE Regroup, RegroupNext DEF Grouped
<1>1. /\ pc[w] = "down" /\ pc'[w] = "idle"
      /\ UNCHANGED <<kafka, current, failure, transaction, database, struck>>
      /\ \A v \in Writers \ {w} : Untouched(v)
  BY DEF Start, Untouched, TypeOK, transaction
<1>2. TypeOK'
  BY <1>1 DEF Start, TypeOK, kafka, transaction, database, Stages
<1>3. LogGrows /\ LogIsSound' /\ Apart'
  BY <1>1, LogKept DEF LogIsSound, Apart, kafka, transaction
<1>4. OwnerIsInStep'
  <2> SUFFICES ASSUME NEW t \in Topics, NEW v \in Writers, owner[t] = v
               PROVE  /\ pc'[v] # "down"
                      /\ IF pc'[v] \in Busy /\ current[v].topic = t
                         THEN /\ position[t] = current[v].offset
                              /\ committed[t] \in {position[t] - 1, position[t]}
                              /\ pc'[v] # "failed" => committed[t] = position[t] - 1
                         ELSE position[t] = committed[t]
    BY <1>1 DEF OwnerIsInStep, kafka
  <2>1. v # w
    BY <1>1 DEF OwnerIsInStep
  <2> QED
    BY <1>1, <2>1 DEF OwnerIsInStep, Untouched
<1>5. MemberSound(w)'
  <2>1. Executed(pc'[w]) = {} /\ pc'[w] \notin Busy /\ pc'[w] \notin InTransaction
    BY <1>1 DEF Executed, Busy, InTransaction, Statements
  <2>2. held[w] = {} /\ found[w] = {}
    BY <1>1 DEF MemberSound, Executed, InTransaction, Statements
  <2> QED
    BY <1>1, <2>1, <2>2 DEF MemberSound, Busy, transaction
<1>6. /\ \A v \in Writers \ {w} : MemberSound(v)'
      /\ CommittedIsPersisted' /\ CheckpointIsPersisted' /\ OneRowPerIdentity' /\ InvalidBlocks'
  <2>1. UNCHANGED <<committed, database>>
    BY <1>1 DEF kafka
  <2> QED
    BY <1>1, <1>3, <2>1, Frame
<1> QED
  BY <1>2, <1>3, <1>4, <1>5, <1>6

\* Assign preserves IndInv: the new owner resumes after the committed offset.
LEMMA AssignInd ==
    ASSUME IndInv, NEW t \in Topics, NEW w \in Writers, Assign(t, w)
    PROVE  IndInv'
<1> USE Regroup, RegroupNext DEF Grouped
<1>1. TypeOK'
  BY DEF Assign, TypeOK, member, transaction, database
<1>2. LogGrows /\ LogIsSound' /\ Apart'
  BY LogKept DEF Assign, LogIsSound, Apart, transaction, TypeOK
<1>3. OwnerIsInStep'
  BY DEF OwnerIsInStep, Assign, member, Busy, TypeOK
<1>4. UNCHANGED <<committed, database>> /\ \A v \in Writers : Untouched(v)
  BY DEF Assign, member, transaction, Untouched
<1> QED
  BY <1>1, <1>2, <1>3, <1>4, Frame

\* Revoke preserves IndInv.
LEMMA RevokeInd ==
    ASSUME IndInv, NEW t \in Topics, Revoke(t)
    PROVE  IndInv'
<1> USE Regroup, RegroupNext DEF Grouped
<1>1. TypeOK'
  BY StrikesTyped DEF Revoke, TypeOK, Disruptions, member, transaction, database
<1>2. LogGrows /\ LogIsSound' /\ Apart'
  BY LogKept DEF Revoke, LogIsSound, Apart, transaction
<1>3. OwnerIsInStep'
  BY WritersAssumption DEF OwnerIsInStep, Revoke, member, TypeOK
<1>4. UNCHANGED <<committed, database>> /\ \A v \in Writers : Untouched(v)
  BY DEF Revoke, member, transaction, Untouched
<1> QED
  BY <1>1, <1>2, <1>3, <1>4, Frame

\* What becomes of the topics of a member that is given up or gone.
LEMMA AbandonedFacts ==
    ASSUME TypeOK, NEW w \in Writers
    PROVE  /\ Abandoned(w) \in [Topics -> Writers \cup {NoWriter}]
           /\ \A t \in Topics : /\ Abandoned(w)[t] # w
                                /\ Abandoned(w)[t] \in Writers => Abandoned(w)[t] = owner[t]
BY WritersAssumption DEF Abandoned, TypeOK

\* Evict preserves IndInv: a member that owns nothing has nothing to be in step with.
LEMMA EvictInd ==
    ASSUME IndInv, NEW w \in Writers, Evict(w)
    PROVE  IndInv'
<1> USE Regroup, RegroupNext DEF Grouped
<1>1. TypeOK'
  BY AbandonedFacts, StrikesTyped DEF Evict, TypeOK, Disruptions, member, transaction, database
<1>2. LogGrows /\ LogIsSound' /\ Apart'
  BY LogKept DEF Evict, LogIsSound, Apart, transaction
<1>3. OwnerIsInStep'
  BY AbandonedFacts DEF OwnerIsInStep, Evict, member
<1>4. UNCHANGED <<committed, database>> /\ \A v \in Writers : Untouched(v)
  BY DEF Evict, member, transaction, Untouched
<1> QED
  BY <1>1, <1>2, <1>3, <1>4, Frame

\* Poll preserves IndInv: only a valid record enters a transaction.
LEMMA PollInd ==
    ASSUME IndInv, NEW w \in Writers, NEW t \in Topics, Poll(w, t)
    PROVE  IndInv'
<1> USE Regroup, RegroupNext DEF Grouped
<1> DEFINE o == position[t] + 1
<1>1. /\ pc[w] = "idle" /\ owner[t] = w
      /\ position[t] \in Nat /\ o \in 1..Len(log[t]) /\ o \in Offsets
      /\ log[t][o] \in Events
  BY BoundsAssumption DEF Poll, TypeOK, LogIsSound, Offsets
<1>2. /\ current'[w] = [topic |-> t, offset |-> o]
      /\ current'[w] \in Records
      /\ IF log[t][o].form = "valid"
         THEN pc'[w] = "payload" /\ failure'[w] = "none"
         ELSE pc'[w] = "failed" /\ failure'[w] = "envelope_invalid"
      /\ position' = [position EXCEPT ![t] = o]
      /\ UNCHANGED <<log, owner, committed, transaction, database, struck>>
      /\ \A v \in Writers \ {w} : Untouched(v)
  BY <1>1 DEF Poll, Validated, Untouched, transaction, TypeOK, Records
<1>3. TypeOK'
  BY <1>1, <1>2 DEF Poll, Validated, TypeOK, transaction, database, Stages, InTransaction,
                    Statements, FailureClasses
<1>4. LogGrows /\ LogIsSound' /\ Apart'
  BY <1>1, <1>2, LogKept DEF LogIsSound, Apart, transaction, TypeOK
<1>5. pc'[w] \in Busy /\ pc'[w] # "down"
  BY <1>2 DEF Busy, Stages, InTransaction, Statements
<1>6. OwnerIsInStep'
  <2> SUFFICES ASSUME NEW s \in Topics, NEW v \in Writers, owner[s] = v
               PROVE  /\ pc'[v] # "down"
                      /\ IF pc'[v] \in Busy /\ current'[v].topic = s
                         THEN /\ position'[s] = current'[v].offset
                              /\ committed[s] \in {position'[s] - 1, position'[s]}
                              /\ pc'[v] # "failed" => committed[s] = position'[s] - 1
                         ELSE position'[s] = committed[s]
    BY <1>2 DEF OwnerIsInStep
  <2>1. CASE v # w
    BY <1>1, <1>2, <2>1 DEF OwnerIsInStep, Untouched, TypeOK
  <2>2. CASE v = w
    <3>1. pc[w] \notin Busy
      BY <1>1 DEF Busy
    <3>2. position[s] = committed[s]
      BY <2>2, <3>1 DEF OwnerIsInStep
    <3> QED
      BY <1>1, <1>2, <1>5, <2>2, <3>2 DEF TypeOK
  <2> QED
    BY <2>1, <2>2
<1>7. MemberSound(w)'
  <2>1. /\ pc[w] \notin InTransaction /\ Executed(pc[w]) = {} /\ Executed(pc'[w]) = {}
        /\ pc'[w] # "offset"
    BY <1>1, <1>2 DEF Executed, InTransaction, Statements
  <2>2. held'[w] = {} /\ found'[w] = {}
    BY <1>2, <2>1 DEF MemberSound, transaction
  <2>3. pc'[w] \in InTransaction => Event(w)'.form = "valid"
    BY <1>2 DEF Event, InTransaction, Statements
  <2>4. pc'[w] = "failed" => failure'[w] \in FailureClasses
    BY <1>2 DEF FailureClasses
  <2> QED
    BY <1>1, <1>2, <2>1, <2>2, <2>3, <2>4 DEF MemberSound
<1> QED
  BY <1>2, <1>3, <1>4, <1>6, <1>7, Frame

\* The stages of the transaction, each after the statement before it.
LEMMA NextStage ==
    /\ Executed("payload") = {}
    /\ Executed("checkpoint") = Executed("payload") \cup {"payload"}
    /\ Executed("write_ms") = Executed("checkpoint") \cup {"checkpoint"}
    /\ Executed("rows_upserted") = Executed("write_ms") \cup {"write_ms"}
    /\ Executed("commit") = Executed("rows_upserted") \cup {"rows_upserted"}
    /\ \A s \in {"down", "idle", "offset", "failed"} : Executed(s) = {}
BY DEF Executed, Statements

\* Every lock a statement asks for is one of Locks.
LEMMA LocksAreTyped ==
    ASSUME TypeOK, LogIsSound, NEW w \in Writers, MemberSound(w), pc[w] \in Busy,
           NEW s \in Statements
    PROVE  LocksOf(w, s) \subseteq Locks
<1>1. CASE s = "payload"
  BY <1>1, EventIsTyped DEF LocksOf, Locks
<1>2. CASE s = "checkpoint"
  BY <1>2, EventIsTyped DEF LocksOf, Locks
<1>3. CASE s \in SuccessMetrics
  BY <1>3, EventIsTyped DEF LocksOf, Locks, SuccessMetrics
<1> QED
  BY <1>1, <1>2, <1>3 DEF Statements, SuccessMetrics

\* A member that stays busy with its record, and has not failed, is in step.
LEMMA StaysInStep ==
    ASSUME OwnerIsInStep, NEW w \in Writers, pc[w] \in Busy \ {"failed"},
           pc'[w] \in Busy, UNCHANGED <<kafka, current>>,
           \A v \in Writers \ {w} : pc'[v] = pc[v]
    PROVE  OwnerIsInStep'
<1> SUFFICES ASSUME NEW t \in Topics, NEW v \in Writers, owner[t] = v
             PROVE  /\ pc'[v] # "down"
                    /\ IF pc'[v] \in Busy /\ current[v].topic = t
                       THEN /\ position[t] = current[v].offset
                            /\ committed[t] \in {position[t] - 1, position[t]}
                            /\ pc'[v] # "failed" => committed[t] = position[t] - 1
                       ELSE position[t] = committed[t]
  BY DEF OwnerIsInStep, kafka
<1>1. CASE v # w
  BY <1>1 DEF OwnerIsInStep
<1>2. CASE v = w
  BY <1>2 DEF OwnerIsInStep, Busy
<1> QED
  BY <1>1, <1>2

\* A statement takes its locks and sees the rows they guard.
LEMMA ExecuteInd ==
    ASSUME IndInv, NEW w \in Writers, NEW s \in Statements, NEW met \in BOOLEAN, NEW stage,
           Execute(w, s, met, stage), stage \in InTransaction,
           Executed(stage) = Executed(s) \cup {s},
           s = "payload" => (met <=> rows[Event(w).key] # <<>> /\ Event(w).key \notin AppendOnly),
           s \in SuccessMetrics => (met <=> own[Own(s, w)] > 0)
    PROVE  IndInv'
<1> USE Regroup, RegroupNext DEF Grouped
<1>1. /\ pc[w] = s /\ pc'[w] = stage
      /\ current'[w] = current[w]
      /\ held' = [held EXCEPT ![w] = @ \cup LocksOf(w, s)]
      /\ held'[w] = held[w] \cup LocksOf(w, s)
      /\ found'[w] = IF met THEN found[w] \cup {s} ELSE found[w]
      /\ UNCHANGED <<kafka, current, failure, database, struck>>
      /\ \A v \in Writers \ {w} : Untouched(v)
  BY DEF Execute, Untouched, TypeOK
<1>2. /\ pc[w] \in InTransaction /\ pc[w] \in Busy \ {"failed"}
      /\ pc'[w] \in InTransaction /\ pc'[w] \in Busy
  BY <1>1 DEF InTransaction, Busy, Stages, Statements
<1>3. LocksOf(w, s) \in SUBSET Locks
  BY <1>2, LocksAreTyped
<1>4. TypeOK'
  <2>1. pc' \in [Writers -> Stages]
    BY DEF Execute, TypeOK, Stages
  <2>2. held' \in [Writers -> SUBSET Locks]
    BY <1>1, <1>3 DEF TypeOK
  <2>3. found' \in [Writers -> SUBSET Statements]
    BY DEF Execute, TypeOK
  <2> QED
    BY <1>1, <2>1, <2>2, <2>3 DEF TypeOK, kafka, database
<1>5. LogGrows /\ LogIsSound'
  BY <1>1, LogKept DEF LogIsSound, kafka
<1>6. OwnerIsInStep'
  BY <1>1, <1>2, StaysInStep DEF Untouched
<1>7. Apart'
  <2>1. \A v \in Writers \ {w} : LocksOf(w, s) \cap held[v] = {}
    BY DEF Execute, Obtainable
  <2>2. \A v \in Writers \ {w} : held'[v] = held[v] /\ held'[w] \cap held[v] = {}
    BY <1>1, <2>1 DEF Apart, Untouched
  <2> QED
    BY <2>2 DEF Apart
<1>8. MemberSound(w)'
  <2>1. /\ Event(w)' = Event(w)
        /\ \A x : LocksOf(w, x)' = LocksOf(w, x)
        /\ \A x : Own(x, w)' = Own(x, w)
    BY <1>1, <1>2, <1>5, EventKept
  <2>2. rows' = rows /\ own' = own /\ log' = log
    BY <1>1 DEF database, kafka
  <2>3. Executed(pc'[w]) = Executed(pc[w]) \cup {s} /\ s \notin Executed(pc[w])
    BY <1>1 DEF Executed, Statements
  <2>4. found'[w] \subseteq Executed(pc'[w])
    BY <1>1, <2>3 DEF MemberSound
  <2>5. /\ \A x \in Executed(pc'[w]) : LocksOf(w, x) \subseteq held'[w]
        /\ \A l \in held'[w] : \E x \in Executed(pc'[w]) : l \in LocksOf(w, x)
    BY <1>1, <2>3 DEF MemberSound
  <2>6. "payload" \in Executed(pc'[w]) =>
          ("payload" \in found'[w] <=> /\ rows[Event(w).key] # <<>>
                                      /\ Event(w).key \notin AppendOnly)
    BY <1>1, <2>3 DEF MemberSound
  <2>7. \A x \in Executed(pc'[w]) \cap SuccessMetrics : (x \in found'[w] <=> own[Own(x, w)] > 0)
    BY <1>1, <2>3 DEF MemberSound
  <2>8. pc'[w] # "offset" /\ pc'[w] # "failed" /\ Event(w).form = "valid"
    BY <1>2 DEF MemberSound, InTransaction, Statements
  <2> QED
    BY <1>1, <1>2, <2>1, <2>2, <2>4, <2>5, <2>6, <2>7, <2>8 DEF MemberSound
<1>9. UNCHANGED <<committed, database>>
  BY <1>1 DEF kafka
<1> QED
  BY <1>1, <1>4, <1>5, <1>6, <1>7, <1>8, <1>9, Frame

\* A transaction that ends leaves its member with neither locks nor memory.
LEMMA ReleaseFacts ==
    ASSUME TypeOK, Apart, NEW w \in Writers, Release(w)
    PROVE  /\ held'[w] = {} /\ found'[w] = {}
           /\ held' \in [Writers -> SUBSET Locks]
           /\ found' \in [Writers -> SUBSET Statements]
           /\ \A v \in Writers \ {w} : held'[v] = held[v] /\ found'[v] = found[v]
           /\ Apart'
BY DEF Release, TypeOK, Apart

\* A busy member that failed without committing anything is about to report it.
LEMMA FailsInd ==
    ASSUME IndInv, NEW w \in Writers, NEW class \in FailureClasses, Fails(w, class),
           Release(w), pc[w] \in Busy \ {"failed"},
           UNCHANGED <<kafka, current, database>>, struck' \in [Disruptions -> Nat]
    PROVE  IndInv'
<1> USE Regroup, RegroupNext DEF Grouped
<1>1. /\ pc'[w] = "failed" /\ failure'[w] = class /\ current'[w] = current[w]
      /\ \A v \in Writers \ {w} : Untouched(v)
  BY ReleaseFacts DEF Fails, Untouched, TypeOK
<1>2. TypeOK'
  BY ReleaseFacts DEF Fails, TypeOK, kafka, database, Stages
<1>3. LogGrows /\ LogIsSound'
  BY LogKept DEF LogIsSound, kafka
<1>4. OwnerIsInStep'
  BY <1>1, StaysInStep DEF Untouched, Busy, Stages
<1>5. MemberSound(w)'
  <2>1. Executed(pc'[w]) = {} /\ pc'[w] \notin InTransaction
    BY <1>1 DEF Executed, InTransaction, Statements
  <2>2. log' = log
    BY DEF kafka
  <2>3. /\ current[w] \in Records
        /\ current[w].offset <= Len(log[current[w].topic])
    BY DEF MemberSound
  <2> QED
    BY <1>1, <2>1, <2>2, <2>3, ReleaseFacts DEF MemberSound
<1>6. UNCHANGED <<committed, database>>
  BY DEF kafka
<1> QED
  BY <1>1, <1>2, <1>3, <1>4, <1>5, <1>6, ReleaseFacts, Frame

\* PersistPayload preserves IndInv.
LEMMA PersistPayloadInd ==
    ASSUME IndInv, NEW w \in Writers, PersistPayload(w)
    PROVE  IndInv'
<1>1. pc[w] = "payload" /\ pc[w] \in Busy \ {"failed"}
  BY DEF PersistPayload, Busy, Stages, InTransaction, Statements
<1>2. CASE /\ Release(w) /\ Fails(w, "feature_natural_key_conflict")
           /\ UNCHANGED <<kafka, current, database, struck>>
  BY <1>1, <1>2, FailsInd DEF IndInv, TypeOK, FailureClasses
<1>3. CASE Execute(w, "payload", rows[Event(w).key] # <<>> /\ Event(w).key \notin AppendOnly,
                   "checkpoint")
  BY <1>3, ExecuteInd, NextStage DEF SuccessMetrics, Statements, InTransaction
<1> QED
  BY <1>2, <1>3 DEF PersistPayload

\* PersistCheckpoint, PersistWriteMs and PersistRowsUpserted preserve IndInv.
LEMMA StatementsInd ==
    ASSUME IndInv, NEW w \in Writers,
           PersistCheckpoint(w) \/ PersistWriteMs(w) \/ PersistRowsUpserted(w)
    PROVE  IndInv'
<1>1. CASE PersistCheckpoint(w)
  BY <1>1, ExecuteInd, NextStage DEF PersistCheckpoint, SuccessMetrics, Statements, InTransaction
<1>2. CASE PersistWriteMs(w)
  <2> DEFINE met == own[Own("write_ms", w)] > 0
  <2>1. met \in BOOLEAN
    OBVIOUS
  <2>2. Execute(w, "write_ms", met, "rows_upserted")
    BY <1>2 DEF PersistWriteMs
  <2>3. "write_ms" \in Statements /\ "rows_upserted" \in InTransaction
    BY DEF Statements, InTransaction
  <2> HIDE DEF met
  <2>4. "write_ms" \in SuccessMetrics => (met <=> own[Own("write_ms", w)] > 0)
    BY DEF met
  <2> QED
    BY <2>1, <2>2, <2>3, <2>4, ExecuteInd, NextStage
<1>3. CASE PersistRowsUpserted(w)
  <2> DEFINE met == own[Own("rows_upserted", w)] > 0
  <2>1. met \in BOOLEAN
    OBVIOUS
  <2>2. Execute(w, "rows_upserted", met, "commit")
    BY <1>3 DEF PersistRowsUpserted
  <2>3. "rows_upserted" \in Statements /\ "commit" \in InTransaction
    BY DEF Statements, InTransaction
  <2> HIDE DEF met
  <2>4. "rows_upserted" \in SuccessMetrics => (met <=> own[Own("rows_upserted", w)] > 0)
    BY DEF met
  <2> QED
    BY <2>1, <2>2, <2>3, <2>4, ExecuteInd, NextStage
<1> QED
  BY <1>1, <1>2, <1>3

-----------------------------------------------------------------------------
(***************************************************************************)
(* The commit of a transaction.                                            *)
(***************************************************************************)
\* The rows of an identity are never emptied, and stay one if they are one.
LEMMA UpsertedFacts ==
    ASSUME NEW k \in Keys, NEW v \in Versions, NEW old \in Seq(Row), NEW existing \in BOOLEAN,
           existing => old # <<>>
    PROVE  /\ Upserted(k, v, old, existing) \in Seq(Row)
           /\ Upserted(k, v, old, existing) # <<>>
           /\ (existing <=> old # <<>>) /\ Len(old) <= 1 => Len(Upserted(k, v, old, existing)) <= 1
<1> DEFINE row == [ts |-> v, version |-> v]
           updated == [i \in DOMAIN old |-> [old[i] EXCEPT !.version = v]]
<1>1. row \in Row
  BY DEF Row
<1>2. CASE ~existing
  <2>1. Upserted(k, v, old, existing) = Append(old, row)
    BY <1>2 DEF Upserted
  <2>2. /\ Append(old, row) \in Seq(Row)
        /\ Len(Append(old, row)) = Len(old) + 1
        /\ Append(old, row) # <<>>
    BY <1>1
  <2>3. old = <<>> => Len(old) = 0
    OBVIOUS
  <2> QED
    BY <1>2, <2>1, <2>2, <2>3
<1>3. CASE existing /\ TopicOf[k] = FeatureTopic
  <2>1. Upserted(k, v, old, existing) = updated
    BY <1>3 DEF Upserted
  <2>2. DOMAIN old = 1..Len(old) /\ Len(old) \in Nat /\ Len(old) > 0
    BY <1>3
  <2>3. \A i \in 1..Len(old) : [old[i] EXCEPT !.version = v] \in Row
    <3> SUFFICES ASSUME NEW i \in 1..Len(old)
                 PROVE  [old[i] EXCEPT !.version = v] \in Row
      OBVIOUS
    <3>1. old[i] \in Row
      OBVIOUS
    <3> QED
      BY <3>1 DEF Row
  <2>4. updated \in [1..Len(old) -> Row]
    BY <2>2, <2>3
  <2>5. updated \in Seq(Row) /\ Len(updated) = Len(old)
    BY <2>2, <2>4, SeqDef
  <2>6. updated # <<>>
    BY <2>2, <2>5
  <2> QED
    BY <2>1, <2>5, <2>6
<1>4. CASE existing /\ TopicOf[k] # FeatureTopic
  <2>1. Upserted(k, v, old, existing) = <<row>>
    BY <1>4 DEF Upserted
  <2> QED
    BY <1>1, <2>1
<1> QED
  BY <1>2, <1>3, <1>4

\* What the commit of w's transaction does to the database.
LEMMA InstallFacts ==
    ASSUME IndInv, NEW w \in Writers, pc[w] = "commit", Install(w), UNCHANGED log,
           NEW t, NEW o, NEW k, t = current[w].topic, o = current[w].offset, k = Event(w).key
    PROVE  /\ t \in Topics /\ o \in 1..Len(log[t]) /\ o \in Offsets
           /\ k \in Keys /\ k = log[t][o].key /\ RunOf[k] \in Runs
           /\ rows' \in [Keys -> Seq(Row)]
           /\ checkpoint' \in [Topics -> [Runs -> 0..MaxLog]]
           /\ own' \in [OwnMetrics -> Nat]
           /\ SinkGrows
           /\ \A v \in Writers \ {w} : Undisturbed(v)
           /\ Persisted(t, o)'
           /\ checkpoint'[t][RunOf[k]] = o
           /\ \A s \in Topics, r \in Runs :
                 s # t \/ r # RunOf[k] => checkpoint'[s][r] = checkpoint[s][r]
           /\ OneRowPerIdentity'
<1> USE Regroup DEF Grouped
<1> DEFINE new == Upserted(k, Event(w).version, rows[k], "payload" \in found[w])
           ms == Own("write_ms", w)
           ru == Own("rows_upserted", w)
<1>1. /\ pc[w] \in Busy /\ pc[w] \in InTransaction
      /\ Executed(pc[w]) = Statements
  BY DEF Busy, Stages, InTransaction, Statements, Executed
<1>2. /\ t \in Topics /\ o \in 1..Len(log[t]) /\ k \in Keys /\ RunOf[k] \in Runs
      /\ Event(w).version \in Versions
      /\ ms \in OwnMetrics /\ ru \in OwnMetrics /\ ms # ru
      /\ k = log[t][o].key
      /\ current[w] \in Records /\ o \in Offsets
  BY <1>1, EventIsTyped DEF SuccessMetrics, Own, Event, Records
<1>3. /\ "payload" \in found[w] <=> rows[k] # <<>> /\ k \notin AppendOnly
      /\ "write_ms" \in found[w] <=> own[ms] > 0
      /\ "rows_upserted" \in found[w] <=> own[ru] > 0
  BY <1>1 DEF MemberSound, Statements, SuccessMetrics
<1>4. /\ rows' = [rows EXCEPT ![k] = new]
      /\ checkpoint' = [checkpoint EXCEPT ![t][RunOf[k]] = o]
      /\ own' = [own EXCEPT ![ms] = Recounted(@, "write_ms" \in found[w]),
                            ![ru] = Recounted(@, "rows_upserted" \in found[w])]
  BY DEF Install
<1>5. /\ new \in Seq(Row) /\ new # <<>>
      /\ k \notin AppendOnly => Len(new) <= 1
  <2>1. rows[k] \in Seq(Row)
    BY <1>2 DEF TypeOK
  <2>2. k \notin AppendOnly => Len(rows[k]) <= 1
    BY <1>2 DEF OneRowPerIdentity
  <2> DEFINE existing == "payload" \in found[w]
  <2>3. existing \in BOOLEAN
    OBVIOUS
  <2>4. existing <=> rows[k] # <<>> /\ k \notin AppendOnly
    BY <1>3
  <2> HIDE DEF existing
  <2>5. LET up == Upserted(k, Event(w).version, rows[k], existing) IN
          /\ up \in Seq(Row) /\ up # <<>>
          /\ (existing <=> rows[k] # <<>>) /\ Len(rows[k]) <= 1 => Len(up) <= 1
    BY <1>2, <2>1, <2>3, <2>4, UpsertedFacts
  <2> QED
    BY <2>2, <2>4, <2>5 DEF existing
<1> HIDE DEF new
<1>6. /\ rows' \in [Keys -> Seq(Row)] /\ rows'[k] = new
      /\ \A x \in Keys \ {k} : rows'[x] = rows[x]
  BY <1>2, <1>4, <1>5 DEF TypeOK
<1>7. /\ own' \in [OwnMetrics -> Nat]
      /\ own'[ms] = 1 /\ own'[ru] = 1
      /\ \A m \in OwnMetrics \ {ms, ru} : own'[m] = own[m]
  <2>1. own[ms] \in Nat /\ own[ru] \in Nat
    BY <1>2 DEF TypeOK
  <2>2. /\ Recounted(own[ms], "write_ms" \in found[w]) = 1
        /\ Recounted(own[ru], "rows_upserted" \in found[w]) = 1
    BY <1>3, <2>1 DEF Recounted
  <2> HIDE DEF ms, ru
  <2>3. own' = [own EXCEPT ![ms] = 1, ![ru] = 1]
    BY <1>2, <1>4, <2>2 DEF TypeOK
  <2> QED
    BY <1>2, <2>3 DEF TypeOK
<1>8. /\ checkpoint' \in [Topics -> [Runs -> 0..MaxLog]]
      /\ checkpoint'[t][RunOf[k]] = o
      /\ \A s \in Topics, r \in Runs :
            s # t \/ r # RunOf[k] => checkpoint'[s][r] = checkpoint[s][r]
  <2>1. checkpoint \in [Topics -> [Runs -> 0..MaxLog]] /\ o \in 0..MaxLog
    BY <1>2, BoundsAssumption DEF TypeOK, Offsets
  <2> QED
    BY <1>2, <1>4, <2>1
<1>9. SinkGrows
  <2>1. \A x \in Keys : rows[x] # <<>> => rows'[x] # <<>>
    BY <1>5, <1>6
  <2>2. \A m \in OwnMetrics : own[m] = 1 => own'[m] = 1
    BY <1>7
  <2>3. ASSUME NEW s \in Topics, NEW r \in Runs, checkpoint[s][r] > 0
        PROVE  checkpoint'[s][r] > 0
    <3>1. CASE s = t /\ r = RunOf[k]
      <4>1. o > 0
        BY <1>2, BoundsAssumption DEF Offsets
      <4>2. checkpoint'[s][r] = o
        BY <1>8, <3>1
      <4> QED
        BY <4>1, <4>2
    <3>2. CASE s # t \/ r # RunOf[k]
      BY <1>8, <2>3, <3>2
    <3> QED
      BY <3>1, <3>2
  <2> QED
    BY <2>1, <2>2, <2>3 DEF SinkGrows
<1>10. \A v \in Writers \ {w} : Undisturbed(v)
  <2> SUFFICES ASSUME NEW v \in Writers \ {w}
               PROVE  Undisturbed(v)
    OBVIOUS
  <2>1. held[v] \cap held[w] = {}
    BY DEF Apart
  <2>2. \A s \in Statements : LocksOf(w, s) \subseteq held[w]
    BY <1>1 DEF MemberSound
  <2>3. \A s \in Executed(pc[v]) : LocksOf(v, s) \subseteq held[v]
    BY DEF MemberSound
  <2>4. \A s \in Executed(pc[v]) : s \in Statements /\ LocksOf(v, s) \cap LocksOf(w, s) = {}
    BY <2>1, <2>2, <2>3 DEF Executed
  <2>5. pc[v] \notin Busy => Executed(pc[v]) = {}
    BY DEF Executed, Busy, Stages, InTransaction, Statements, TypeOK
  <2>6. ASSUME "payload" \in Executed(pc[v]), Event(v).key \notin AppendOnly
        PROVE  rows'[Event(v).key] = rows[Event(v).key]
    <3>1. LocksOf(v, "payload") = {RowLock(Event(v).key)}
      BY <2>6 DEF LocksOf
    <3>2. Event(v).key \in Keys
      BY <2>5, <2>6, EventIsTyped
    <3>3. k \notin AppendOnly => LocksOf(w, "payload") = {RowLock(k)}
      BY DEF LocksOf
    <3>4. Event(v).key # k
      BY <2>4, <2>6, <3>1, <3>3
    <3> QED
      BY <1>6, <3>2, <3>4
  <2>7. ASSUME NEW s \in Executed(pc[v]) \cap SuccessMetrics
        PROVE  own'[Own(s, v)] = own[Own(s, v)]
    <3>1. Own(s, v) \in OwnMetrics
      BY <2>5, EventIsTyped
    <3>2. LocksOf(v, s) = {OwnLock(Own(s, v))} /\ LocksOf(w, s) = {OwnLock(Own(s, w))}
      BY DEF LocksOf, SuccessMetrics
    <3>3. Own(s, v) # Own(s, w)
      BY <2>4, <3>2
    <3>4. Own(s, v) \notin {ms, ru}
      BY <3>3 DEF Own, SuccessMetrics
    <3> QED
      BY <1>7, <3>1, <3>4
  <2> QED
    BY <2>6, <2>7 DEF Undisturbed
<1>11. Persisted(t, o)'
  <2>1. log'[t][o].key = k
    BY <1>2
  <2>2. /\ [name |-> "write_ms", record |-> [topic |-> t, offset |-> o]] = ms
        /\ [name |-> "rows_upserted", record |-> [topic |-> t, offset |-> o]] = ru
    BY <1>2 DEF Own, Records
  <2> QED
    BY <1>5, <1>6, <1>7, <2>1, <2>2 DEF Persisted, SuccessMetrics
<1>12. OneRowPerIdentity'
  <2>1. \A x \in Keys \ AppendOnly : Len(rows'[x]) <= 1
    BY <1>5, <1>6 DEF OneRowPerIdentity
  <2>2. \A m \in OwnMetrics : own'[m] <= 1
    BY <1>7 DEF OneRowPerIdentity
  <2> QED
    BY <2>1, <2>2 DEF OneRowPerIdentity
<1> QED
  BY <1>2, <1>6, <1>7, <1>8, <1>9, <1>10, <1>11, <1>12

\* A transaction that commits, whether its member learns so or not.
LEMMA InstallInd ==
    ASSUME IndInv, NEW w \in Writers, pc[w] = "commit", Install(w), Release(w),
           UNCHANGED <<kafka, current>>, struck' \in [Disruptions -> Nat],
           \/ pc' = [pc EXCEPT ![w] = "offset"] /\ UNCHANGED failure
           \/ Fails(w, "writer_persistence_failed")
    PROVE  IndInv'
<1> USE Regroup, RegroupNext DEF Grouped
<1>1. PICK t, o, k : t = current[w].topic /\ o = current[w].offset /\ k = Event(w).key
  OBVIOUS
<1>2. log' = log /\ committed' = committed
  BY DEF kafka
<1>3. /\ t \in Topics /\ o \in 1..Len(log[t]) /\ o \in Offsets
      /\ k \in Keys /\ k = log[t][o].key /\ RunOf[k] \in Runs
      /\ rows' \in [Keys -> Seq(Row)]
      /\ checkpoint' \in [Topics -> [Runs -> 0..MaxLog]]
      /\ own' \in [OwnMetrics -> Nat]
      /\ SinkGrows
      /\ \A v \in Writers \ {w} : Undisturbed(v)
      /\ Persisted(t, o)'
      /\ checkpoint'[t][RunOf[k]] = o
      /\ \A s \in Topics, r \in Runs :
            s # t \/ r # RunOf[k] => checkpoint'[s][r] = checkpoint[s][r]
      /\ OneRowPerIdentity'
  BY <1>1, <1>2, InstallFacts
<1>4. /\ pc'[w] \in {"offset", "failed"}
      /\ pc'[w] = "failed" => failure'[w] \in FailureClasses
      /\ current'[w] = current[w]
      /\ pc' \in [Writers -> Stages]
      /\ failure' \in [Writers -> FailureClasses \cup {"none"}]
      /\ \A v \in Writers \ {w} : Untouched(v)
  BY ReleaseFacts DEF Fails, Untouched, TypeOK, Stages, FailureClasses
<1>5. TypeOK'
  BY <1>3, <1>4, ReleaseFacts DEF TypeOK, kafka
<1>6. LogGrows /\ LogIsSound' /\ Apart'
  BY LogKept, ReleaseFacts DEF LogIsSound, kafka
<1>7. OwnerIsInStep'
  <2>1. pc[w] \in Busy \ {"failed"} /\ pc'[w] \in Busy
    BY <1>4 DEF Busy, Stages, InTransaction, Statements
  <2> QED
    BY <1>4, <2>1, StaysInStep DEF Untouched
<1>8. MemberSound(w)'
  <2>1. Executed(pc'[w]) = {} /\ pc'[w] \notin InTransaction
    BY <1>4 DEF Executed, InTransaction, Statements
  <2>2. Event(w)' = Event(w) /\ Event(w).form = "valid"
    BY <1>2, <1>4 DEF Event, MemberSound, InTransaction
  <2>3. current'[w] \in Records /\ current'[w].offset <= Len(log'[current'[w].topic])
    BY <1>2, <1>4 DEF MemberSound, Busy, Stages, InTransaction
  <2>4. checkpoint'[t][RunOf[k]] > 0
    BY <1>3, BoundsAssumption DEF Offsets
  <2>5. current'[w].topic = t /\ current'[w].offset = o
    BY <1>1, <1>4
  <2> QED
    BY <1>1, <1>3, <1>4, <2>1, <2>2, <2>3, <2>4, <2>5, ReleaseFacts DEF MemberSound
<1>9. /\ \A v \in Writers \ {w} : MemberSound(v)'
      /\ CommittedIsPersisted' /\ InvalidBlocks'
      /\ \A s \in Topics, r \in Runs : \A x :
            x = checkpoint[s][r] /\ x > 0 =>
                x <= Len(log'[s]) /\ Persisted(s, x)' /\ RunOf[log'[s][x].key] = r
  BY <1>2, <1>3, <1>4, <1>6, SinkFrame
<1>10. CheckpointIsPersisted'
  <2> SUFFICES ASSUME NEW s \in Topics, NEW r \in Runs, NEW x, x = checkpoint'[s][r], x > 0
               PROVE  x <= Len(log'[s]) /\ Persisted(s, x)' /\ RunOf[log'[s][x].key] = r
    BY DEF CheckpointIsPersisted
  <2>1. CASE s # t \/ r # RunOf[k]
    <3>1. x = checkpoint[s][r]
      BY <1>3, <2>1
    <3> QED
      BY <1>9, <3>1
  <2>2. CASE s = t /\ r = RunOf[k]
    <3>1. x = o
      BY <1>3, <2>2
    <3>2. Persisted(s, x)'
      BY <1>3, <2>2, <3>1
    <3>3. x <= Len(log'[s]) /\ log'[s][x].key = k
      BY <1>2, <1>3, <2>2, <3>1
    <3> QED
      BY <2>2, <3>2, <3>3
  <2> QED
    BY <2>1, <2>2
<1> QED
  BY <1>3, <1>5, <1>6, <1>7, <1>8, <1>9, <1>10

\* CommitTransaction preserves IndInv.
LEMMA CommitTransactionInd ==
    ASSUME IndInv, NEW w \in Writers, CommitTransaction(w)
    PROVE  IndInv'
BY InstallInd DEF CommitTransaction, IndInv, TypeOK

\* TransactionFails preserves IndInv, whether the commit took effect or not.
LEMMA TransactionFailsInd ==
    ASSUME IndInv, NEW w \in Writers, TransactionFails(w)
    PROVE  IndInv'
<1>1. struck' \in [Disruptions -> Nat]
  BY StrikesTyped DEF IndInv, TransactionFails, Disruptions
<1>2. CASE UNCHANGED database
  <2>1. pc[w] \in Busy \ {"failed"} /\ "writer_persistence_failed" \in FailureClasses
    BY DEF TransactionFails, Busy, Stages, InTransaction, Statements, FailureClasses
  <2> QED
    BY <1>1, <1>2, <2>1, FailsInd DEF TransactionFails
<1>3. CASE pc[w] = "commit" /\ Install(w)
  BY <1>1, <1>3, InstallInd DEF TransactionFails
<1> QED
  BY <1>2, <1>3 DEF TransactionFails

-----------------------------------------------------------------------------
(***************************************************************************)
(* The commit of an offset.                                                *)
(***************************************************************************)
\* The broker stores the offset of w's record.
OffsetStored(w) ==
    /\ committed' = [committed EXCEPT ![current[w].topic] = current[w].offset]
    /\ UNCHANGED <<log, database>>

\* It does so only once the transaction of the record is committed.
LEMMA OffsetFacts ==
    ASSUME IndInv, NEW w \in Writers, pc[w] = "offset",
           owner[current[w].topic] = w, OffsetStored(w),
           NEW t, NEW o, t = current[w].topic, o = current[w].offset
    PROVE  /\ t \in Topics /\ o \in 1..Len(log[t])
           /\ position[t] = o /\ committed[t] = o - 1
           /\ committed' \in [Topics -> Nat] /\ committed'[t] = o
           /\ \A s \in Topics \ {t} : committed'[s] = committed[s]
           /\ CommittedIsPersisted' /\ InvalidBlocks'
<1> USE Regroup DEF Grouped, OffsetStored
<1>1. pc[w] \in Busy \ {"failed"}
  BY DEF Busy, Stages
<1>2. /\ t \in Topics /\ o \in 1..Len(log[t])
  BY <1>1, EventIsTyped
<1>3. position[t] = o /\ committed[t] = o - 1
  BY <1>1, <1>2 DEF OwnerIsInStep, TypeOK
<1>4. /\ committed' \in [Topics -> Nat] /\ committed'[t] = o
      /\ \A s \in Topics \ {t} : committed'[s] = committed[s]
  BY <1>2 DEF TypeOK
<1>5. \A s \in Topics : \A x \in 1..committed'[s] :
          x \in 1..committed[s] \/ (s = t /\ x = o)
  BY <1>2, <1>3, <1>4 DEF TypeOK
<1>6. /\ Persisted(t, o)
      /\ checkpoint[t][RunOf[log[t][o].key]] > 0
      /\ log[t][o].form = "valid"
  BY DEF MemberSound, Event
<1>7. CommittedIsPersisted'
  BY <1>5, <1>6 DEF CommittedIsPersisted, Persisted, database
<1>8. InvalidBlocks'
  BY <1>5, <1>6 DEF InvalidBlocks
<1> QED
  BY <1>2, <1>3, <1>4, <1>7, <1>8

\* A step that commits an offset and leaves the database alone keeps what
\* IndInv says of the other members and of the checkpoints.
LEMMA OffsetFrame ==
    ASSUME IndInv, UNCHANGED <<log, database>>,
           NEW w \in Writers, \A v \in Writers \ {w} : Untouched(v)
    PROVE  /\ \A v \in Writers \ {w} : MemberSound(v)'
           /\ CheckpointIsPersisted' /\ OneRowPerIdentity'
<1> USE Regroup DEF Grouped
<1>1. LogGrows /\ SinkGrows /\ \A v \in Writers : Undisturbed(v)
  BY LogKept DEF SinkGrows, Undisturbed, database
<1>2. \A v \in Writers \ {w} : MemberSound(v)'
  BY <1>1, OtherMember
<1> QED
  BY <1>2 DEF CheckpointIsPersisted, OneRowPerIdentity, Persisted, database

\* CommitOffset preserves IndInv.
LEMMA CommitOffsetInd ==
    ASSUME IndInv, NEW w \in Writers, CommitOffset(w)
    PROVE  IndInv'
<1> USE Regroup, RegroupNext DEF Grouped
<1>1. PICK t, o : t = current[w].topic /\ o = current[w].offset
  OBVIOUS
<1>2. /\ pc[w] = "offset" /\ pc'[w] = "idle" /\ current'[w] = NoRecord
      /\ owner[t] = w /\ committed' = [committed EXCEPT ![t] = o]
      /\ UNCHANGED <<log, owner, position, failure, held, found, database, struck>>
      /\ \A v \in Writers \ {w} : Untouched(v)
  BY <1>1 DEF CommitOffset, Untouched, transaction, TypeOK
<1>3. /\ t \in Topics /\ o \in 1..Len(log[t])
      /\ position[t] = o /\ committed[t] = o - 1
      /\ committed' \in [Topics -> Nat] /\ committed'[t] = o
      /\ \A s \in Topics \ {t} : committed'[s] = committed[s]
      /\ CommittedIsPersisted' /\ InvalidBlocks'
  <2>1. OffsetStored(w)
    BY <1>1, <1>2 DEF OffsetStored
  <2>2. owner[current[w].topic] = w /\ pc[w] = "offset"
    BY <1>1, <1>2
  <2> QED
    BY <1>1, <2>1, <2>2, OffsetFacts
<1>4. TypeOK'
  <2>1. pc' \in [Writers -> Stages] /\ current' \in [Writers -> Records \cup {NoRecord}]
    BY DEF CommitOffset, TypeOK, Stages
  <2> QED
    BY <1>2, <1>3, <2>1 DEF TypeOK, database
<1>5. LogIsSound' /\ Apart'
  BY <1>2, <1>3 DEF LogIsSound, Apart, TypeOK
<1>6. OwnerIsInStep'
  <2> SUFFICES ASSUME NEW s \in Topics, NEW v \in Writers, owner[s] = v
               PROVE  /\ pc'[v] # "down"
                      /\ IF pc'[v] \in Busy /\ current'[v].topic = s
                         THEN /\ position[s] = current'[v].offset
                              /\ committed'[s] \in {position[s] - 1, position[s]}
                              /\ pc'[v] # "failed" => committed'[s] = position[s] - 1
                         ELSE position[s] = committed'[s]
    BY <1>2 DEF OwnerIsInStep
  <2>1. CASE v # w
    <3>1. s # t
      BY <1>2, <2>1
    <3> QED
      BY <1>2, <1>3, <2>1, <3>1 DEF OwnerIsInStep, Untouched
  <2>2. CASE v = w
    <3>1. pc'[w] \notin Busy /\ pc'[w] # "down"
      BY <1>2 DEF Busy
    <3>2. s # t => position[s] = committed[s]
      BY <1>1, <1>2, <2>2 DEF OwnerIsInStep
    <3> QED
      BY <1>3, <2>2, <3>1, <3>2
  <2> QED
    BY <2>1, <2>2
<1>7. MemberSound(w)'
  <2>1. /\ Executed(pc[w]) = {} /\ Executed(pc'[w]) = {}
        /\ pc[w] \notin InTransaction /\ pc'[w] \notin InTransaction \cup {"offset", "failed"}
        /\ pc'[w] \notin Busy
    BY <1>2 DEF Executed, InTransaction, Statements, Busy
  <2>2. held'[w] = {} /\ found'[w] = {}
    BY <1>2, <2>1 DEF MemberSound
  <2> QED
    BY <2>1, <2>2 DEF MemberSound
<1> QED
  BY <1>2, <1>3, <1>4, <1>5, <1>6, <1>7, OffsetFrame

\* OffsetCommitFenced preserves IndInv.
LEMMA OffsetCommitFencedInd ==
    ASSUME IndInv, NEW w \in Writers, OffsetCommitFenced(w)
    PROVE  IndInv'
<1>1. pc[w] \in Busy \ {"failed"} /\ "offset_commit_failed" \in FailureClasses
  BY DEF OffsetCommitFenced, Busy, Stages, FailureClasses
<1>2. Release(w)
  <2>1. Executed(pc[w]) = {} /\ pc[w] \notin InTransaction
    BY DEF OffsetCommitFenced, Executed, InTransaction, Statements
  <2>2. held[w] = {} /\ found[w] = {}
    BY <2>1, Regroup DEF Grouped, MemberSound
  <2>3. held' = held /\ found' = found
    BY DEF OffsetCommitFenced, transaction
  <2> QED
    BY <2>2, <2>3 DEF Release, IndInv, TypeOK
<1>3. struck' \in [Disruptions -> Nat]
  BY DEF OffsetCommitFenced, IndInv, TypeOK
<1> QED
  BY <1>1, <1>2, <1>3, FailsInd DEF OffsetCommitFenced

\* OffsetCommitFails preserves IndInv, whether the broker stored the offset or not.
LEMMA OffsetCommitFailsInd ==
    ASSUME IndInv, NEW w \in Writers, OffsetCommitFails(w)
    PROVE  IndInv'
<1>1. struck' \in [Disruptions -> Nat]
  BY StrikesTyped DEF IndInv, OffsetCommitFails, Disruptions
<1>2. /\ pc[w] = "offset" /\ pc[w] \in Busy \ {"failed"}
      /\ "offset_commit_failed" \in FailureClasses
  BY DEF OffsetCommitFails, Busy, Stages, FailureClasses
<1>3. /\ Executed(pc[w]) = {} /\ held[w] = {} /\ found[w] = {}
  <2>1. Executed(pc[w]) = {} /\ pc[w] \notin InTransaction
    BY <1>2 DEF Executed, InTransaction, Statements
  <2> QED
    BY <2>1, Regroup DEF Grouped, MemberSound
<1>4. CASE UNCHANGED committed
  <2>1. Release(w)
    BY <1>3 DEF OffsetCommitFails, transaction, Release, IndInv, TypeOK
  <2>2. UNCHANGED <<kafka, current, database>>
    BY <1>4 DEF OffsetCommitFails, kafka
  <2> QED
    BY <1>1, <1>2, <2>1, <2>2, FailsInd DEF OffsetCommitFails
<1>5. CASE committed' = [committed EXCEPT ![current[w].topic] = current[w].offset]
  <2> USE Regroup, RegroupNext DEF Grouped
  <2>1. PICK t, o : t = current[w].topic /\ o = current[w].offset
    OBVIOUS
  <2>2. /\ pc'[w] = "failed" /\ failure'[w] \in FailureClasses /\ current'[w] = current[w]
        /\ owner[t] = w
        /\ UNCHANGED <<log, owner, position, current, held, found, database>>
        /\ \A v \in Writers \ {w} : Untouched(v)
    BY <1>2, <2>1 DEF OffsetCommitFails, Fails, Untouched, transaction, TypeOK
  <2>3. /\ t \in Topics /\ o \in 1..Len(log[t])
        /\ position[t] = o /\ committed[t] = o - 1
        /\ committed' \in [Topics -> Nat] /\ committed'[t] = o
        /\ \A s \in Topics \ {t} : committed'[s] = committed[s]
        /\ CommittedIsPersisted' /\ InvalidBlocks'
    <3>1. owner[current[w].topic] = w
      BY <2>1, <2>2
    <3>2. OffsetStored(w)
      BY <1>5, <2>2 DEF OffsetStored
    <3> QED
      BY <1>2, <2>1, <3>1, <3>2, OffsetFacts
  <2>4. TypeOK'
    <3>1. pc' \in [Writers -> Stages] /\ failure' \in [Writers -> FailureClasses \cup {"none"}]
      BY <1>2 DEF OffsetCommitFails, Fails, TypeOK, Stages
    <3> QED
      BY <1>1, <2>2, <2>3, <3>1 DEF TypeOK, database
  <2>5. LogIsSound' /\ Apart'
    BY <2>2, <2>3 DEF LogIsSound, Apart, TypeOK
  <2>6. OwnerIsInStep'
    <3> SUFFICES ASSUME NEW s \in Topics, NEW v \in Writers, owner[s] = v
                 PROVE  /\ pc'[v] # "down"
                        /\ IF pc'[v] \in Busy /\ current[v].topic = s
                           THEN /\ position[s] = current[v].offset
                                /\ committed'[s] \in {position[s] - 1, position[s]}
                                /\ pc'[v] # "failed" => committed'[s] = position[s] - 1
                           ELSE position[s] = committed'[s]
      BY <2>2 DEF OwnerIsInStep
    <3>1. CASE v # w
      <4>1. s # t
        BY <2>2, <3>1
      <4> QED
        BY <2>2, <2>3, <3>1, <4>1 DEF OwnerIsInStep, Untouched
    <3>2. CASE v = w
      <4>1. pc'[w] \in Busy
        BY <2>2 DEF Busy, Stages
      <4>2. s # t => position[s] = committed[s]
        BY <2>1, <3>2 DEF OwnerIsInStep
      <4> QED
        BY <2>1, <2>2, <2>3, <3>2, <4>1, <4>2
    <3> QED
      BY <3>1, <3>2
  <2>7. MemberSound(w)'
    <3>1. Executed(pc'[w]) = {} /\ pc'[w] \notin InTransaction \cup {"offset"}
      BY <2>2 DEF Executed, InTransaction, Statements
    <3>2. current[w] \in Records /\ current[w].offset <= Len(log[current[w].topic])
      BY <1>2 DEF MemberSound
    <3> QED
      BY <1>3, <2>2, <3>1, <3>2 DEF MemberSound
  <2> QED
    BY <2>2, <2>3, <2>4, <2>5, <2>6, <2>7, OffsetFrame
<1> QED
  BY <1>4, <1>5 DEF OffsetCommitFails

-----------------------------------------------------------------------------
(***************************************************************************)
(* The end of a process.                                                   *)
(***************************************************************************)
\* A member that is gone leaves nothing behind but committed rows; those it may
\* still have stored are its own failure metrics.
LEMMA GoneInd ==
    ASSUME IndInv, NEW w \in Writers, Gone(w), UNCHANGED <<rows, checkpoint>>,
           own' \in [OwnMetrics -> Nat], OneRowPerIdentity', SinkGrows,
           \A v \in Writers \ {w} : Undisturbed(v),
           struck' \in [Disruptions -> Nat]
    PROVE  IndInv'
<1> USE Regroup, RegroupNext DEF Grouped
<1>1. /\ pc'[w] = "down"
      /\ owner' = Abandoned(w)
      /\ Release(w)
      /\ UNCHANGED <<log, position, committed>>
      /\ \A v \in Writers \ {w} : Untouched(v)
  BY ReleaseFacts DEF Gone, Untouched, TypeOK
<1>2. TypeOK'
  <2>1. /\ pc' \in [Writers -> Stages]
        /\ current' \in [Writers -> Records \cup {NoRecord}]
        /\ failure' \in [Writers -> FailureClasses \cup {"none"}]
    BY DEF Gone, TypeOK, Stages
  <2> QED
    BY <1>1, <2>1, AbandonedFacts, ReleaseFacts DEF TypeOK
<1>3. LogGrows /\ LogIsSound' /\ Apart'
  BY <1>1, LogKept, ReleaseFacts DEF LogIsSound
<1>4. OwnerIsInStep'
  <2> SUFFICES ASSUME NEW t \in Topics, NEW v \in Writers, Abandoned(w)[t] = v
               PROVE  /\ pc'[v] # "down"
                      /\ IF pc'[v] \in Busy /\ current'[v].topic = t
                         THEN /\ position[t] = current'[v].offset
                              /\ committed[t] \in {position[t] - 1, position[t]}
                              /\ pc'[v] # "failed" => committed[t] = position[t] - 1
                         ELSE position[t] = committed[t]
    BY <1>1 DEF OwnerIsInStep
  <2>1. v # w /\ owner[t] = v
    BY AbandonedFacts
  <2> QED
    BY <1>1, <2>1 DEF OwnerIsInStep, Untouched
<1>5. MemberSound(w)'
  <2>1. Executed(pc'[w]) = {} /\ pc'[w] \notin InTransaction \cup {"offset", "failed"}
        /\ pc'[w] \notin Busy
    BY <1>1 DEF Executed, InTransaction, Statements, Busy
  <2> QED
    BY <1>1, <2>1, ReleaseFacts DEF MemberSound
<1>6. /\ \A v \in Writers \ {w} : MemberSound(v)'
      /\ CommittedIsPersisted' /\ InvalidBlocks'
      /\ \A t \in Topics, r \in Runs : \A o :
            o = checkpoint[t][r] /\ o > 0 =>
                o <= Len(log'[t]) /\ Persisted(t, o)' /\ RunOf[log'[t][o].key] = r
  BY <1>1, <1>3, SinkFrame
<1>7. CheckpointIsPersisted'
  BY <1>6 DEF CheckpointIsPersisted
<1> QED
  BY <1>2, <1>3, <1>4, <1>5, <1>6, <1>7

\* A member that is gone and has stored nothing preserves IndInv.
LEMMA GoneQuietly ==
    ASSUME IndInv, NEW w \in Writers, Gone(w), UNCHANGED database,
           struck' \in [Disruptions -> Nat]
    PROVE  IndInv'
<1>1. /\ UNCHANGED <<rows, checkpoint>> /\ own' \in [OwnMetrics -> Nat]
      /\ OneRowPerIdentity' /\ SinkGrows /\ \A v \in Writers \ {w} : Undisturbed(v)
  BY DEF IndInv, TypeOK, OneRowPerIdentity, SinkGrows, Undisturbed, database
<1> QED
  BY <1>1, GoneInd

\* EmitFailureMetric preserves IndInv: the metric is replaced, never doubled.
LEMMA EmitFailureMetricInd ==
    ASSUME IndInv, NEW w \in Writers, EmitFailureMetric(w)
    PROVE  IndInv'
<1> DEFINE m == Own(failure[w], w)
<1>1. struck' \in [Disruptions -> Nat]
  BY DEF EmitFailureMetric, IndInv, TypeOK
<1>2. CASE UNCHANGED own
  BY <1>1, <1>2, GoneQuietly DEF EmitFailureMetric, database
<1>3. CASE own' = [own EXCEPT ![m] = Recounted(@, @ > 0)]
  <2> USE Regroup DEF Grouped
  <2>1. pc[w] = "failed" /\ pc[w] \in Busy /\ failure[w] \in FailureClasses
    BY DEF EmitFailureMetric, MemberSound, Busy, Stages
  <2>2. m \in OwnMetrics
    BY <2>1, EventIsTyped
  <2>3. m.name \notin SuccessMetrics
    BY <2>1 DEF Own, FailureClasses, SuccessMetrics
  <2> HIDE DEF m
  <2>4. own[m] \in Nat /\ Recounted(own[m], own[m] > 0) = 1
    BY <2>2 DEF TypeOK, Recounted
  <2>5. own' = [own EXCEPT ![m] = 1]
    BY <1>3, <2>4 DEF m
  <2>6. /\ own' \in [OwnMetrics -> Nat]
        /\ own'[m] = 1
        /\ \A x \in OwnMetrics \ {m} : own'[x] = own[x]
    BY <2>2, <2>5 DEF TypeOK
  <2>7. rows' = rows /\ checkpoint' = checkpoint
    BY DEF EmitFailureMetric
  <2>8. OneRowPerIdentity' /\ SinkGrows
    BY <2>6, <2>7 DEF OneRowPerIdentity, SinkGrows
  <2>9. ASSUME NEW v \in Writers \ {w}
        PROVE  Undisturbed(v)
    <3>1. ASSUME NEW s \in Executed(pc[v]) \cap SuccessMetrics
          PROVE  own'[Own(s, v)] = own[Own(s, v)]
      <4>1. pc[v] \in Busy
        BY DEF Executed, Busy, Stages, InTransaction, Statements, TypeOK
      <4>2. Own(s, v) \in OwnMetrics
        BY <4>1, EventIsTyped
      <4>3. Own(s, v) # m
        BY <2>3 DEF Own
      <4> QED
        BY <2>6, <4>2, <4>3
    <3> QED
      BY <2>7, <3>1 DEF Undisturbed
  <2> QED
    BY <1>1, <2>6, <2>7, <2>8, <2>9, GoneInd DEF EmitFailureMetric
<1> QED
  BY <1>2, <1>3 DEF EmitFailureMetric

\* EmitFailureMetricFails and Crash preserve IndInv.
LEMMA GoneOtherwiseInd ==
    ASSUME IndInv, NEW w \in Writers, EmitFailureMetricFails(w) \/ Crash(w)
    PROVE  IndInv'
<1>1. struck' \in [Disruptions -> Nat]
  BY StrikesTyped DEF IndInv, EmitFailureMetricFails, Crash, Disruptions
<1> QED
  BY <1>1, GoneQuietly DEF EmitFailureMetricFails, Crash

-----------------------------------------------------------------------------
(***************************************************************************)
(* The invariant, and the safety properties it contains.                   *)
(***************************************************************************)
\* Every step preserves IndInv.
LEMMA StepInd == IndInv /\ [Next]_vars => IndInv'
<1> SUFFICES ASSUME IndInv, [Next]_vars
             PROVE  IndInv'
  OBVIOUS
<1>1. CASE UNCHANGED vars
  <2> USE Regroup, RegroupNext DEF Grouped
  <2>1. /\ UNCHANGED <<committed, database>> /\ \A v \in Writers : Untouched(v)
        /\ UNCHANGED <<log, owner, position, pc, current, failure, held, found>>
        /\ UNCHANGED <<rows, checkpoint, own, struck>>
    BY <1>1 DEF vars, kafka, member, transaction, database, Untouched
  <2>2. TypeOK'
    BY <2>1 DEF TypeOK
  <2>3. LogGrows /\ LogIsSound' /\ Apart'
    BY <2>1, LogKept DEF LogIsSound, Apart
  <2>4. OwnerIsInStep'
    BY <2>1 DEF OwnerIsInStep
  <2> QED
    BY <2>1, <2>2, <2>3, <2>4, Frame
<1>2. ASSUME NEW t \in Topics, Publish(t) \/ Revoke(t)
      PROVE  IndInv'
  BY <1>2, PublishInd, RevokeInd
<1>3. ASSUME NEW w \in Writers, Start(w)
      PROVE  IndInv'
  BY <1>3, StartInd
<1>4. ASSUME NEW w \in Writers, NEW t \in Topics, Assign(t, w) \/ Poll(w, t)
      PROVE  IndInv'
  BY <1>4, AssignInd, PollInd
<1>5. ASSUME NEW w \in Writers, Work(w)
      PROVE  IndInv'
  BY <1>5, PersistPayloadInd, StatementsInd, CommitTransactionInd, CommitOffsetInd,
     OffsetCommitFencedInd, EmitFailureMetricInd DEF Work
<1>6. ASSUME NEW w \in Writers, Disrupt(w)
      PROVE  IndInv'
  BY <1>6, EvictInd, TransactionFailsInd, OffsetCommitFailsInd, GoneOtherwiseInd DEF Disrupt
<1> QED
  BY <1>1, <1>2, <1>3, <1>4, <1>5, <1>6 DEF Next

\* IndInv holds of every behaviour, whatever fails and however often: any number
\* of members, identities, events, crashes, errors, rebalances and evictions.
THEOREM Invariance == Spec => []IndInv
<1>1. Init => IndInv
  BY InitInd
<1>2. IndInv /\ [Next]_vars => IndInv'
  BY StepInd
<1> QED
  BY <1>1, <1>2, PTL DEF Spec

\* Every variable keeps its type.
THEOREM TypeCorrect == Spec => []TypeOK
<1>1. IndInv => TypeOK
  BY DEF IndInv
<1> QED
  BY <1>1, Invariance, PTL

\* Kafka offsets are committed only after the record is persisted and
\* checkpointed (WriterPipeline.run).
THEOREM OffsetsFollowPersistence == Spec => []CommittedIsPersisted
<1>1. IndInv => CommittedIsPersisted
  BY DEF IndInv
<1> QED
  BY <1>1, Invariance, PTL

\* A checkpoint never names a record that is not persisted with its metrics
\* (WriterPipeline._persist_record).
THEOREM CheckpointsFollowPersistence == Spec => []CheckpointIsPersisted
<1>1. IndInv => CheckpointIsPersisted
  BY DEF IndInv
<1> QED
  BY <1>1, Invariance, PTL

\* At-least-once delivery leaves one row per track, segment, replay-safe metric
\* and writer metric, even with members that overlap.
THEOREM PersistenceIsIdempotent == Spec => []OneRowPerIdentity
<1>1. IndInv => OneRowPerIdentity
  BY DEF IndInv
<1> QED
  BY <1>1, Invariance, PTL

\* A record the writer cannot persist is never committed past.
THEOREM PoisonBlocks == Spec => []InvalidBlocks
<1>1. IndInv => InvalidBlocks
  BY DEF IndInv
<1> QED
  BY <1>1, Invariance, PTL

\* A member waits for a lock only behind one that has run the same statement.
LEMMA WaitsForLater ==
    ASSUME IndInv, NEW w \in Writers, NEW v \in Writers, WaitsFor(w, v)
    PROVE  pc[w] \in Executed(pc[v])
<1> USE Regroup DEF Grouped
<1>1. pc[w] \in Statements
  BY DEF WaitsFor
<1>2. PICK l : l \in LocksOf(w, pc[w]) /\ l \in held[v]
  BY DEF WaitsFor
<1>3. PICK s \in Executed(pc[v]) : l \in LocksOf(v, s)
  BY <1>2 DEF MemberSound
<1>4. s \in Statements
  BY DEF Executed
<1>5. CASE pc[w] = "payload"
  <2>1. l = RowLock(Event(w).key)
    BY <1>2, <1>5 DEF LocksOf
  <2>2. s = "payload"
    BY <1>3, <1>4, <2>1 DEF LocksOf, RowLock, CheckpointLock, OwnLock
  <2> QED
    BY <1>5, <2>2
<1>6. CASE pc[w] = "checkpoint"
  <2>1. l = CheckpointLock(current[w].topic, RunOf[Event(w).key])
    BY <1>2, <1>6 DEF LocksOf
  <2>2. s = "checkpoint"
    BY <1>3, <1>4, <2>1 DEF LocksOf, RowLock, CheckpointLock, OwnLock
  <2> QED
    BY <1>6, <2>2
<1>7. CASE pc[w] \in {"write_ms", "rows_upserted"}
  <2>1. l = OwnLock(Own(pc[w], w))
    BY <1>2, <1>7 DEF LocksOf
  <2>2. s \notin {"payload", "checkpoint"}
    BY <1>3, <2>1 DEF LocksOf, RowLock, CheckpointLock, OwnLock
  <2>3. l = OwnLock(Own(s, v))
    BY <1>3, <2>2 DEF LocksOf
  <2>4. s = pc[w]
    BY <2>1, <2>3 DEF OwnLock, Own
  <2> QED
    BY <2>4
<1> QED
  BY <1>1, <1>5, <1>6, <1>7 DEF Statements

\* So the member of S that is farthest in its transaction waits for none of S.
LEMMA LocksAreOrdered == IndInv => NoLockCycle
<1> SUFFICES ASSUME IndInv, NEW S \in SUBSET Writers, S # {}
             PROVE  \E w \in S : \A v \in S : ~WaitsFor(w, v)
  BY DEF NoLockCycle
<1>1. CASE \E w \in S : pc[w] \notin Statements
  BY <1>1 DEF WaitsFor
<1>2. CASE \A w \in S : pc[w] \in Statements
  <2>1. \A v \in S : "rows_upserted" \notin Executed(pc[v])
    BY <1>2 DEF Executed, Statements
  <2>2. CASE \E w \in S : pc[w] = "rows_upserted"
    BY <2>1, <2>2, WaitsForLater
  <2>3. CASE (\A v \in S : pc[v] # "rows_upserted") /\ \E w \in S : pc[w] = "write_ms"
    <3>1. \A v \in S : "write_ms" \notin Executed(pc[v])
      BY <1>2, <2>3 DEF Executed, Statements
    <3> QED
      BY <2>3, <3>1, WaitsForLater
  <2>4. CASE /\ \A v \in S : pc[v] \notin {"rows_upserted", "write_ms"}
             /\ \E w \in S : pc[w] = "checkpoint"
    <3>1. \A v \in S : "checkpoint" \notin Executed(pc[v])
      BY <1>2, <2>4 DEF Executed, Statements
    <3> QED
      BY <2>4, <3>1, WaitsForLater
  <2>5. CASE \A v \in S : pc[v] = "payload"
    <3>1. \A v \in S : Executed(pc[v]) = {}
      BY <2>5, NextStage
    <3> QED
      BY <3>1, WaitsForLater
  <2> QED
    BY <1>2, <2>2, <2>3, <2>4, <2>5 DEF Statements
<1> QED
  BY <1>1, <1>2

\* Members whose transactions overlap never wait for each other in a circle,
\* however many there are: the statements of _persist_record take their locks
\* in one order.
THEOREM TransactionsDoNotDeadlock == Spec => []NoLockCycle
<1>1. IndInv => NoLockCycle
  BY LocksAreOrdered
<1> QED
  BY <1>1, Invariance, PTL

-----------------------------------------------------------------------------
(***************************************************************************)
(* Append-only metrics: rows are only ever added for them, so it is enough *)
(* to count.  What a member counts is what its group has committed, and,   *)
(* between its two commits, the record it works on as well: only the owner *)
(* of the topic commits, and its record is the one after the last          *)
(* committed offset (OwnerIsInStep).                                       *)
(***************************************************************************)
Samples(k, n) == {o \in 1..n : log[MetricTopic][o].key = k}

Kept(n) == \A k \in AppendOnly : Cardinality(Samples(k, n)) <= Len(rows[k])

SamplesKept ==
    /\ Kept(committed[MetricTopic])
    /\ \A w \in Writers :
          pc[w] = "offset" /\ owner[MetricTopic] = w /\ current[w].topic = MetricTopic =>
              Kept(current[w].offset)

RowsKept == \A k \in AppendOnly : Len(rows[k]) <= Len(rows'[k])

\* The samples among the first n events of the metric topic are finitely many.
LEMMA SamplesAreFinite ==
    ASSUME NEW k, NEW n \in Nat
    PROVE  IsFiniteSet(Samples(k, n)) /\ Cardinality(Samples(k, n)) \in Nat
<1>1. IsFiniteSet(1..n)
  BY FS_Interval
<1>2. IsFiniteSet(Samples(k, n))
  BY <1>1, FS_Subset DEF Samples
<1> QED
  BY <1>2, FS_CardinalityType

\* Append-only identities are identities, and their rows are counted.
LEMMA AppendOnlyRows ==
    ASSUME TypeOK, NEW k \in AppendOnly
    PROVE  k \in Keys /\ TopicOf[k] = MetricTopic /\ rows[k] \in Seq(Row) /\ Len(rows[k]) \in Nat
<1>1. k \in Keys /\ TopicOf[k] = MetricTopic
  BY KeysAssumption
<1>2. rows[k] \in Seq(Row)
  BY <1>1 DEF TypeOK
<1> QED
  BY <1>1, <1>2

\* Samples that are stored stay stored, and published events stay as they are.
LEMMA KeptGrows ==
    ASSUME TypeOK, TypeOK', LogGrows, RowsKept, NEW n \in Nat, n <= Len(log[MetricTopic]), Kept(n)
    PROVE  Kept(n)'
<1> SUFFICES ASSUME NEW k \in AppendOnly
             PROVE  Cardinality(Samples(k, n)') <= Len(rows'[k])
  BY DEF Kept
<1>1. MetricTopic \in Topics
  BY DEF Topics
<1>2. Len(log[MetricTopic]) \in Nat
  BY <1>1 DEF TypeOK
<1>3. \A o \in 1..n : log'[MetricTopic][o] = log[MetricTopic][o]
  BY <1>1, <1>2 DEF LogGrows
<1>4. Samples(k, n)' = Samples(k, n)
  BY <1>3 DEF Samples
<1>5. Cardinality(Samples(k, n)) <= Len(rows[k]) /\ Len(rows[k]) <= Len(rows'[k])
  BY DEF Kept, RowsKept
<1>6. Cardinality(Samples(k, n)) \in Nat /\ Len(rows[k]) \in Nat
  BY SamplesAreFinite, AppendOnlyRows
<1>7. Len(rows'[k]) \in Nat
  <2>1. k \in Keys
    BY AppendOnlyRows
  <2>2. rows'[k] \in Seq(Row)
    BY <2>1 DEF TypeOK
  <2> QED
    BY <2>2
<1> QED
  BY <1>4, <1>5, <1>6, <1>7

\* A step that commits no offset and takes no member to its second commit.
LEMMA SamplesFrame ==
    ASSUME IndInv, TypeOK', SamplesKept, LogGrows, RowsKept, UNCHANGED committed,
           \A v \in Writers : pc'[v] = "offset" /\ owner'[MetricTopic] = v =>
               pc[v] = "offset" /\ owner[MetricTopic] = v /\ current'[v] = current[v]
    PROVE  SamplesKept'
<1>1. TypeOK /\ LogIsSound /\ RecordIsSound /\ MetricTopic \in Topics
  BY DEF IndInv, Topics
<1>2. Kept(committed[MetricTopic])'
  <2>1. PICK n : n = committed[MetricTopic]
    OBVIOUS
  <2>2. n \in Nat /\ n <= Len(log[MetricTopic])
    BY <1>1, <2>1 DEF TypeOK, LogIsSound
  <2>3. Kept(n)'
    BY <1>1, <2>1, <2>2, KeptGrows DEF SamplesKept
  <2>4. committed'[MetricTopic] = n
    BY <2>1
  <2> QED
    BY <2>3, <2>4 DEF Kept, Samples
<1>3. ASSUME NEW w \in Writers, pc'[w] = "offset", owner'[MetricTopic] = w,
             current'[w].topic = MetricTopic
      PROVE  Kept(current[w].offset)'
  <2>1. pc[w] = "offset" /\ owner[MetricTopic] = w /\ current'[w] = current[w]
    BY <1>3
  <2>2. PICK n : n = current[w].offset
    OBVIOUS
  <2>3. current[w] \in Records /\ n <= Len(log[current[w].topic])
    BY <1>1, <2>1, <2>2 DEF RecordIsSound, Busy, Stages
  <2>4. n \in Nat /\ n <= Len(log[MetricTopic])
    BY <1>3, <2>1, <2>2, <2>3, BoundsAssumption DEF Records, Offsets
  <2>5. Kept(n)
    BY <1>3, <2>1, <2>2 DEF SamplesKept
  <2>6. Kept(n)'
    BY <1>1, <2>4, <2>5, KeptGrows
  <2>7. current'[w].offset = n
    BY <2>1, <2>2
  <2> QED
    BY <2>6, <2>7 DEF Kept, Samples
<1> QED
  BY <1>2, <1>3 DEF SamplesKept

\* A record counts once more than those before it, and leaves a row more.
LEMMA OneMoreSample ==
    ASSUME NEW n \in Nat, NEW k
    PROVE  Cardinality(Samples(k, n + 1)) <=
               Cardinality(Samples(k, n)) + (IF log[MetricTopic][n + 1].key = k THEN 1 ELSE 0)
<1>1. IsFiniteSet(Samples(k, n)) /\ Cardinality(Samples(k, n)) \in Nat
  BY SamplesAreFinite
<1>2. CASE log[MetricTopic][n + 1].key = k
  <2>1. Samples(k, n + 1) = Samples(k, n) \cup {n + 1}
    BY <1>2 DEF Samples
  <2>2. n + 1 \notin Samples(k, n)
    BY DEF Samples
  <2>3. Cardinality(Samples(k, n + 1)) = Cardinality(Samples(k, n)) + 1
    BY <1>1, <2>1, <2>2, FS_AddElement
  <2> QED
    BY <1>1, <1>2, <2>3
<1>3. CASE log[MetricTopic][n + 1].key # k
  <2>1. Samples(k, n + 1) = Samples(k, n)
    BY <1>3 DEF Samples
  <2> QED
    BY <1>1, <1>3, <2>1
<1> QED
  BY <1>2, <1>3

\* The commit of a transaction stores a sample, and replaces none.
LEMMA InstallAppends ==
    ASSUME IndInv, NEW w \in Writers, pc[w] = "commit", Install(w), NEW k \in AppendOnly
    PROVE  Len(rows'[k]) = Len(rows[k]) + (IF Event(w).key = k THEN 1 ELSE 0)
<1>1. /\ k \in Keys /\ rows[k] \in Seq(Row) /\ Len(rows[k]) \in Nat
      /\ rows \in [Keys -> Seq(Row)]
  BY AppendOnlyRows DEF IndInv, TypeOK
<1>2. CASE Event(w).key = k
  <2>1. "payload" \in Executed(pc[w])
    BY DEF Executed, Statements
  <2>2. "payload" \notin found[w]
    BY <1>2, <2>1 DEF IndInv, FoundIsCurrent
  <2>3. rows'[k] = Append(rows[k], [ts |-> Event(w).version, version |-> Event(w).version])
    BY <1>1, <1>2, <2>2 DEF Install, Upserted
  <2> QED
    BY <1>1, <1>2, <2>3
<1>3. CASE Event(w).key # k
  BY <1>1, <1>3 DEF Install
<1> QED
  BY <1>2, <1>3

\* The commit of a transaction, whether its member learns so or not, counts the
\* record of the member that goes on to the offset.
LEMMA InstallKeepsSamples ==
    ASSUME IndInv, IndInv', SamplesKept, NEW w \in Writers, pc[w] = "commit", Install(w),
           UNCHANGED <<kafka, current>>, \A v \in Writers \ {w} : pc'[v] = pc[v]
    PROVE  SamplesKept'
<1>1. LogGrows /\ TypeOK /\ TypeOK' /\ UNCHANGED <<log, owner, committed>> /\ MetricTopic \in Topics
  BY LogKept DEF IndInv, kafka, Topics
<1>2. RowsKept
  <2> SUFFICES ASSUME NEW k \in AppendOnly
               PROVE  Len(rows[k]) <= Len(rows'[k])
    BY DEF RowsKept
  <2>1. Len(rows[k]) \in Nat
    BY <1>1, AppendOnlyRows
  <2> DEFINE more == IF Event(w).key = k THEN 1 ELSE 0
  <2>2. more \in Nat /\ Len(rows'[k]) = Len(rows[k]) + more
    BY InstallAppends
  <2> HIDE DEF more
  <2> QED
    BY <2>1, <2>2
<1>3. CASE pc'[w] = "offset" /\ owner[MetricTopic] = w /\ current[w].topic = MetricTopic
  <2>1. PICK n : n = committed[MetricTopic]
    OBVIOUS
  <2>2. /\ n \in Nat /\ n <= Len(log[MetricTopic]) /\ Len(log[MetricTopic]) \in Nat
        /\ current[w].offset = n + 1 /\ n + 1 <= Len(log[MetricTopic])
    <3>1. n \in Nat /\ n <= Len(log[MetricTopic]) /\ Len(log[MetricTopic]) \in Nat
      BY <1>1, <2>1 DEF IndInv, TypeOK, LogIsSound
    <3>2. pc[w] \in Busy /\ pc[w] # "failed"
      BY DEF Busy, Stages, InTransaction
    <3>3. position[MetricTopic] = current[w].offset /\ n = position[MetricTopic] - 1
      BY <1>1, <1>3, <2>1, <3>2 DEF IndInv, OwnerIsInStep
    <3>4. position[MetricTopic] \in Nat
      BY <1>1 DEF TypeOK
    <3>5. position[MetricTopic] <= Len(log[MetricTopic])
      BY <1>1 DEF IndInv, LogIsSound
    <3> QED
      BY <3>1, <3>3, <3>4, <3>5
  <2>3. Event(w) = log[MetricTopic][n + 1]
    BY <1>3, <2>2 DEF Event
  <2>4. ASSUME NEW k \in AppendOnly
        PROVE  Cardinality(Samples(k, n + 1)) <= Len(rows'[k])
    <3> DEFINE more == IF Event(w).key = k THEN 1 ELSE 0
    <3>1. more \in Nat /\ Len(rows'[k]) = Len(rows[k]) + more
      BY InstallAppends
    <3>2. Cardinality(Samples(k, n + 1)) <= Cardinality(Samples(k, n)) + more
      BY <2>2, <2>3, OneMoreSample
    <3>3. Cardinality(Samples(k, n)) <= Len(rows[k])
      BY <2>1 DEF SamplesKept, Kept
    <3>4. /\ Cardinality(Samples(k, n)) \in Nat /\ Cardinality(Samples(k, n + 1)) \in Nat
          /\ Len(rows[k]) \in Nat
      BY <1>1, <2>2, SamplesAreFinite, AppendOnlyRows
    <3> HIDE DEF more
    <3> QED
      BY <3>1, <3>2, <3>3, <3>4
  <2>5. \A k : Samples(k, n + 1)' = Samples(k, n + 1)
    BY <1>1 DEF Samples
  <2>6. Kept(n + 1)'
    BY <2>4, <2>5 DEF Kept
  <2>7. Kept(n)'
    BY <1>1, <1>2, <2>1, <2>2, KeptGrows DEF SamplesKept
  <2>8. committed'[MetricTopic] = n
    BY <1>1, <2>1
  <2>9. Kept(committed[MetricTopic])'
    BY <2>7, <2>8 DEF Kept, Samples
  <2>10. ASSUME NEW v \in Writers, pc'[v] = "offset", owner'[MetricTopic] = v
         PROVE  Kept(current[v].offset)'
    <3>1. v = w /\ current'[v].offset = n + 1
      BY <1>1, <1>3, <2>2, <2>10
    <3> QED
      BY <2>6, <3>1 DEF Kept, Samples
  <2> QED
    BY <2>9, <2>10 DEF SamplesKept
<1>4. CASE ~(pc'[w] = "offset" /\ owner[MetricTopic] = w /\ current[w].topic = MetricTopic)
  <2>1. Kept(committed[MetricTopic])'
    <3>1. PICK n : n = committed[MetricTopic]
      OBVIOUS
    <3>2. n \in Nat /\ n <= Len(log[MetricTopic])
      BY <1>1, <3>1 DEF IndInv, TypeOK, LogIsSound
    <3>3. Kept(n)' /\ committed'[MetricTopic] = n
      BY <1>1, <1>2, <3>1, <3>2, KeptGrows DEF SamplesKept
    <3> QED
      BY <3>3 DEF Kept, Samples
  <2>2. ASSUME NEW v \in Writers, pc'[v] = "offset", owner'[MetricTopic] = v,
               current'[v].topic = MetricTopic
        PROVE  Kept(current[v].offset)'
    <3>1. v # w /\ pc[v] = "offset" /\ owner[MetricTopic] = v /\ current'[v] = current[v]
      BY <1>1, <1>4, <2>2
    <3>2. PICK n : n = current[v].offset
      OBVIOUS
    <3>3. current[v] \in Records /\ n <= Len(log[current[v].topic])
      BY <3>1, <3>2 DEF IndInv, RecordIsSound, Busy, Stages
    <3>4. n \in Nat /\ n <= Len(log[MetricTopic])
      BY <2>2, <3>1, <3>2, <3>3, BoundsAssumption DEF Records, Offsets
    <3>5. Kept(n)
      BY <2>2, <3>1, <3>2 DEF SamplesKept
    <3>6. Kept(n)' /\ current'[v].offset = n
      BY <1>1, <1>2, <3>1, <3>2, <3>4, <3>5, KeptGrows
    <3> QED
      BY <3>6 DEF Kept, Samples
  <2> QED
    BY <2>1, <2>2 DEF SamplesKept
<1> QED
  BY <1>3, <1>4

\* The owner of the topic commits what it has counted.
LEMMA OffsetKeepsSamples ==
    ASSUME IndInv, IndInv', SamplesKept, NEW w \in Writers, pc[w] = "offset",
           owner[current[w].topic] = w, pc'[w] # "offset",
           committed' = [committed EXCEPT ![current[w].topic] = current[w].offset],
           UNCHANGED <<log, owner, database>>,
           \A v \in Writers \ {w} : pc'[v] = pc[v] /\ current'[v] = current[v]
    PROVE  SamplesKept'
<1>1. MetricTopic \in Topics /\ committed \in [Topics -> Nat] /\ rows' = rows
  BY DEF IndInv, TypeOK, Topics, database
<1>2. \A n : Kept(n) => Kept(n)'
  BY <1>1 DEF Kept, Samples
<1>3. Kept(committed[MetricTopic])'
  <2>1. PICK n : n = committed'[MetricTopic]
    OBVIOUS
  <2>2. CASE current[w].topic = MetricTopic
    <3>1. n = current[w].offset
      BY <1>1, <2>1, <2>2
    <3>2. Kept(n)'
      BY <1>2, <2>2, <3>1 DEF SamplesKept
    <3> QED
      BY <2>1, <3>2 DEF Kept, Samples
  <2>3. CASE current[w].topic # MetricTopic
    <3>1. n = committed[MetricTopic]
      BY <1>1, <2>1, <2>3
    <3>2. Kept(n)'
      BY <1>2, <3>1 DEF SamplesKept
    <3> QED
      BY <2>1, <3>2 DEF Kept, Samples
  <2> QED
    BY <2>2, <2>3
<1>4. ASSUME NEW v \in Writers, pc'[v] = "offset", owner'[MetricTopic] = v,
             current'[v].topic = MetricTopic
      PROVE  Kept(current[v].offset)'
  <2>1. v # w /\ pc[v] = "offset" /\ owner[MetricTopic] = v /\ current'[v] = current[v]
    BY <1>4
  <2>2. PICK n : n = current[v].offset
    OBVIOUS
  <2>3. Kept(n)' /\ current'[v].offset = n
    BY <1>2, <1>4, <2>1, <2>2 DEF SamplesKept
  <2> QED
    BY <2>3 DEF Kept, Samples
<1> QED
  BY <1>3, <1>4 DEF SamplesKept

\* Publish adds to the log.
LEMMA PublishGrows ==
    ASSUME TypeOK, NEW t \in Topics, Publish(t)
    PROVE  LogGrows
<1>1. PICK e \in Events : log' = [log EXCEPT ![t] = Append(@, e)]
  BY BoundsAssumption DEF Publish, Events
<1>2. /\ log'[t] = Append(log[t], e) /\ log[t] \in Seq(Events)
      /\ \A s \in Topics \ {t} : log'[s] = log[s] /\ log[s] \in Seq(Events)
  BY <1>1 DEF TypeOK
<1> SUFFICES ASSUME NEW s \in Topics
             PROVE  /\ Len(log'[s]) \in Nat
                    /\ Len(log[s]) <= Len(log'[s])
                    /\ \A o \in 1..Len(log[s]) : log'[s][o] = log[s][o]
  BY DEF LogGrows
<1>3. CASE s = t
  BY <1>2, <1>3
<1>4. CASE s # t
  BY <1>2, <1>4
<1> QED
  BY <1>3, <1>4

\* Every step keeps the samples.
LEMMA SamplesStep == IndInv /\ IndInv' /\ SamplesKept /\ [Next]_vars => SamplesKept'
<1> SUFFICES ASSUME IndInv, IndInv', SamplesKept, [Next]_vars
             PROVE  SamplesKept'
  OBVIOUS
<1>1. TypeOK /\ TypeOK' /\ OwnerIsInStep /\ MetricTopic \in Topics
  BY DEF IndInv, Topics
<1>2. UNCHANGED rows => RowsKept
  <2> SUFFICES ASSUME UNCHANGED rows, NEW k \in AppendOnly
               PROVE  Len(rows[k]) <= Len(rows'[k])
    BY DEF RowsKept
  <2> QED
    BY <1>1, AppendOnlyRows
<1>3. CASE UNCHANGED vars
  BY <1>1, <1>2, <1>3, LogKept, SamplesFrame DEF vars, kafka, member, database
<1>4. ASSUME NEW t \in Topics, Publish(t)
      PROVE  SamplesKept'
  <2>1. LogGrows
    BY <1>1, <1>4, PublishGrows
  <2> QED
    BY <1>1, <1>2, <1>4, <2>1, SamplesFrame DEF Publish, member, database
<1>5. ASSUME NEW t \in Topics, Revoke(t)
      PROVE  SamplesKept'
  <2>1. UNCHANGED <<log, committed, pc, current, rows>>
    BY <1>5 DEF Revoke, member, database
  <2>2. \A v \in Writers : owner'[MetricTopic] = v => owner[MetricTopic] = v
    BY <1>1, <1>5, WritersAssumption DEF Revoke, TypeOK
  <2> QED
    BY <1>1, <1>2, <2>1, <2>2, LogKept, SamplesFrame
<1>6. ASSUME NEW w \in Writers, NEW t \in Topics, Assign(t, w)
      PROVE  SamplesKept'
  <2>1. UNCHANGED <<log, committed, pc, current, rows>> /\ pc[w] = "idle"
    BY <1>6 DEF Assign, member, database
  <2>2. \A v \in Writers : pc[v] = "offset" /\ owner'[MetricTopic] = v => owner[MetricTopic] = v
    BY <1>1, <1>6, <2>1 DEF Assign, TypeOK
  <2> QED
    BY <1>1, <1>2, <2>1, <2>2, LogKept, SamplesFrame
<1>7. ASSUME NEW w \in Writers, NEW t \in Topics, Poll(w, t)
      PROVE  SamplesKept'
  <2>1. UNCHANGED <<log, owner, committed, rows>>
    BY <1>7 DEF Poll, database
  <2>2. \A v \in Writers : pc'[v] = "offset" => pc[v] = "offset" /\ current'[v] = current[v]
    BY <1>1, <1>7 DEF Poll, Validated, TypeOK
  <2> QED
    BY <1>1, <1>2, <2>1, <2>2, LogKept, SamplesFrame
<1>8. ASSUME NEW w \in Writers, UNCHANGED <<log, committed, rows>>,
             pc'[w] # "offset", \A t \in Topics : owner'[t] \in Writers => owner'[t] = owner[t],
             \A v \in Writers \ {w} : pc'[v] = pc[v] /\ current'[v] = current[v]
      PROVE  SamplesKept'
  BY <1>1, <1>2, <1>8, LogKept, SamplesFrame
<1>9. ASSUME NEW w \in Writers, Start(w)
      PROVE  SamplesKept'
  BY <1>1, <1>8, <1>9 DEF Start, kafka, database, TypeOK
<1>10. ASSUME NEW w \in Writers, PersistPayload(w)
       PROVE  SamplesKept'
  BY <1>1, <1>8, <1>10 DEF PersistPayload, Execute, Fails, kafka, database, TypeOK
<1>11. ASSUME NEW w \in Writers,
              PersistCheckpoint(w) \/ PersistWriteMs(w) \/ PersistRowsUpserted(w)
       PROVE  SamplesKept'
  BY <1>1, <1>8, <1>11
     DEF PersistCheckpoint, PersistWriteMs, PersistRowsUpserted, Execute, kafka, database, TypeOK
<1>12. ASSUME NEW w \in Writers, CommitTransaction(w)
       PROVE  SamplesKept'
  BY <1>1, <1>12, InstallKeepsSamples DEF CommitTransaction, TypeOK
<1>13. ASSUME NEW w \in Writers, TransactionFails(w)
       PROVE  SamplesKept'
  <2>1. pc'[w] = "failed" /\ (\A v \in Writers \ {w} : pc'[v] = pc[v]) /\ UNCHANGED <<kafka, current>>
    BY <1>1, <1>13 DEF TransactionFails, Fails, TypeOK
  <2>2. CASE UNCHANGED database
    BY <1>8, <2>1, <2>2 DEF kafka, database
  <2>3. CASE pc[w] = "commit" /\ Install(w)
    BY <2>1, <2>3, InstallKeepsSamples
  <2> QED
    BY <1>13, <2>2, <2>3 DEF TransactionFails
<1>14. ASSUME NEW w \in Writers, CommitOffset(w)
       PROVE  SamplesKept'
  BY <1>1, <1>14, OffsetKeepsSamples DEF CommitOffset, TypeOK
<1>15. ASSUME NEW w \in Writers, OffsetCommitFails(w)
       PROVE  SamplesKept'
  <2>1. /\ pc[w] = "offset" /\ owner[current[w].topic] = w /\ pc'[w] = "failed"
        /\ UNCHANGED <<log, owner, current, database>>
        /\ \A v \in Writers \ {w} : pc'[v] = pc[v]
    BY <1>1, <1>15 DEF OffsetCommitFails, Fails, TypeOK
  <2>2. CASE UNCHANGED committed
    BY <1>8, <2>1, <2>2 DEF database
  <2>3. CASE committed' = [committed EXCEPT ![current[w].topic] = current[w].offset]
    BY <2>1, <2>3, OffsetKeepsSamples
  <2> QED
    BY <1>15, <2>2, <2>3 DEF OffsetCommitFails
<1>16. ASSUME NEW w \in Writers, OffsetCommitFenced(w)
       PROVE  SamplesKept'
  BY <1>1, <1>8, <1>16 DEF OffsetCommitFenced, Fails, kafka, database, TypeOK
<1>17. ASSUME NEW w \in Writers, Evict(w)
       PROVE  SamplesKept'
  <2>1. UNCHANGED <<log, committed, pc, current, rows>>
    BY <1>17 DEF Evict, member, database
  <2>2. \A v \in Writers : owner'[MetricTopic] = v => owner[MetricTopic] = v
    BY <1>1, <1>17, AbandonedFacts DEF Evict
  <2> QED
    BY <1>1, <1>2, <2>1, <2>2, LogKept, SamplesFrame
<1>18. ASSUME NEW w \in Writers, EmitFailureMetric(w) \/ EmitFailureMetricFails(w) \/ Crash(w)
       PROVE  SamplesKept'
  <2>1. Gone(w) /\ UNCHANGED rows
    BY <1>18 DEF EmitFailureMetric, EmitFailureMetricFails, Crash, database
  <2>2. \A t \in Topics : owner'[t] \in Writers => owner'[t] = owner[t]
    BY <1>1, <2>1, AbandonedFacts DEF Gone
  <2> QED
    BY <1>1, <1>8, <2>1, <2>2 DEF Gone, TypeOK
<1> QED
  BY <1>3, <1>4, <1>5, <1>6, <1>7, <1>9, <1>10, <1>11, <1>12, <1>13, <1>14, <1>15, <1>16,
     <1>17, <1>18 DEF Next, Work, Disrupt

\* None of the committed samples of an append-only metric is missing from the
\* database, however often its events are delivered and whoever is evicted.
THEOREM SamplesAreNotLost == Spec => []AppendOnlyKeepsAll
<1>1. Init => SamplesKept
  <2> SUFFICES ASSUME Init PROVE SamplesKept
    OBVIOUS
  <2>1. MetricTopic \in Topics /\ committed[MetricTopic] = 0
    BY DEF Init, Topics
  <2>2. \A k : Samples(k, committed[MetricTopic]) = {}
    BY <2>1 DEF Samples
  <2>3. \A k \in AppendOnly : Len(rows[k]) = 0
    BY KeysAssumption DEF Init
  <2>4. Kept(committed[MetricTopic])
    <3>1. \A k \in AppendOnly : Cardinality(Samples(k, committed[MetricTopic])) = 0
      BY <2>2, FS_EmptySet
    <3> QED
      BY <2>3, <3>1 DEF Kept
  <2>5. \A w \in Writers : pc[w] # "offset"
    BY DEF Init
  <2> QED
    BY <2>4, <2>5 DEF SamplesKept
<1>2. SamplesKept => AppendOnlyKeepsAll
  BY DEF SamplesKept, Kept, Samples, AppendOnlyKeepsAll
<1> QED
  BY <1>1, <1>2, SamplesStep, Invariance, PTL DEF Spec

-----------------------------------------------------------------------------
(***************************************************************************)
(* The refinement.  While no member outlives its assignment, a member that *)
(* is busy owns the topic of its record, so the last checkpoint of a topic *)
(* is the committed offset or the one after it: a transaction applies the  *)
(* next event or applies the last one again.  The second changes nothing   *)
(* but an append-only metric, because the row is still the one the event   *)
(* left.                                                                   *)
(***************************************************************************)
NoEvictions == MaxOf["eviction"] = 0

IsLast(t, n) ==
    /\ n \in {0} \cup {checkpoint[t][r] : r \in Runs}
    /\ \A r \in Runs : checkpoint[t][r] <= n

\* The row that the event at offset n of topic t leaves.
LeavesRow(t, n) ==
    LET e == log[t][n] IN
    e.key \notin AppendOnly =>
        /\ Len(rows[e.key]) = 1
        /\ rows[e.key][1].version = e.version
        /\ t # FeatureTopic => rows[e.key][1].ts = e.version

AppliedTo(t, n) ==
    /\ IsLast(t, n)
    /\ n \in {committed[t], committed[t] + 1}
    /\ n > 0 => LeavesRow(t, n)

InOrder ==
    /\ \A w \in Writers : pc[w] \in Busy => owner[current[w].topic] = w
    /\ \A t \in Topics : \E n \in Nat : AppliedTo(t, n)
    /\ \A w \in Writers : pc[w] = "offset" => IsLast(current[w].topic, current[w].offset)

\* The greatest of a topic's checkpoints is unique.
LEMMA LastIsUnique ==
    ASSUME NEW f, NEW n \in Nat, \A r \in Runs : f[r] \in Nat,
           n \in {0} \cup {f[r] : r \in Runs}, \A r \in Runs : f[r] <= n
    PROVE  (CHOOSE o \in {0} \cup {f[r] : r \in Runs} : \A r \in Runs : f[r] <= o) = n
<1> DEFINE S == {0} \cup {f[r] : r \in Runs}
           P(o) == \A r \in Runs : f[r] <= o
<1>1. n \in S /\ P(n)
  OBVIOUS
<1>2. ASSUME NEW o \in S, P(o)
      PROVE  o = n
  <2>1. o \in Nat
    OBVIOUS
  <2>2. n <= o
    BY <1>1, <1>2, <2>1
  <2>3. o <= n
    BY <1>1, <1>2, <2>1
  <2> QED
    BY <2>1, <2>2, <2>3
<1>3. (CHOOSE o \in S : P(o)) = n
  <2> HIDE DEF S, P
  <2> QED
    BY <1>1, <1>2
<1> QED
  BY <1>3

\* LastCheckpoint is that checkpoint, before and after a step.
LEMMA LastIsLast ==
    ASSUME TypeOK, TypeOK', NEW t \in Topics, NEW n \in Nat
    PROVE  /\ IsLast(t, n) => LastCheckpoint(t) = n
           /\ IsLast(t, n)' => LastCheckpoint(t)' = n
<1>1. /\ \A r \in Runs : checkpoint[t][r] \in Nat
      /\ \A r \in Runs : checkpoint'[t][r] \in Nat
  BY BoundsAssumption DEF TypeOK
<1>2. ASSUME IsLast(t, n) PROVE LastCheckpoint(t) = n
  BY <1>1, <1>2, LastIsUnique DEF IsLast, LastCheckpoint
<1>3. ASSUME IsLast(t, n)' PROVE LastCheckpoint(t)' = n
  BY <1>1, <1>3, LastIsUnique DEF IsLast, LastCheckpoint
<1> QED
  BY <1>2, <1>3

\* A last checkpoint is an offset of the log.
LEMMA LastIsPublished ==
    ASSUME IndInv, NEW t \in Topics, NEW n \in Nat, IsLast(t, n), n > 0
    PROVE  n \in 1..Len(log[t])
<1>1. PICK r \in Runs : n = checkpoint[t][r]
  BY DEF IsLast
<1>2. n <= Len(log[t])
  BY <1>1 DEF IndInv, CheckpointIsPersisted
<1>3. Len(log[t]) \in Nat
  BY DEF IndInv, TypeOK
<1> QED
  BY <1>2, <1>3

\* A step that leaves rows, checkpoints and offsets alone leaves the topics alone.
LEMMA AppliedKept ==
    ASSUME IndInv, NEW t \in Topics, NEW n \in Nat, AppliedTo(t, n),
           LogGrows, UNCHANGED <<rows, checkpoint>>, committed'[t] = committed[t]
    PROVE  AppliedTo(t, n)'
<1>1. IsLast(t, n)'
  BY DEF AppliedTo, IsLast
<1>2. n > 0 => LeavesRow(t, n)'
  <2> SUFFICES ASSUME n > 0 PROVE LeavesRow(t, n)'
    OBVIOUS
  <2>1. n \in 1..Len(log[t])
    BY LastIsPublished DEF AppliedTo
  <2>2. log'[t][n] = log[t][n]
    BY <2>1 DEF LogGrows
  <2> QED
    BY <2>2 DEF AppliedTo, LeavesRow
<1> QED
  BY <1>1, <1>2 DEF AppliedTo

\* A step that changes neither rows nor checkpoints keeps the order.
LEMMA OrderFrame ==
    ASSUME IndInv, InOrder, LogGrows, UNCHANGED <<rows, checkpoint, committed>>,
           \A v \in Writers : pc'[v] \in Busy => owner'[current'[v].topic] = v,
           \A v \in Writers : pc'[v] = "offset" => pc[v] = "offset" /\ current'[v] = current[v]
    PROVE  InOrder'
<1>1. \A t \in Topics : \E n \in Nat : AppliedTo(t, n)'
  <2> SUFFICES ASSUME NEW t \in Topics PROVE \E n \in Nat : AppliedTo(t, n)'
    OBVIOUS
  <2>1. PICK n \in Nat : AppliedTo(t, n)
    BY DEF InOrder
  <2>2. AppliedTo(t, n)'
    BY <2>1, AppliedKept
  <2> QED
    BY <2>2
<1>2. \A v \in Writers : pc'[v] = "offset" => IsLast(current[v].topic, current[v].offset)'
  BY DEF InOrder, IsLast
<1> QED
  BY <1>1, <1>2 DEF InOrder

\* What the rows of an identity are after an event: as the abstract sink has it,
\* and as they were if the event had already left its row.
LEMMA UpsertedAsSink ==
    ASSUME NEW k \in Keys, NEW v \in Versions, NEW old \in Seq(Row), NEW existing \in BOOLEAN,
           existing <=> old # <<>> /\ k \notin AppendOnly, k \notin AppendOnly => Len(old) <= 1
    PROVE  /\ Upserted(k, v, old, existing) = Sink!Upserted(k, v, old)
           /\ k \notin AppendOnly =>
                 LET new == Upserted(k, v, old, existing) IN
                 /\ Len(new) = 1
                 /\ new[1].version = v
                 /\ TopicOf[k] # FeatureTopic => new[1].ts = v
                 /\ /\ old # <<>> /\ old[1].version = v
                    /\ TopicOf[k] # FeatureTopic => old[1].ts = v
                    => new = old
<1> DEFINE row == [ts |-> v, version |-> v]
           new == Upserted(k, v, old, existing)
<1>1. row \in Row
  BY DEF Row
<1>2. CASE ~existing
  <2>1. new = Append(old, row) /\ Sink!Upserted(k, v, old) = Append(old, row)
    BY <1>2 DEF Upserted, Sink!Upserted
  <2>2. k \notin AppendOnly => old = <<>>
    BY <1>2
  <2>3. k \notin AppendOnly => Append(old, row) = <<row>>
    BY <2>2
  <2> QED
    BY <2>1, <2>2, <2>3
<1>3. CASE existing
  <2>1. /\ Len(old) = 1 /\ old[1] \in Row /\ old = <<old[1]>> /\ k \notin AppendOnly
        /\ DOMAIN old = 1..1
    BY <1>3
  <2>2. CASE TopicOf[k] = FeatureTopic
    <3>1. [old[1] EXCEPT !.version = v] = [ts |-> old[1].ts, version |-> v]
      BY <2>1 DEF Row
    <3>2. new = [i \in DOMAIN old |-> [old[i] EXCEPT !.version = v]]
      BY <1>3, <2>2 DEF Upserted
    <3>3. new = <<[ts |-> old[1].ts, version |-> v]>>
      BY <2>1, <3>1, <3>2
    <3>4. Sink!Upserted(k, v, old) = <<[ts |-> old[1].ts, version |-> v]>>
      BY <1>3, <2>1, <2>2, <3>1 DEF Sink!Upserted
    <3>5. old[1].version = v => old[1] = [ts |-> old[1].ts, version |-> v]
      BY <2>1 DEF Row
    <3> HIDE DEF new
    <3> QED
      BY <2>1, <2>2, <3>3, <3>4, <3>5 DEF new
  <2>3. CASE TopicOf[k] # FeatureTopic
    <3>1. new = <<row>> /\ Sink!Upserted(k, v, old) = <<row>>
      BY <1>3, <2>1, <2>3 DEF Upserted, Sink!Upserted
    <3>2. old[1].version = v /\ old[1].ts = v => old[1] = row
      BY <2>1 DEF Row
    <3> HIDE DEF new
    <3> QED
      BY <2>1, <2>3, <3>1, <3>2 DEF new
  <2> QED
    BY <2>2, <2>3
<1> QED
  BY <1>2, <1>3

\* The commit of a transaction applies the next event of its topic, or the last
\* one once more.
LEMMA InstallApplies ==
    ASSUME IndInv, IndInv', InOrder, NEW w \in Writers, pc[w] = "commit", Install(w),
           UNCHANGED <<kafka, current>>
    PROVE  \E t \in Topics, o \in Nat :
              /\ t = current[w].topic /\ o = current[w].offset
              /\ IsLast(t, o)'
              /\ \A s \in Topics \ {t} : \A n : IsLast(s, n) => IsLast(s, n)'
              /\ \A s \in Topics : \E n \in Nat : AppliedTo(s, n)'
              /\ [Sink!Next]_(Sink!vars)
<1>1. PICK t, o, k, v : /\ t = current[w].topic /\ o = current[w].offset
                        /\ k = Event(w).key /\ v = Event(w).version
  OBVIOUS
<1>2. TypeOK /\ TypeOK' /\ log' = log /\ committed' = committed
  BY DEF IndInv, kafka
<1>3. /\ t \in Topics /\ o \in 1..Len(log[t])
      /\ k \in Keys /\ k = log[t][o].key /\ RunOf[k] \in Runs
      /\ checkpoint'[t][RunOf[k]] = o
      /\ \A s \in Topics, r \in Runs :
            s # t \/ r # RunOf[k] => checkpoint'[s][r] = checkpoint[s][r]
  BY <1>1, <1>2, InstallFacts
<1>4. o \in Nat /\ o > 0 /\ Len(log[t]) \in Nat /\ o <= Len(log[t])
  <2>1. Len(log[t]) \in Nat
    BY <1>2, <1>3 DEF TypeOK
  <2> QED
    BY <1>3, <2>1
<1>5. pc[w] \in Busy /\ pc[w] # "failed" /\ Executed(pc[w]) = Statements
  BY DEF Busy, Stages, InTransaction, Statements, Executed
<1>6. /\ Event(w) = log[t][o] /\ v \in Versions /\ log[t][o].version = v /\ log[t][o].form = "valid"
      /\ TopicOf[k] = t
  <2>1. MemberSound(w) /\ LogIsSound
    BY Regroup DEF Grouped
  <2> QED
    BY <1>1, <1>2, <1>5, <2>1, EventIsTyped DEF Event, MemberSound, InTransaction
<1>7. committed[t] \in Nat /\ committed[t] = o - 1
  <2>1. committed[t] \in Nat /\ position[t] \in Nat
    BY <1>2, <1>3 DEF TypeOK
  <2>2. owner[t] = w
    BY <1>1, <1>5 DEF InOrder
  <2>3. position[t] = o /\ committed[t] = position[t] - 1
    BY <1>1, <1>3, <1>5, <2>2 DEF IndInv, OwnerIsInStep
  <2> QED
    BY <2>1, <2>3
<1>8. PICK n \in Nat : AppliedTo(t, n)
  BY <1>3 DEF InOrder
<1>9. n \in {o - 1, o}
  BY <1>4, <1>7, <1>8 DEF AppliedTo
<1> DEFINE old == rows[k]
           existing == "payload" \in found[w]
           new == Upserted(k, v, old, existing)
<1>10. /\ rows' = [rows EXCEPT ![k] = new]
       /\ rows'[k] = new
       /\ \A x \in Keys \ {k} : rows'[x] = rows[x]
  BY <1>1, <1>2, <1>3 DEF Install, TypeOK
<1>11. /\ new = Sink!Upserted(k, v, old)
       /\ k \notin AppendOnly =>
             /\ Len(new) = 1
             /\ new[1].version = v
             /\ TopicOf[k] # FeatureTopic => new[1].ts = v
             /\ /\ old # <<>> /\ old[1].version = v
                /\ TopicOf[k] # FeatureTopic => old[1].ts = v
                => new = old
  <2>1. existing \in BOOLEAN
    OBVIOUS
  <2>2. existing <=> old # <<>> /\ k \notin AppendOnly
    BY <1>1, <1>5 DEF IndInv, FoundIsCurrent, Statements
  <2>3. old \in Seq(Row) /\ (k \notin AppendOnly => Len(old) <= 1)
    BY <1>2, <1>3 DEF TypeOK, IndInv, OneRowPerIdentity
  <2>4. k \in Keys /\ v \in Versions
    BY <1>3, <1>6
  <2> HIDE DEF existing, old
  <2> QED
    BY <2>1, <2>2, <2>3, <2>4, UpsertedAsSink
<1> HIDE DEF new, old, existing
<1>12. IsLast(t, o)'
  <2>1. \A r \in Runs : checkpoint[t][r] \in Nat
    BY <1>2, <1>3, BoundsAssumption DEF TypeOK
  <2>2. ASSUME NEW r \in Runs
        PROVE  checkpoint'[t][r] <= o
    <3>1. CASE r = RunOf[k]
      BY <1>3, <1>4, <3>1
    <3>2. CASE r # RunOf[k]
      <4>1. checkpoint'[t][r] = checkpoint[t][r]
        BY <1>3, <3>2
      <4>2. checkpoint[t][r] \in Nat /\ checkpoint[t][r] <= n
        BY <1>8, <2>1 DEF AppliedTo, IsLast
      <4>3. n <= o
        BY <1>4, <1>9
      <4> QED
        BY <1>4, <4>1, <4>2, <4>3
    <3> QED
      BY <3>1, <3>2
  <2> QED
    BY <1>3, <2>2 DEF IsLast
<1>13. AppliedTo(t, o)'
  <2>1. LeavesRow(t, o)'
    BY <1>2, <1>3, <1>6, <1>10, <1>11 DEF LeavesRow
  <2>2. o \in {committed'[t], committed'[t] + 1}
    BY <1>2, <1>4, <1>7
  <2> QED
    BY <1>12, <2>1, <2>2 DEF AppliedTo
<1>14. ASSUME NEW s \in Topics \ {t}, NEW m
       PROVE  IsLast(s, m) => IsLast(s, m)'
  <2>1. \A r \in Runs : checkpoint'[s][r] = checkpoint[s][r]
    BY <1>3
  <2> QED
    BY <2>1 DEF IsLast
<1>15. ASSUME NEW s \in Topics \ {t}, NEW m \in Nat, AppliedTo(s, m)
       PROVE  AppliedTo(s, m)'
  <2>1. m > 0 => LeavesRow(s, m)'
    <3> SUFFICES ASSUME m > 0 PROVE LeavesRow(s, m)'
      OBVIOUS
    <3>1. m \in 1..Len(log[s])
      BY <1>15, LastIsPublished DEF AppliedTo
    <3>2. TopicOf[log[s][m].key] = s
      BY <3>1 DEF IndInv, LogIsSound
    <3>3. log[s] \in Seq(Events)
      BY <1>2 DEF TypeOK
    <3>4. log[s][m] \in Events
      BY <3>1, <3>3
    <3>5. log[s][m].key \in Keys \ {k}
      BY <1>6, <3>2, <3>4 DEF Events
    <3>6. LeavesRow(s, m)
      BY <1>15 DEF AppliedTo
    <3> QED
      BY <1>2, <1>10, <3>5, <3>6 DEF LeavesRow
  <2> QED
    BY <1>2, <1>14, <1>15, <2>1 DEF AppliedTo
<1>16. \A s \in Topics : \E m \in Nat : AppliedTo(s, m)'
  <2> SUFFICES ASSUME NEW s \in Topics PROVE \E m \in Nat : AppliedTo(s, m)'
    OBVIOUS
  <2>1. CASE s = t
    BY <1>4, <1>13, <2>1
  <2>2. CASE s # t
    <3>1. PICK m \in Nat : AppliedTo(s, m)
      BY DEF InOrder
    <3> QED
      BY <1>15, <2>2, <3>1
  <2> QED
    BY <2>1, <2>2
<1>17. /\ LastCheckpoint(t) = n /\ LastCheckpoint(t)' = o
       /\ \A s \in Topics \ {t} : LastCheckpoint(s)' = LastCheckpoint(s)
  <2>1. LastCheckpoint(t) = n /\ LastCheckpoint(t)' = o
    BY <1>2, <1>3, <1>4, <1>8, <1>12, LastIsLast DEF AppliedTo
  <2>2. ASSUME NEW s \in Topics \ {t}
        PROVE  LastCheckpoint(s)' = LastCheckpoint(s)
    <3>1. PICK m \in Nat : AppliedTo(s, m)
      BY DEF InOrder
    <3>2. IsLast(s, m) /\ IsLast(s, m)'
      BY <1>14, <3>1 DEF AppliedTo
    <3> QED
      BY <1>2, <3>2, LastIsLast
  <2> QED
    BY <2>1, <2>2
<1>18. ASSUME n = o - 1
       PROVE  [Sink!Next]_(Sink!vars)
  <2>1. n < Len(log[t]) /\ n + 1 = o
    BY <1>4, <1>18
  <2>2. [s \in Topics |-> LastCheckpoint(s)]' =
           [[s \in Topics |-> LastCheckpoint(s)] EXCEPT ![t] = n + 1]
    BY <1>3, <1>17, <2>1
  <2>3. rows' = [rows EXCEPT ![log[t][n + 1].key] =
                     Sink!Upserted(log[t][n + 1].key, log[t][n + 1].version, @)]
    BY <1>3, <1>6, <1>10, <1>11, <2>1 DEF old
  <2>4. Sink!Apply(t)
    BY <1>2, <1>3, <1>6, <1>17, <2>1, <2>2, <2>3 DEF Sink!Apply
  <2>5. Sink!Next
    BY <1>3, <2>4 DEF Sink!Next
  <2> QED
    BY <2>5
<1>19. ASSUME n = o
       PROVE  [Sink!Next]_(Sink!vars)
  <2>1. [s \in Topics |-> LastCheckpoint(s)]' = [s \in Topics |-> LastCheckpoint(s)]
    BY <1>17, <1>19
  <2>2. CASE k \in AppendOnly
    <3>1. rows' = [rows EXCEPT ![log[t][n].key] =
                       Sink!Upserted(log[t][n].key, log[t][n].version, @)]
      BY <1>3, <1>6, <1>10, <1>11, <1>19 DEF old
    <3>2. Sink!Redeliver(t)
      BY <1>2, <1>3, <1>4, <1>17, <1>19, <2>1, <2>2, <3>1 DEF Sink!Redeliver
    <3>3. Sink!Next
      BY <1>3, <3>2 DEF Sink!Next
    <3> QED
      BY <3>3
  <2>3. CASE k \notin AppendOnly
    <3>1. LeavesRow(t, o)
      BY <1>4, <1>8, <1>19 DEF AppliedTo
    <3>2. old # <<>> /\ old[1].version = v /\ (TopicOf[k] # FeatureTopic => old[1].ts = v)
      <4>1. Len(old) = 1 /\ old[1].version = v /\ (t # FeatureTopic => old[1].ts = v)
        BY <1>3, <1>6, <2>3, <3>1 DEF LeavesRow, old
      <4>2. old # <<>>
        BY <4>1
      <4> QED
        BY <1>6, <4>1, <4>2
    <3>3. new = old
      BY <1>11, <2>3, <3>2
    <3>4. rows' = rows
      BY <1>2, <1>3, <1>10, <3>3 DEF old, TypeOK
    <3>5. UNCHANGED Sink!vars
      BY <1>2, <2>1, <3>4 DEF Sink!vars
    <3> QED
      BY <3>5
  <2> QED
    BY <2>2, <2>3
<1>20. [Sink!Next]_(Sink!vars)
  BY <1>9, <1>18, <1>19
<1> QED
  BY <1>1, <1>3, <1>4, <1>12, <1>14, <1>16, <1>20

\* A step that leaves the log, the rows and the checkpoints alone is invisible.
LEMMA SinkStutters ==
    ASSUME UNCHANGED <<log, rows, checkpoint>>
    PROVE  [Sink!Next]_(Sink!vars)
<1>1. \A t \in Topics : LastCheckpoint(t)' = LastCheckpoint(t)
  BY DEF LastCheckpoint
<1>2. [t \in Topics |-> LastCheckpoint(t)]' = [t \in Topics |-> LastCheckpoint(t)]
  BY <1>1
<1> QED
  BY <1>2 DEF Sink!vars

\* Most steps of a member are invisible and keep the order.
LEMMA QuietStep ==
    ASSUME IndInv, InOrder, UNCHANGED <<log, rows, checkpoint, committed>>,
           NEW w \in Writers,
           \A v \in Writers \ {w} : pc'[v] = pc[v] /\ current'[v] = current[v],
           \A t \in Topics : owner[t] # w => owner'[t] = owner[t],
           pc'[w] \in Busy => owner'[current'[w].topic] = w,
           pc'[w] # "offset"
    PROVE  InOrder' /\ [Sink!Next]_(Sink!vars)
<1>1. TypeOK /\ LogGrows
  BY LogKept DEF IndInv
<1>2. ASSUME NEW v \in Writers, pc'[v] \in Busy
      PROVE  owner'[current'[v].topic] = v
  <2>1. CASE v = w
    BY <1>2, <2>1
  <2>2. CASE v # w
    <3>1. pc[v] \in Busy /\ current'[v] = current[v]
      BY <1>2, <2>2
    <3>2. current[v].topic \in Topics
      BY <3>1 DEF IndInv, RecordIsSound, Records
    <3>3. owner[current[v].topic] = v
      BY <3>1 DEF InOrder
    <3> QED
      BY <2>2, <3>1, <3>2, <3>3
  <2> QED
    BY <2>1, <2>2
<1>3. InOrder'
  BY <1>1, <1>2, OrderFrame
<1> QED
  BY <1>3, SinkStutters

\* Publish is a step of the sink.
LEMMA PublishInOrder ==
    ASSUME IndInv, InOrder, NEW t \in Topics, Publish(t)
    PROVE  InOrder' /\ [Sink!Next]_(Sink!vars)
<1>1. TypeOK /\ LogGrows
  BY PublishGrows DEF IndInv
<1>2. UNCHANGED <<owner, committed, pc, current, rows, checkpoint>>
  BY DEF Publish, member, database
<1>3. InOrder'
  <2>1. \A v \in Writers : pc'[v] \in Busy => owner'[current'[v].topic] = v
    BY <1>2 DEF InOrder
  <2> QED
    BY <1>1, <1>2, <2>1, OrderFrame
<1>4. Sink!Publish(t)
  <2>1. PICK k \in Keys, v \in Versions, f \in Forms :
           /\ TopicOf[k] = t
           /\ log' = [log EXCEPT ![t] = Append(@, [key |-> k, version |-> v, form |-> f])]
    BY DEF Publish
  <2>2. PICK e : e = [key |-> k, version |-> v, form |-> f]
    OBVIOUS
  <2>3. e \in Sink!Events /\ TopicOf[e.key] = t /\ log' = [log EXCEPT ![t] = Append(@, e)]
    BY <2>1, <2>2 DEF Sink!Events
  <2>4. \A s \in Topics : LastCheckpoint(s)' = LastCheckpoint(s)
    BY <1>2 DEF LastCheckpoint
  <2>5. [s \in Topics |-> LastCheckpoint(s)]' = [s \in Topics |-> LastCheckpoint(s)]
    BY <2>4
  <2>6. Len(log[t]) < MaxLog
    BY DEF Publish
  <2> QED
    BY <1>2, <2>3, <2>5, <2>6 DEF Sink!Publish
<1>5. Sink!Next
  BY <1>4 DEF Sink!Next
<1> QED
  BY <1>3, <1>5

\* So is the commit of a transaction, whether its member learns so or not.
LEMMA InstallInOrder ==
    ASSUME IndInv, IndInv', InOrder, NEW w \in Writers, pc[w] = "commit", Install(w),
           UNCHANGED <<kafka, current>>, pc'[w] \in {"offset", "failed"},
           \A v \in Writers \ {w} : pc'[v] = pc[v]
    PROVE  InOrder' /\ [Sink!Next]_(Sink!vars)
<1>1. PICK t \in Topics, o \in Nat :
         /\ t = current[w].topic /\ o = current[w].offset
         /\ IsLast(t, o)'
         /\ \A s \in Topics \ {t} : \A n : IsLast(s, n) => IsLast(s, n)'
         /\ \A s \in Topics : \E n \in Nat : AppliedTo(s, n)'
         /\ [Sink!Next]_(Sink!vars)
  BY InstallApplies
<1>2. pc[w] \in Busy /\ owner' = owner /\ current' = current
  BY DEF Busy, Stages, InTransaction, kafka
<1>3. \A v \in Writers : pc'[v] \in Busy => owner'[current'[v].topic] = v
  BY <1>2 DEF InOrder
<1>4. ASSUME NEW v \in Writers, pc'[v] = "offset"
      PROVE  IsLast(current[v].topic, current[v].offset)'
  <2>1. CASE v = w
    BY <1>1, <1>2, <2>1 DEF IsLast
  <2>2. CASE v # w
    <3>1. pc[v] = "offset" /\ pc[v] \in Busy
      BY <1>4, <2>2 DEF Busy, Stages
    <3>2. PICK s, n : s = current[v].topic /\ n = current[v].offset
      OBVIOUS
    <3>3. s \in Topics
      BY <3>1, <3>2 DEF IndInv, RecordIsSound, Records
    <3>4. s # t
      BY <1>1, <1>2, <2>2, <3>1, <3>2 DEF InOrder
    <3>5. IsLast(s, n)
      BY <3>1, <3>2 DEF InOrder
    <3>6. IsLast(s, n)'
      BY <1>1, <3>3, <3>4, <3>5
    <3> QED
      BY <1>2, <3>2, <3>6 DEF IsLast
  <2> QED
    BY <2>1, <2>2
<1> QED
  BY <1>1, <1>3, <1>4 DEF InOrder

\* The owner commits the last checkpoint.
LEMMA OffsetInOrder ==
    ASSUME IndInv, IndInv', InOrder, NEW w \in Writers, pc[w] = "offset",
           committed' = [committed EXCEPT ![current[w].topic] = current[w].offset],
           UNCHANGED <<log, owner, rows, checkpoint>>,
           \A v \in Writers \ {w} : pc'[v] = pc[v] /\ current'[v] = current[v],
           pc'[w] \in Busy => current'[w] = current[w], pc'[w] # "offset"
    PROVE  InOrder' /\ [Sink!Next]_(Sink!vars)
<1>1. TypeOK /\ TypeOK' /\ pc[w] \in Busy
  BY DEF IndInv, Busy, Stages
<1>2. PICK t, o : t = current[w].topic /\ o = current[w].offset
  OBVIOUS
<1>3. t \in Topics /\ o \in Nat /\ IsLast(t, o)
  BY <1>1, <1>2, BoundsAssumption DEF IndInv, RecordIsSound, Records, Offsets, InOrder
<1>4. /\ committed'[t] = o
      /\ \A s \in Topics \ {t} : committed'[s] = committed[s]
  BY <1>1, <1>2, <1>3 DEF TypeOK
<1>5. AppliedTo(t, o)'
  <2>1. PICK n \in Nat : AppliedTo(t, n)
    BY <1>3 DEF InOrder
  <2>2. n = o
    BY <1>1, <1>3, <2>1, LastIsLast DEF AppliedTo
  <2>3. IsLast(t, o)' /\ (o > 0 => LeavesRow(t, o)')
    BY <2>1, <2>2 DEF AppliedTo, IsLast, LeavesRow
  <2> QED
    BY <1>4, <2>3 DEF AppliedTo
<1>6. \A s \in Topics : \E n \in Nat : AppliedTo(s, n)'
  <2> SUFFICES ASSUME NEW s \in Topics PROVE \E n \in Nat : AppliedTo(s, n)'
    OBVIOUS
  <2>1. CASE s = t
    BY <1>3, <1>5, <2>1
  <2>2. CASE s # t
    <3>1. PICK n \in Nat : AppliedTo(s, n)
      BY DEF InOrder
    <3>2. committed'[s] = committed[s] /\ LogGrows
      BY <1>1, <1>4, <2>2, LogKept
    <3> QED
      BY <3>1, <3>2, AppliedKept
  <2> QED
    BY <2>1, <2>2
<1>7. \A v \in Writers : pc'[v] \in Busy => owner'[current'[v].topic] = v
  BY <1>1 DEF InOrder
<1>8. \A v \in Writers : pc'[v] = "offset" => IsLast(current[v].topic, current[v].offset)'
  BY DEF InOrder, IsLast
<1> QED
  BY <1>6, <1>7, <1>8, SinkStutters DEF InOrder

\* Every step keeps the order and is a step of the sink, or invisible to it.
LEMMA OrderStep ==
    ASSUME NoEvictions, IndInv, IndInv', InOrder, [Next]_vars
    PROVE  InOrder' /\ [Sink!Next]_(Sink!vars)
<1> DEFINE Goal == InOrder' /\ [Sink!Next]_(Sink!vars)
<1> SUFFICES Goal
  OBVIOUS
<1>1. TypeOK /\ TypeOK' /\ OwnerIsInStep
  BY DEF IndInv
<1>2. ASSUME NEW w \in Writers, UNCHANGED <<log, owner, rows, checkpoint, committed>>,
             \A v \in Writers \ {w} : pc'[v] = pc[v] /\ current'[v] = current[v],
             pc[w] \in Busy, current'[w] = current[w], pc'[w] # "offset"
      PROVE  Goal
  <2>1. owner'[current'[w].topic] = w
    BY <1>2 DEF InOrder
  <2> QED
    BY <1>2, <2>1, QuietStep
<1>3. CASE UNCHANGED vars
  <2>1. UNCHANGED <<log, owner, committed, pc, current, rows, checkpoint>>
    BY <1>3 DEF vars, kafka, member, database
  <2>2. LogGrows /\ \A v \in Writers : pc'[v] \in Busy => owner'[current'[v].topic] = v
    BY <1>1, <2>1, LogKept DEF InOrder
  <2>3. InOrder'
    BY <2>1, <2>2, OrderFrame
  <2> QED
    BY <2>1, <2>3, SinkStutters
<1>4. ASSUME NEW t \in Topics, Publish(t)
      PROVE  Goal
  BY <1>4, PublishInOrder
<1>5. ASSUME NEW t \in Topics, Revoke(t)
      PROVE  Goal
  <2>1. /\ UNCHANGED <<log, rows, checkpoint, committed, pc, current>>
        /\ owner[t] \in Writers /\ pc[owner[t]] = "idle"
        /\ \A s \in Topics \ {t} : owner'[s] = owner[s]
    BY <1>1, <1>5 DEF Revoke, member, database, TypeOK
  <2>2. PICK w \in Writers : w = owner[t]
    BY <2>1
  <2>3. pc[w] \notin Busy
    BY <2>1, <2>2 DEF Busy
  <2> QED
    BY <2>1, <2>2, <2>3, QuietStep DEF Busy, Stages
<1>6. ASSUME NEW w \in Writers, NEW t \in Topics, Assign(t, w)
      PROVE  Goal
  <2>1. /\ UNCHANGED <<log, rows, checkpoint, committed, pc, current>>
        /\ pc[w] = "idle" /\ owner[t] = NoWriter
        /\ \A s \in Topics \ {t} : owner'[s] = owner[s]
    BY <1>1, <1>6 DEF Assign, member, database, TypeOK
  <2>2. LogGrows
    BY <1>1, <2>1, LogKept
  <2>3. ASSUME NEW v \in Writers, pc'[v] \in Busy
        PROVE  owner'[current'[v].topic] = v
    <3>1. pc[v] \in Busy
      BY <2>1, <2>3
    <3>2. current[v].topic \in Topics /\ owner[current[v].topic] = v
      BY <3>1 DEF IndInv, RecordIsSound, Records, InOrder
    <3>3. current[v].topic # t
      BY <2>1, <3>2, WritersAssumption
    <3> QED
      BY <2>1, <3>2, <3>3
  <2>4. InOrder'
    BY <2>1, <2>2, <2>3, OrderFrame
  <2> QED
    BY <2>1, <2>4, SinkStutters
<1>7. ASSUME NEW w \in Writers, NEW t \in Topics, Poll(w, t)
      PROVE  Goal
  <2>1. /\ UNCHANGED <<log, owner, rows, checkpoint, committed>>
        /\ owner[t] = w
        /\ current'[w] = [topic |-> t, offset |-> position[t] + 1]
        /\ pc'[w] # "offset"
        /\ \A v \in Writers \ {w} : pc'[v] = pc[v] /\ current'[v] = current[v]
    BY <1>1, <1>7 DEF Poll, Validated, database, TypeOK
  <2>2. current'[w].topic = t
    BY <2>1
  <2> QED
    BY <2>1, <2>2, QuietStep
<1>8. ASSUME NEW w \in Writers, Start(w)
      PROVE  Goal
  <2>1. /\ UNCHANGED <<log, owner, rows, checkpoint, committed, current>>
        /\ pc'[w] = "idle" /\ \A v \in Writers \ {w} : pc'[v] = pc[v]
    BY <1>1, <1>8 DEF Start, kafka, database, TypeOK
  <2> QED
    BY <2>1, QuietStep DEF Busy
<1>9. ASSUME NEW w \in Writers, PersistPayload(w)
      PROVE  Goal
  <2>1. pc[w] \in Busy
    BY <1>9 DEF PersistPayload, Busy, Stages, InTransaction, Statements
  <2> QED
    BY <1>1, <1>2, <1>9, <2>1 DEF PersistPayload, Execute, Fails, kafka, database, TypeOK
<1>10. ASSUME NEW w \in Writers,
              PersistCheckpoint(w) \/ PersistWriteMs(w) \/ PersistRowsUpserted(w)
       PROVE  Goal
  <2>1. pc[w] \in Busy
    BY <1>10 DEF PersistCheckpoint, PersistWriteMs, PersistRowsUpserted, Execute, Busy, Stages,
                 InTransaction, Statements
  <2> QED
    BY <1>1, <1>2, <1>10, <2>1
       DEF PersistCheckpoint, PersistWriteMs, PersistRowsUpserted, Execute, kafka, database, TypeOK
<1>11. ASSUME NEW w \in Writers, CommitTransaction(w)
       PROVE  Goal
  BY <1>1, <1>11, InstallInOrder DEF CommitTransaction, TypeOK
<1>12. ASSUME NEW w \in Writers, TransactionFails(w)
       PROVE  Goal
  <2>1. /\ pc'[w] = "failed" /\ UNCHANGED <<kafka, current>>
        /\ \A v \in Writers \ {w} : pc'[v] = pc[v]
    BY <1>1, <1>12 DEF TransactionFails, Fails, TypeOK
  <2>2. pc[w] \in Busy
    BY <1>12 DEF TransactionFails, Busy, Stages, InTransaction, Statements
  <2>3. CASE UNCHANGED database
    BY <1>2, <2>1, <2>2, <2>3 DEF kafka, database
  <2>4. CASE pc[w] = "commit" /\ Install(w)
    BY <2>1, <2>4, InstallInOrder
  <2> QED
    BY <1>12, <2>3, <2>4 DEF TransactionFails
<1>13. ASSUME NEW w \in Writers, CommitOffset(w)
       PROVE  Goal
  BY <1>1, <1>13, OffsetInOrder DEF CommitOffset, Busy, database, TypeOK
<1>14. ASSUME NEW w \in Writers, OffsetCommitFails(w)
       PROVE  Goal
  <2>1. /\ pc[w] = "offset" /\ pc'[w] = "failed" /\ pc[w] \in Busy
        /\ UNCHANGED <<log, owner, current, rows, checkpoint>>
        /\ \A v \in Writers \ {w} : pc'[v] = pc[v]
    BY <1>1, <1>14 DEF OffsetCommitFails, Fails, database, TypeOK, Busy, Stages
  <2>2. CASE UNCHANGED committed
    BY <1>2, <2>1, <2>2
  <2>3. CASE committed' = [committed EXCEPT ![current[w].topic] = current[w].offset]
    BY <2>1, <2>3, OffsetInOrder
  <2> QED
    BY <1>14, <2>2, <2>3 DEF OffsetCommitFails
<1>15. ASSUME NEW w \in Writers, OffsetCommitFenced(w)
       PROVE  Goal
  <2>1. pc[w] = "offset" /\ pc[w] \in Busy /\ owner[current[w].topic] # w
    BY <1>15 DEF OffsetCommitFenced, Busy, Stages
  <2> QED
    BY <2>1 DEF InOrder
<1>16. ASSUME NEW w \in Writers, Evict(w)
       PROVE  Goal
  <2>1. struck["eviction"] \in Nat /\ struck["eviction"] < 0
    BY <1>1, <1>16 DEF Evict, Strikes, NoEvictions, TypeOK, Disruptions
  <2> QED
    BY <2>1
<1>17. ASSUME NEW w \in Writers, EmitFailureMetric(w) \/ EmitFailureMetricFails(w) \/ Crash(w)
       PROVE  Goal
  <2>1. Gone(w) /\ UNCHANGED <<rows, checkpoint>>
    BY <1>17 DEF EmitFailureMetric, EmitFailureMetricFails, Crash, database
  <2>2. /\ pc'[w] = "down" /\ UNCHANGED <<log, committed>>
        /\ \A t \in Topics : owner[t] # w => owner'[t] = owner[t]
        /\ \A v \in Writers \ {w} : pc'[v] = pc[v] /\ current'[v] = current[v]
    BY <1>1, <2>1 DEF Gone, Abandoned, TypeOK
  <2> QED
    BY <2>1, <2>2, QuietStep DEF Busy
<1> HIDE DEF Goal
<1> QED
  BY <1>3, <1>4, <1>5, <1>6, <1>7, <1>8, <1>9, <1>10, <1>11, <1>12, <1>13, <1>14, <1>15, <1>16,
     <1>17 DEF Next, Work, Disrupt

\* Nothing is applied before the first event.
LEMMA OrderInit == Init => InOrder /\ Sink!Init
<1> SUFFICES ASSUME Init PROVE InOrder /\ Sink!Init
  OBVIOUS
<1>1. TypeOK
  BY InitInd DEF IndInv
<1>2. ASSUME NEW t \in Topics
      PROVE  IsLast(t, 0) /\ AppliedTo(t, 0)
  BY DEF Init, IsLast, AppliedTo
<1>3. ASSUME NEW t \in Topics
      PROVE  LastCheckpoint(t) = 0
  <2>1. \A r \in Runs : checkpoint[t][r] = 0
    BY DEF Init
  <2> QED
    BY <1>2, <2>1, LastIsUnique DEF IsLast, LastCheckpoint
<1>4. InOrder
  <2>1. \A w \in Writers : pc[w] = "down"
    BY DEF Init
  <2> QED
    BY <1>2, <2>1 DEF InOrder, Busy, Stages
<1>5. [t \in Topics |-> LastCheckpoint(t)] = [t \in Topics |-> 0]
  BY <1>3
<1> QED
  BY <1>4, <1>5 DEF Init, Sink!Init

\* As long as no evicted member is left running, the writer implements the
\* abstract sink: whatever crashes, fails or is rebalanced, however often, the
\* events of a topic are applied in order, each once, and a redelivery changes
\* nothing but an append-only metric.
THEOREM Implementation ==
    ASSUME NoEvictions
    PROVE  Spec => AppliesInOrder
<1>1. Init => InOrder /\ Sink!Init
  BY OrderInit
<1>2. IndInv /\ IndInv' /\ InOrder /\ [Next]_vars => InOrder' /\ [Sink!Next]_(Sink!vars)
  BY OrderStep
<1> QED
  BY <1>1, <1>2, Invariance, PTL DEF Spec, AppliesInOrder, Sink!Spec
=============================================================================
