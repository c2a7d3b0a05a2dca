------------------------------ MODULE EventSink ------------------------------
(***************************************************************************)
(* What the writer promises, with no consumer group, no transaction and no *)
(* crash in sight: every topic is a log that is applied to the sink        *)
(* strictly in order, each event once; a key of a replay-safe kind owns at *)
(* most one row, the one of the last event applied for it; an append-only  *)
(* metric keeps every event, and the redelivery of the last event of a     *)
(* topic may append it again ("at-least-once consumption plus idempotent   *)
(* persistence").  Writer.tla is shown to implement this module whenever   *)
(* no evicted group member is left running.                                *)
(***************************************************************************)
EXTENDS Naturals, Sequences

CONSTANTS
    Topics,         \* topics the sink applies
    FeatureTopic,   \* the topic whose rows keep the ts of their first event
    Keys,           \* logical identities of the events
    TopicOf,        \* the topic each identity is published on
    AppendOnly,     \* identities of metrics without a replay-safe scope
    Versions,       \* contents (ts included) an event can carry
    Forms,          \* "valid", or a form the writer cannot persist
    MaxLog          \* bound: events published per topic

VARIABLES
    log,            \* log[t]: the events published on topic t
    applied,        \* applied[t]: how many of them the sink has applied
    rows            \* rows[k]: the rows stored for identity k

vars == <<log, applied, rows>>

Events == [key : Keys, version : Versions, form : Forms]
Row == [ts : Versions, version : Versions]

\* The rows of identity k once event version v is applied to them.
Upserted(k, v, old) ==
    IF old = <<>> \/ k \in AppendOnly THEN Append(old, [ts |-> v, version |-> v])
    ELSE IF TopicOf[k] = FeatureTopic THEN <<[old[1] EXCEPT !.version = v]>>
    ELSE <<[ts |-> v, version |-> v]>>

Init ==
    /\ log = [t \in Topics |-> <<>>]
    /\ applied = [t \in Topics |-> 0]
    /\ rows = [k \in Keys |-> <<>>]

Publish(t) ==
    /\ Len(log[t]) < MaxLog
    /\ \E e \in Events :
          /\ TopicOf[e.key] = t
          /\ log' = [log EXCEPT ![t] = Append(@, e)]
    /\ UNCHANGED <<applied, rows>>

\* The next event of topic t reaches the sink.
Apply(t) ==
    /\ applied[t] < Len(log[t])
    /\ LET e == log[t][applied[t] + 1] IN
          /\ e.form = "valid"
          /\ rows' = [rows EXCEPT ![e.key] = Upserted(e.key, e.version, @)]
    /\ applied' = [applied EXCEPT ![t] = @ + 1]
    /\ UNCHANGED log

\* The last event of topic t is redelivered: only an append-only metric changes.
Redeliver(t) ==
    /\ applied[t] > 0
    /\ LET e == log[t][applied[t]] IN
          /\ e.key \in AppendOnly
          /\ rows' = [rows EXCEPT ![e.key] = Upserted(e.key, e.version, @)]
    /\ UNCHANGED <<log, applied>>

Next == \E t \in Topics : Publish(t) \/ Apply(t) \/ Redeliver(t)

Spec == Init /\ [][Next]_vars
=============================================================================
