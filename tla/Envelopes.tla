------------------------------ MODULE Envelopes ------------------------------
(***************************************************************************)
(* The events the services exchange: what build_envelope accepts from a    *)
(* producer, what a consumer accepts from the wire, and the identity both  *)
(* derive from the payload.  A payload is a function from its fields to    *)
(* values; a value is what the checks tell apart of it, its JSON type and  *)
(* its text.  A digest is taken to be injective.                           *)
(***************************************************************************)
EXTENDS ClaimChecks

EventTypes == {"audio.metadata", "audio.segment.ready", "audio.features", "system.metrics"}
Services == {"ingestion", "processing", "writer"}

\* The services an event of a type may come from.
SourcesOf(type) ==
    CASE type = "audio.features" -> {"processing"}
      [] type = "system.metrics" -> Services
      [] OTHER -> {"ingestion"}

Val(is, text) == [is |-> is, text |-> text]

\* JSON types, "null" for a dataclass field that is None, "nan" for any non-finite.
ValueTypes == {"string", "utc", "integer", "float", "nan", "boolean", "object", "null"}

-----------------------------------------------------------------------------
Required(type) ==
    CASE type = "audio.metadata" ->
           {"run_id", "track_id", "artist_id", "genre", "source_audio_uri",
            "validation_status", "duration_s"}
      [] type = "audio.segment.ready" ->
           {"run_id", "track_id", "segment_idx", "artifact_uri", "checksum",
            "sample_rate", "duration_s", "is_last_segment"}
      [] type = "audio.features" ->
           {"ts", "run_id", "track_id", "segment_idx", "artifact_uri", "checksum", "rms",
            "silent_flag", "mel_bins", "mel_frames", "processing_ms"}
      [] type = "system.metrics" ->
           {"ts", "run_id", "service_name", "metric_name", "metric_value"}

Optional(type) ==
    CASE type = "audio.metadata" -> {"subset", "manifest_uri", "checksum"}
      [] type = "system.metrics" -> {"labels_json", "unit"}
      [] OTHER -> {"manifest_uri"}

StringFields == {"run_id", "genre", "source_audio_uri", "validation_status", "manifest_uri",
                 "checksum", "artifact_uri", "service_name", "metric_name", "unit", "subset"}
IntegerFields == {"track_id", "artist_id", "segment_idx"}
CountFields == {"sample_rate", "mel_bins", "mel_frames"}
FlagFields == {"is_last_segment", "silent_flag"}

IsString(v) == v.is \in {"string", "utc"} /\ v.text # ""
IsInteger(v) == v.is = "integer"
IsNumber(v) == v.is \in {"integer", "float"}
Below(bound, v) == v.text \in (IF bound = "zero" THEN {"-1"} ELSE {"-1", "0"})

\* The value a field must have, whatever event it is part of.
Accepts(field, v) ==
    \/ field \in StringFields /\ IsString(v)
    \/ field \in IntegerFields /\ IsInteger(v)
    \/ field \in CountFields /\ IsInteger(v) /\ ~Below("one", v)
    \/ field \in FlagFields /\ v.is = "boolean"
    \/ field \in {"rms", "metric_value"} /\ IsNumber(v)
    \/ field = "duration_s" /\ IsNumber(v) /\ ~Below("one", v)
    \/ field = "processing_ms" /\ IsNumber(v) /\ ~Below("zero", v)
    \/ field = "ts" /\ v.is = "utc"
    \/ field = "labels_json" /\ v.is = "object"

ValidPayload(type, payload) ==
    /\ Required(type) \subseteq DOMAIN payload
    /\ DOMAIN payload \subseteq Required(type) \cup Optional(type)
    /\ \A field \in DOMAIN payload : Accepts(field, payload[field])
    /\ RunIdIsValid(payload["run_id"].text)
    /\ "subset" \in DOMAIN payload => payload["subset"].text = "small"

-----------------------------------------------------------------------------
\* A dataclass is sent without the fields that are None.
Sent(payload) == Restrict(payload, {f \in DOMAIN payload : payload[f].is # "null"})

RunIdOf(payload) == payload["run_id"].text
LabelsOf(payload) ==
    IF "labels_json" \in DOMAIN payload THEN payload["labels_json"].text ELSE "{}"

\* A trace id starts with the run it is about.
TraceIsOf(run, trace) == trace[1] = "run" /\ trace[2] = run
TraceId(payload, source) ==
    IF "track_id" \in DOMAIN payload
    THEN <<"run", RunIdOf(payload), "track", payload["track_id"].text>>
    ELSE IF "service_name" \in DOMAIN payload
         THEN <<"run", RunIdOf(payload), "service", payload["service_name"].text>>
         ELSE <<"run", RunIdOf(payload), "service", source>>

\* Mutant of KeyedScopes: processing_record was forgotten.
KeyedScopesOfTotals == {"run_total", "writer_record"}

\* Metrics of these scopes are snapshots: a later one stands for the same thing.
KeyedScopes == {"run_total", "processing_record", "writer_record"}

IdempotencyKey(type, payload) ==
    LET run == RunIdOf(payload)
        part(field) == payload[field].text
        digest == LabelsOf(payload)
        moment == IF digest \in KeyedScopes THEN digest ELSE part("ts")
    IN  CASE type = "audio.metadata" -> <<type, run, part("track_id")>>
          [] type = "system.metrics" ->
               <<type, run, part("service_name"), part("metric_name"), moment, digest>>
          [] OTHER -> <<type, run, part("track_id"), part("segment_idx")>>

SourceMatchesPayload(type, source, payload) ==
    type = "system.metrics" =>
        "service_name" \in DOMAIN payload /\ payload["service_name"].text = source

\* Mutant of Buildable: a trace id may be of another run.
BuildableAnyTrace(type, source, payload, trace) ==
    LET json == Sent(payload)
    IN  /\ "run_id" \in DOMAIN json
        /\ SourceMatchesPayload(type, source, json)
        /\ ValidPayload(type, json)

\* build_envelope: what a producer may send; it does not check who the producer is.
Buildable(type, source, payload, trace) ==
    LET json == Sent(payload)
    IN  /\ "run_id" \in DOMAIN json
        /\ SourceMatchesPayload(type, source, json)
        /\ ValidPayload(type, json)
        /\ trace # <<>> => TraceIsOf(RunIdOf(json), trace)

Envelope(type, source, payload, trace) ==
    [event_type |-> type, source_service |-> source, run_id |-> RunIdOf(Sent(payload)),
     trace_id |-> IF trace # <<>> THEN trace ELSE TraceId(Sent(payload), source),
     idempotency_key |-> IdempotencyKey(type, Sent(payload)),
     payload |-> Sent(payload)]

\* validate_envelope_dict: what a consumer of a topic accepts.
ValidEnvelope(topic, envelope) ==
    LET type == envelope.event_type
        payload == envelope.payload
    IN  /\ type = topic
        /\ RunIdIsValid(envelope.run_id)
        /\ TraceIsOf(envelope.run_id, envelope.trace_id)
        /\ envelope.source_service \in SourcesOf(type)
        /\ SourceMatchesPayload(type, envelope.source_service, payload)
        /\ "run_id" \in DOMAIN payload
        /\ RunIdOf(payload) = envelope.run_id
        /\ ValidPayload(type, payload)
        /\ envelope.idempotency_key = IdempotencyKey(type, payload)

-----------------------------------------------------------------------------
\* The rows the writer replaces when it stores a payload, {} when it appends.
ReplaySafeScopes == {"run_total", "writer_record", "processing_record"}
RowReplaced(type, payload) ==
    CASE type = "audio.metadata" -> {<<RunIdOf(payload), payload["track_id"].text>>}
      [] type = "audio.features" ->
           {<<RunIdOf(payload), payload["track_id"].text, payload["segment_idx"].text>>}
      [] type = "system.metrics" /\ LabelsOf(payload) \in ReplaySafeScopes ->
           {<<RunIdOf(payload), payload["service_name"].text,
              payload["metric_name"].text, LabelsOf(payload)>>}
      [] OTHER -> {}

-----------------------------------------------------------------------------
\* Payloads that are well formed except, perhaps, for one field.
Plain(field) ==
    CASE field = "run_id" -> Val("string", "run1")
      [] field = "ts" -> Val("utc", "noon")
      [] field = "subset" -> Val("string", "small")
      [] field = "service_name" -> Val("string", "processing")
      [] field \in StringFields \ {"run_id", "subset", "service_name"} -> Val("string", "text")
      [] field \in FlagFields -> Val("boolean", "true")
      [] field = "labels_json" -> Val("object", "{}")
      [] OTHER -> Val("integer", "1")

\* The run of the examples is one that the checks let through.
ASSUME PlainRunAssumption == RunIdIsValid(Plain("run_id").text)

Values == {Val("string", ""), Val("string", "run2"), Val("string", "a/b"),
           Val("string", "writer"), Val("string", "large"), Val("utc", "midnight"),
           Val("integer", "-1"), Val("integer", "0"), Val("integer", "2"),
           Val("float", "1"), Val("nan", "nan"), Val("boolean", "false"),
           Val("object", "run_total"), Val("object", "processing_record"),
           Val("object", "writer_record"), Val("object", "topic"), Val("null", "null")}

Payloads(type) ==
    LET fields == Required(type) \cup Optional(type)
        plain == [f \in fields |-> Plain(f)]
    IN  {plain}
        \cup {[plain EXCEPT ![f] = v] : f \in fields, v \in Values}
        \cup {Restrict(plain, fields \ {f}) : f \in fields}

\* Metrics of every scope taken at two moments.
Snapshots ==
    LET fields == Required("system.metrics") \cup Optional("system.metrics")
        plain == [f \in fields |-> Plain(f)]
    IN  {[plain EXCEPT !["labels_json"] = v, !["ts"] = t] :
            v \in {v \in Values : v.is = "object"},
            t \in {Val("utc", "noon"), Val("utc", "midnight")}}

\* Trace ids a service hands on: none, one of its own run, one of another run.
Traces == {<<>>, <<"run", "run1", "track", "1">>, <<"run", "run2", "track", "1">>}

\* What a service can send and no consumer accepts.
Unconsumable(type) ==
    {e \in SourcesOf(type) \X Payloads(type) \X Traces :
        /\ Buildable(type, e[1], e[2], e[3])
        /\ ~ValidEnvelope(type, Envelope(type, e[1], e[2], e[3]))}
Unconsumed == UNION {Unconsumable(type) : type \in EventTypes}

\* Pairs of events that replace rows and whose keys say otherwise.
Replacing(type) ==
    {p \in Payloads(type) \cup (IF type = "system.metrics" THEN Snapshots ELSE {}) :
        ValidPayload(type, p) /\ RowReplaced(type, p) # {}}
Confused(type) ==
    {e \in Replacing(type) \X Replacing(type) :
        (IdempotencyKey(type, e[1]) = IdempotencyKey(type, e[2]))
            # (RowReplaced(type, e[1]) = RowReplaced(type, e[2]))}
ConfusedEvents == UNION {Confused(type) : type \in EventTypes \ {"audio.segment.ready"}}
=============================================================================
