-------------------------- MODULE BenchmarkSchema --------------------------
(***************************************************************************)
(* The tables in generated/benchmark_protobuf.rs and benchmark_model.rs.   *)
(* Unlike those of the messaging protocol, the match arms of these         *)
(* decoders look at the field number only, those of the copies of Status   *)
(* and Health that come with them included.                                *)
(***************************************************************************)
EXTENDS Wire
Messaging == INSTANCE MessagingSchema

Put(field, tag) == <<field, tag>>

(* An arm without a condition on the wire type. *)
Free(field) == Arm(field, AnyWire)

Empty == [fields |-> <<>>, arms |-> <<>>, encode |-> <<>>, sizes |-> <<>>, max |-> 0]

(* The copies: the same tables but for the arms. *)
Status == [Messaging!Status EXCEPT !.arms = [n \in DOMAIN @ |-> Free(@[n].field)]]
Health == [Messaging!Health EXCEPT !.arms = [n \in DOMAIN @ |-> Free(@[n].field)]]

LimitsFields ==
  [encoding |-> Enum, crc_enabled |-> Bool, max_payload_bytes |-> U32, max_datagram_bytes |-> U32,
   min_status_period_us |-> U32, min_health_period_us |-> U32, max_period_us |-> U32,
   min_lease_ms |-> U32, max_lease_ms |-> U32, available |-> Bool]
LimitsArms ==
  (1 :> Free("encoding")) @@ (2 :> Free("crc_enabled")) @@ (3 :> Free("max_payload_bytes"))
    @@ (4 :> Free("max_datagram_bytes")) @@ (5 :> Free("min_status_period_us"))
    @@ (6 :> Free("min_health_period_us")) @@ (7 :> Free("max_period_us")) @@ (8 :> Free("min_lease_ms"))
    @@ (9 :> Free("max_lease_ms")) @@ (10 :> Free("available"))
LimitsMax == (10 + 1) + (1 + 1) + 7 * (5 + 1) + (1 + 1)
LimitsWrites ==
  <<Put("encoding", 8), Put("crc_enabled", 16), Put("max_payload_bytes", 24),
    Put("max_datagram_bytes", 32), Put("min_status_period_us", 40), Put("min_health_period_us", 48),
    Put("max_period_us", 56), Put("min_lease_ms", 64), Put("max_lease_ms", 72), Put("available", 80)>>
LimitsSizes == [f \in DOMAIN LimitsFields |-> 1]
Limits ==
  [fields |-> LimitsFields, arms |-> LimitsArms, encode |-> LimitsWrites, sizes |-> LimitsSizes,
   max |-> LimitsMax]

ConfigurationFields ==
  [payload_bytes |-> U32, pattern_seed |-> U32, status_period_us |-> U32, health_period_us |-> U32,
   lease_ms |-> U32]
ConfigurationArms ==
  (1 :> Free("payload_bytes")) @@ (2 :> Free("pattern_seed")) @@ (3 :> Free("status_period_us"))
    @@ (4 :> Free("health_period_us")) @@ (5 :> Free("lease_ms"))
ConfigurationWrites ==
  <<Put("payload_bytes", 8), Put("pattern_seed", 16), Put("status_period_us", 24),
    Put("health_period_us", 32), Put("lease_ms", 40)>>
ConfigurationSizes == [f \in DOMAIN ConfigurationFields |-> 1]
Configuration ==
  [fields |-> ConfigurationFields, arms |-> ConfigurationArms, encode |-> ConfigurationWrites,
   sizes |-> ConfigurationSizes, max |-> 5 * (5 + 1)]

ResultFields == [code |-> Enum, lease_remaining_ms |-> U32]
ControlResult ==
  [fields |-> ResultFields,
   arms |-> (1 :> Free("code")) @@ (2 :> Free("lease_remaining_ms")),
   encode |-> <<Put("code", 8), Put("lease_remaining_ms", 16)>>,
   sizes |-> [code |-> 1, lease_remaining_ms |-> 1],
   max |-> (10 + 1) + (5 + 1)]

EnvelopeFields ==
  [protocol_version |-> U32, kind |-> Enum, device_id |-> Text(32), boot_id |-> Text(16),
   session_id |-> Text(16), request_id |-> U32, sequence |-> U32, uptime_ms |-> U32,
   payload |-> Text(512), run_epoch |-> U32]
EnvelopeArms ==
  (1 :> Free("protocol_version")) @@ (2 :> Free("kind")) @@ (3 :> Free("device_id"))
    @@ (4 :> Free("boot_id")) @@ (5 :> Free("session_id")) @@ (6 :> Free("request_id"))
    @@ (7 :> Free("sequence")) @@ (8 :> Free("uptime_ms")) @@ (9 :> Free("payload"))
    @@ (10 :> Free("run_epoch"))
BodyArms ==
  (20 :> Free("capabilities")) @@ (21 :> Free("configure")) @@ (22 :> Free("renew")) @@ (23 :> Free("stop"))
    @@ (24 :> Free("probe")) @@ (25 :> Free("limits")) @@ (26 :> Free("result"))
    @@ (27 :> Free("probe_response")) @@ (28 :> Free("status")) @@ (29 :> Free("health"))
EnvelopeWrites ==
  <<Put("protocol_version", 8), Put("kind", 16), Put("device_id", 26), Put("boot_id", 34),
    Put("session_id", 42), Put("request_id", 48), Put("sequence", 56), Put("uptime_ms", 64),
    Put("payload", 74), Put("run_epoch", 80)>>
EnvelopeSizes == [f \in DOMAIN EnvelopeFields |-> 1]
Body_ShortTag(schema, tag) == [schema |-> schema, tag |-> tag, size |-> 1]
Body(schema, tag) == [schema |-> schema, tag |-> tag, size |-> 2]
Bodies ==
  [capabilities |-> Body(Empty, 162), configure |-> Body(Configuration, 170),
   renew |-> Body(Empty, 178), stop |-> Body(Empty, 186), probe |-> Body(Empty, 194),
   limits |-> Body(Limits, 202), result |-> Body(ControlResult, 210),
   probe_response |-> Body(Empty, 218), status |-> Body(Status, 226), health |-> Body(Health, 234)]
HeadMax ==
  (5 + 1) + (10 + 1) + (33 + 1) + (17 + 1) + (17 + 1) + 3 * (5 + 1) + (514 + 1) + (5 + 1)
LargestBody ==
  CHOOSE n \in {2 + SizeofLenRecord(Bodies[b].schema.max) : b \in DOMAIN Bodies} :
    \A b \in DOMAIN Bodies : 2 + SizeofLenRecord(Bodies[b].schema.max) =< n
Envelope ==
  [fields |-> EnvelopeFields, arms |-> EnvelopeArms @@ BodyArms, encode |-> EnvelopeWrites,
   sizes |-> EnvelopeSizes, max |-> HeadMax + LargestBody, bodies |-> Bodies]

(* The model: see MessagingSchema. *)
BodyOrder ==
  <<"capabilities", "configure", "renew", "stop", "probe", "limits", "result", "probe_response",
    "status", "health">>
Head_of(model) == [f \in DOMAIN model \cap DOMAIN EnvelopeFields |-> model[f]]
to_pb(model) ==
  LET present == SelectSeq(BodyOrder, LAMBDA b : b \in DOMAIN model)
  IN  [head |-> Head_of(model),
       body |-> IF present = <<>> THEN <<>> ELSE <<present[Len(present)], model[present[Len(present)]]>>]
from_pb(envelope) ==
  IF envelope.body = <<>> THEN envelope.head
  ELSE (envelope.body[1] :> envelope.body[2]) @@ envelope.head

CommonColumns ==
  <<"protocol_version", "kind", "device_id", "boot_id", "session_id", "request_id", "sequence",
    "uptime_ms", "payload", "run_epoch">>
StatusColumns == <<"temperature_celsius", "validity", "synthetic">>
HealthColumns ==
  <<"state", "received_requests", "rejected_datagrams", "send_errors", "skipped_publications">>
ConfigurationColumns ==
  <<"payload_bytes", "pattern_seed", "status_period_us", "health_period_us", "lease_ms">>
LimitsColumns ==
  <<"encoding", "crc_enabled", "max_payload_bytes", "max_datagram_bytes", "min_status_period_us",
    "min_health_period_us", "max_period_us", "min_lease_ms", "max_lease_ms", "available">>
ResultColumns == <<"code", "lease_remaining_ms">>
Row(body, columns) == [body |-> body, columns |-> columns]
RowsWritten ==
  (1 :> Row("capabilities", <<>>)) @@ (2 :> Row("configure", ConfigurationColumns))
    @@ (3 :> Row("renew", <<>>)) @@ (4 :> Row("stop", <<>>)) @@ (5 :> Row("probe", <<>>))
    @@ (11 :> Row("limits", LimitsColumns)) @@ (12 :> Row("result", ResultColumns))
    @@ (15 :> Row("probe_response", <<>>)) @@ (21 :> Row("status", StatusColumns))
    @@ (22 :> Row("health", HealthColumns))
RowRead(body, columns, count) == [body |-> body, columns |-> columns, count |-> count]
RowsRead ==
  (1 :> RowRead("capabilities", <<>>, 10)) @@ (2 :> RowRead("configure", ConfigurationColumns, 15))
    @@ (3 :> RowRead("renew", <<>>, 10)) @@ (4 :> RowRead("stop", <<>>, 10))
    @@ (5 :> RowRead("probe", <<>>, 10)) @@ (11 :> RowRead("limits", LimitsColumns, 20))
    @@ (12 :> RowRead("result", ResultColumns, 12)) @@ (15 :> RowRead("probe_response", <<>>, 10))
    @@ (21 :> RowRead("status", StatusColumns, 13)) @@ (22 :> RowRead("health", HealthColumns, 15))
==============================================================================
