-------------------------- MODULE MessagingSchema --------------------------
(***************************************************************************)
(* The tables in generated/protobuf.rs (tags, match arms, sizes) and in    *)
(* generated/model.rs (the fields of the model and the columns of a CSV    *)
(* row).  The program has each of them once per direction, and they have   *)
(* to agree: they are stated apart, as the code has them.                  *)
(***************************************************************************)
EXTENDS Wire

(* A write, in the order of encode(). *)
Put(field, tag) == <<field, tag>>

Empty == [fields |-> <<>>, arms |-> <<>>, encode |-> <<>>, sizes |-> <<>>, max |-> 0]

DeviceInfoFields == [firmware_version |-> Text(32), encoding |-> Enum]
DeviceInfo ==
  [fields |-> DeviceInfoFields,
   arms |-> (1 :> Arm("firmware_version", {2})) @@ (2 :> Arm("encoding", {0})),
   encode |-> <<Put("firmware_version", 10), Put("encoding", 16)>>,
   sizes |-> [firmware_version |-> 1, encoding |-> 1],
   max |-> (33 + 1) + (10 + 1)]

StatusFields == [temperature_celsius |-> F32, validity |-> Enum, synthetic |-> Bool]
Status ==
  [fields |-> StatusFields,
   arms |-> (1 :> Arm("temperature_celsius", {5})) @@ (2 :> Arm("validity", {0}))
              @@ (3 :> Arm("synthetic", {0})),
   encode |-> <<Put("temperature_celsius", 13), Put("validity", 16), Put("synthetic", 24)>>,
   sizes |-> [temperature_celsius |-> 1, validity |-> 1, synthetic |-> 1],
   max |-> (4 + 1) + (10 + 1) + (1 + 1)]

HealthFields ==
  [state |-> Enum, received_requests |-> U32, rejected_datagrams |-> U32,
   send_errors |-> U32, skipped_publications |-> U32]
HealthArms ==
  (1 :> Arm("state", {0})) @@ (2 :> Arm("received_requests", {0}))
    @@ (3 :> Arm("rejected_datagrams", {0})) @@ (4 :> Arm("send_errors", {0}))
    @@ (5 :> Arm("skipped_publications", {0}))
HealthWrites ==
  <<Put("state", 8), Put("received_requests", 16), Put("rejected_datagrams", 24),
    Put("send_errors", 32), Put("skipped_publications", 40)>>
Health ==
  [fields |-> HealthFields, arms |-> HealthArms, encode |-> HealthWrites,
   sizes |-> [f \in DOMAIN HealthFields |-> 1], max |-> (10 + 1) + 4 * (5 + 1)]

Error ==
  [fields |-> [code |-> Enum], arms |-> 1 :> Arm("code", {0}), encode |-> <<Put("code", 8)>>,
   sizes |-> [code |-> 1], max |-> 10 + 1]

EnvelopeFields ==
  [protocol_version |-> U32, kind |-> Enum, device_id |-> Text(32), boot_id |-> Text(16),
   client_session |-> Text(16), request_id |-> U32, sequence |-> U32, uptime_ms |-> U32]
EnvelopeArms ==
  (1 :> Arm("protocol_version", {0})) @@ (2 :> Arm("kind", {0})) @@ (3 :> Arm("device_id", {2}))
    @@ (4 :> Arm("boot_id", {2})) @@ (5 :> Arm("client_session", {2}))
    @@ (6 :> Arm("request_id", {0})) @@ (7 :> Arm("sequence", {0})) @@ (8 :> Arm("uptime_ms", {0}))
    @@ (20 :> Arm("get_device_info", {2})) @@ (21 :> Arm("get_status", {2}))
    @@ (22 :> Arm("get_health", {2})) @@ (23 :> Arm("device_info", {2}))
    @@ (24 :> Arm("status", {2})) @@ (25 :> Arm("health", {2})) @@ (26 :> Arm("error", {2}))
EnvelopeWrites ==
  <<Put("protocol_version", 8), Put("kind", 16), Put("device_id", 26), Put("boot_id", 34),
    Put("client_session", 42), Put("request_id", 48), Put("sequence", 56), Put("uptime_ms", 64)>>
EnvelopeSizes == [f \in DOMAIN EnvelopeFields |-> 1]
Body(schema, tag) == [schema |-> schema, tag |-> tag, size |-> 2]
Bodies ==
  [get_device_info |-> Body(Empty, 162), get_status |-> Body(Empty, 170),
   get_health |-> Body(Empty, 178), device_info |-> Body(DeviceInfo, 186),
   status |-> Body(Status, 194), health |-> Body(Health, 202), error |-> Body(Error, 210)]
LargestBody ==
  CHOOSE n \in {2 + SizeofLenRecord(Bodies[b].schema.max) : b \in DOMAIN Bodies} :
    \A b \in DOMAIN Bodies : 2 + SizeofLenRecord(Bodies[b].schema.max) =< n
EnvelopeMax ==
  (5 + 1) + (10 + 1) + (33 + 1) + (17 + 1) + (17 + 1) + (5 + 1) + (5 + 1) + (5 + 1) + LargestBody
Envelope ==
  [fields |-> EnvelopeFields, arms |-> EnvelopeArms, encode |-> EnvelopeWrites,
   sizes |-> EnvelopeSizes, max |-> EnvelopeMax, bodies |-> Bodies]

(***************************************************************************)
(* The model (model.rs): a function from the fields that are present, the  *)
(* bodies among them.  More than one body may be present in it, but only   *)
(* one in the Protobuf message: to_pb keeps the last one it comes to.      *)
(***************************************************************************)
ModelFields == DOMAIN EnvelopeFields \cup DOMAIN Bodies
BodyOrder == <<"get_device_info", "get_status", "get_health", "device_info", "status", "health", "error">>

Head_of(model) == [f \in DOMAIN model \cap DOMAIN EnvelopeFields |-> model[f]]
to_pb(model) ==
  LET present == SelectSeq(BodyOrder, LAMBDA b : b \in DOMAIN model)
  IN  [head |-> Head_of(model),
       body |-> IF present = <<>> THEN <<>> ELSE <<present[Len(present)], model[present[Len(present)]]>>]
from_pb(envelope) ==
  IF envelope.body = <<>> THEN envelope.head
  ELSE (envelope.body[1] :> envelope.body[2]) @@ envelope.head

(* The columns every row starts with, and those of the body of each kind. *)
CommonColumns ==
  <<"protocol_version", "kind", "device_id", "boot_id", "client_session", "request_id",
    "sequence", "uptime_ms">>
Row(body, columns) == [body |-> body, columns |-> columns]
StatusColumns == <<"temperature_celsius", "validity", "synthetic">>
HealthColumns ==
  <<"state", "received_requests", "rejected_datagrams", "send_errors", "skipped_publications">>
RowsWritten ==
  (1 :> Row("get_device_info", <<>>)) @@ (2 :> Row("get_status", <<>>)) @@ (3 :> Row("get_health", <<>>))
    @@ (11 :> Row("device_info", <<"firmware_version", "encoding">>))
    @@ (12 :> Row("status", StatusColumns)) @@ (13 :> Row("health", HealthColumns))
    @@ (14 :> Row("error", <<"code">>))
    @@ (21 :> Row("status", StatusColumns)) @@ (22 :> Row("health", HealthColumns))
RowRead(body, columns, count) == [body |-> body, columns |-> columns, count |-> count]
RowsRead ==
  (1 :> RowRead("get_device_info", <<>>, 8)) @@ (2 :> RowRead("get_status", <<>>, 8))
    @@ (3 :> RowRead("get_health", <<>>, 8))
    @@ (11 :> RowRead("device_info", <<"firmware_version", "encoding">>, 10))
    @@ (12 :> RowRead("status", StatusColumns, 11)) @@ (13 :> RowRead("health", HealthColumns, 13))
    @@ (14 :> RowRead("error", <<"code">>, 9))
    @@ (21 :> RowRead("status", StatusColumns, 11)) @@ (22 :> RowRead("health", HealthColumns, 13))
==============================================================================
