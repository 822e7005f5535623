--------------------------- MODULE MessagingCodec ---------------------------
(***************************************************************************)
(* Encoding and decoding of the messaging protocol: validation.rs, lib.rs  *)
(* and the functions of framing.rs that combine them with the trailer.     *)
(***************************************************************************)
EXTENDS MessagingSchema, Formats
LOCAL INSTANCE FiniteSetsExt

EncodingId == [csv |-> 1, json |-> 2, protobuf |-> 3]

NameClasses == {"hex", "zeros", "alnum", "name"}
Named(m) == "device_id" \in DOMAIN m /\ m.device_id.len > 0 /\ m.device_id.class \in NameClasses

(* Sixteen lower-case hexadecimal digits that are not all zero. *)
session(m, f) == f \in DOMAIN m /\ m[f].len = 16 /\ m[f].class = "hex"

Correlated(m) ==
  Named(m) /\ session(m, "client_session") /\ "request_id" \in DOMAIN m /\ m.request_id # 0

BodyOf ==
  (1 :> "get_device_info") @@ (2 :> "get_status") @@ (3 :> "get_health") @@ (11 :> "device_info")
    @@ (12 :> "status") @@ (13 :> "health") @@ (14 :> "error") @@ (21 :> "status") @@ (22 :> "health")

BodyMatches(m) ==
  /\ "kind" \in DOMAIN m /\ m.kind \in DOMAIN BodyOf
  /\ DOMAIN m \cap DOMAIN Bodies = {BodyOf[m.kind]}

Addressed(m) ==
  CASE m.kind \in 1..3 -> {"boot_id", "uptime_ms", "sequence"} \cap DOMAIN m = {} /\ Correlated(m)
    [] m.kind \in 11..14 ->
         /\ session(m, "boot_id") /\ "uptime_ms" \in DOMAIN m /\ "sequence" \notin DOMAIN m
         /\ Correlated(m)
    [] m.kind \in {21, 22} ->
         /\ session(m, "boot_id") /\ {"uptime_ms", "sequence"} \subseteq DOMAIN m
         /\ {"client_session", "request_id"} \cap DOMAIN m = {}

(* One of these values is there. *)
IsOneOf(m, f, values) == f \in DOMAIN m /\ m[f] \in values

DeviceInfoValid_AnyVersion(info, format) ==
  IsOneOf(info, "encoding", {EncodingId[format]}) /\ "firmware_version" \in DOMAIN info
DeviceInfoValid(info, format) ==
  /\ IsOneOf(info, "encoding", {EncodingId[format]})
  /\ "firmware_version" \in DOMAIN info /\ info.firmware_version.len > 0
  /\ info.firmware_version.class # "control"

StatusValid(status) ==
  /\ IsOneOf(status, "synthetic", {TRUE})
  /\ IsOneOf(status, "validity", 1..3)
  /\ IF status.validity = 1 THEN IsOneOf(status, "temperature_celsius", {"normal", "zero", "minus_zero"})
     ELSE "temperature_celsius" \notin DOMAIN status

HealthValid(health) == IsOneOf(health, "state", {1, 2}) /\ DOMAIN health = DOMAIN HealthFields

ErrorValid(error) == IsOneOf(error, "code", {1, 2})

BodyValid(m, format) ==
  /\ "device_info" \in DOMAIN m => DeviceInfoValid(m.device_info, format)
  /\ "status" \in DOMAIN m => StatusValid(m.status)
  /\ "health" \in DOMAIN m => HealthValid(m.health)
  /\ "error" \in DOMAIN m => ErrorValid(m.error)

validate(m, format) ==
  IF "protocol_version" \in DOMAIN m /\ m.protocol_version # 1 THEN Err("version")
  ELSE IF /\ "protocol_version" \in DOMAIN m /\ Named(m) /\ BodyMatches(m)
          /\ Addressed(m) /\ BodyValid(m, format)
       THEN Ok(m)
       ELSE Err("validation")

(* The two zeros of a float are one value: -0.0 becomes 0.0. *)
normalize(m) ==
  IF "status" \in DOMAIN m /\ IsOneOf(m.status, "temperature_celsius", {"minus_zero"})
  THEN [m EXCEPT !.status.temperature_celsius = "zero"]
  ELSE m

-----------------------------------------------------------------------------
parse(format, body) ==
  IF body = <<>> THEN Err("decode")
  ELSE CASE format = "csv" -> ReadRow(Envelope, CommonColumns, RowsRead, body)
         [] format = "json" -> ReadObject(Envelope, body)
         [] format = "protobuf" ->
              LET end == Decode(Envelope, body)
              IN  IF end.ok THEN Ok(from_pb(end)) ELSE Err("decode")

Validated(format, parsed) ==
  IF ~IsOk(parsed) THEN parsed
  ELSE LET checked == validate(parsed[2], format)
       IN  IF IsOk(checked) THEN Ok(normalize(parsed[2])) ELSE checked

decode(format, crc, datagram) ==
  LET opened == open(crc, datagram)
  IN  IF IsOk(opened) THEN Validated(format, parse(format, opened[2])) ELSE opened

(* The size of a text encoding is not modelled; it is taken to fit. *)
Body_of(format, m) ==
  CASE format = "csv" -> WriteRow(Envelope, CommonColumns, RowsWritten, m)
    [] format = "json" -> Ok(WriteObject(Envelope, BodyOrder, m))
    [] format = "protobuf" -> Ok(Encode(Envelope, to_pb(m)))

encode(format, crc, m, room) ==
  LET checked == validate(m, format)
      body == Body_of(format, normalize(m))
      bytes == IF format = "protobuf" THEN Bytes(body[2]) ELSE 0
  IN  IF ~IsOk(checked) THEN checked
      ELSE IF ~IsOk(body) THEN body
      ELSE IF bytes > room \/ bytes > MAX_BODY THEN Err("size")
      ELSE seal(crc, body[2], bytes, room)

(* What compute_size says of it. *)
SaidSize(m) == ComputeEnvelopeSize(Envelope, to_pb(normalize(m)))
==============================================================================
