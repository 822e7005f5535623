--------------------------- MODULE BenchmarkCodec ---------------------------
(***************************************************************************)
(* Encoding and decoding of the benchmark protocol (benchmark.rs): its own *)
(* validation, and the ordinary one for the samples it carries.            *)
(***************************************************************************)
EXTENDS BenchmarkSchema, Formats
Ordinary == INSTANCE MessagingCodec

IsOneOf(m, f, values) == f \in DOMAIN m /\ m[f] \in values
Named(m) == "device_id" \in DOMAIN m /\ m.device_id.len > 0
              /\ m.device_id.class \in {"hex", "zeros", "alnum", "name"}
nonce(m, f) == f \in DOMAIN m /\ m[f].len = 16 /\ m[f].class = "hex"

BodyOf ==
  (1 :> "capabilities") @@ (2 :> "configure") @@ (3 :> "renew") @@ (4 :> "stop") @@ (5 :> "probe")
    @@ (11 :> "limits") @@ (12 :> "result") @@ (15 :> "probe_response") @@ (21 :> "status")
    @@ (22 :> "health")

BodyMatches(m) ==
  /\ "kind" \in DOMAIN m /\ m.kind \in DOMAIN BodyOf
  /\ DOMAIN m \cap DOMAIN Bodies = {BodyOf[m.kind]}

(* Who says what: the uptime is the device's, the sequence a publication's. *)
Numbered(m) ==
  /\ "uptime_ms" \in DOMAIN m <=> m.kind \notin 1..5
  /\ "sequence" \in DOMAIN m <=> m.kind \in {21, 22}
  /\ "request_id" \in DOMAIN m <=> m.kind \notin {21, 22}
  /\ m.kind \notin {21, 22} => m.request_id > 0

(* Capabilities are asked for before the boot and the run are known. *)
OfRun(m) ==
  IF m.kind = 1 THEN {"boot_id", "run_epoch"} \cap DOMAIN m = {}
  ELSE nonce(m, "boot_id") /\ "run_epoch" \in DOMAIN m /\ m.run_epoch > 0

PayloadValid(m) ==
  /\ "payload" \in DOMAIN m <=> m.kind \in {5, 15, 21, 22}
  /\ "payload" \in DOMAIN m => m.payload.class \in {"hex", "zeros", "alnum"}

(* Presence only: the bounds are the service's to check. *)
ConfigureValid(c) == DOMAIN c = DOMAIN ConfigurationFields

LimitsValid(l, format, crc) ==
  /\ DOMAIN l = DOMAIN LimitsFields
  /\ l.encoding = Ordinary!EncodingId[format] /\ l.crc_enabled = (crc = "on")
  /\ l.max_payload_bytes = 512 /\ l.max_datagram_bytes = 1024
  /\ l.min_status_period_us = 1000 /\ l.min_health_period_us = 10000
  /\ l.max_period_us = 10000000 /\ l.min_lease_ms = 2000 /\ l.max_lease_ms = 30000

ResultValid(r) ==
  IsOneOf(r, "code", 1..10) /\ "lease_remaining_ms" \in DOMAIN r /\ r.lease_remaining_ms =< 30000

(* The sample as an ordinary publication. *)
AsOrdinary(m) ==
  [f \in DOMAIN m \cap {"kind", "device_id", "boot_id", "sequence", "uptime_ms", "status", "health"} |->
     m[f]] @@ [protocol_version |-> 1]

SampleValid(m, format) ==
  DOMAIN m \cap {"status", "health"} # {} => IsOk(Ordinary!validate(AsOrdinary(m), format))

BodyValid(m, format, crc) ==
  /\ "configure" \in DOMAIN m => ConfigureValid(m.configure)
  /\ "limits" \in DOMAIN m => LimitsValid(m.limits, format, crc)
  /\ "result" \in DOMAIN m => ResultValid(m.result)
  /\ SampleValid(m, format)

validate(m, format, crc) ==
  IF "protocol_version" \in DOMAIN m /\ m.protocol_version # 1 THEN Err("version")
  ELSE IF /\ "protocol_version" \in DOMAIN m /\ Named(m) /\ nonce(m, "session_id") /\ BodyMatches(m)
          /\ Numbered(m) /\ OfRun(m) /\ PayloadValid(m) /\ BodyValid(m, format, crc)
       THEN Ok(m)
       ELSE Err("validation")

-----------------------------------------------------------------------------
(* An empty cell is no payload, but the kinds that need one have an empty one. *)
WithPayload_Absent(result) == result
WithPayload(result) ==
  IF IsOk(result) /\ IsOneOf(result[2], "kind", {5, 15, 21, 22})
  THEN Ok(result[2] @@ [payload |-> EmptyText])
  ELSE result

parse(format, body) ==
  IF body = <<>> THEN Err("decode")
  ELSE CASE format = "csv" -> WithPayload(ReadRow(Envelope, CommonColumns, RowsRead, body))
         [] format = "json" -> ReadObject(Envelope, body)
         [] format = "protobuf" ->
              LET end == Decode(Envelope, body)
              IN  IF end.ok THEN Ok(from_pb(end)) ELSE Err("decode")

decode(format, crc, datagram) ==
  LET opened == open(crc, datagram)
      parsed == parse(format, opened[2])
      checked == validate(parsed[2], format, crc)
  IN  CASE ~IsOk(opened) -> opened
        [] IsOk(opened) /\ ~IsOk(parsed) -> parsed
        [] OTHER -> IF IsOk(checked) THEN Ok(Ordinary!normalize(parsed[2])) ELSE checked

Body_of(format, m) ==
  CASE format = "csv" -> WriteRow(Envelope, CommonColumns, RowsWritten, m)
    [] format = "json" -> Ok(WriteObject(Envelope, BodyOrder, m))
    [] format = "protobuf" -> Ok(Encode(Envelope, to_pb(m)))

encode(format, crc, m, room) ==
  LET checked == validate(m, format, crc)
      body == Body_of(format, m)
      bytes == IF format = "protobuf" THEN Bytes(body[2]) ELSE 0
  IN  IF ~IsOk(checked) THEN checked
      ELSE IF ~IsOk(body) THEN body
      ELSE IF bytes > room \/ bytes > MAX_BODY THEN Err("size")
      ELSE seal(crc, body[2], bytes, room)

SaidSize(m) == ComputeEnvelopeSize(Envelope, to_pb(m))
==============================================================================
