-------------------------- MODULE MCBenchmarkCodec --------------------------
(* The benchmark protocol's codec for TLC: see MCMessagingCodec. *)
EXTENDS BenchmarkCodec
CONSTANTS FormatNames, CrcModes, MaxEdits
VARIABLES format, crc, stage, message, second, room, datagram, edits, verdict

Board == [len |-> 9, class |-> "name"]
Nonce == [len |-> 16, class |-> "hex"]
Most == 2147483647

Base(kind) == [protocol_version |-> 1, kind |-> kind, device_id |-> Board, session_id |-> Nonce]
Asked(kind, id) == Base(kind) @@ [request_id |-> id]
OnRun(m, epoch) == m @@ [boot_id |-> Nonce, run_epoch |-> epoch]
Payload(n) == [payload |-> IF n = 0 THEN EmptyText ELSE [len |-> n, class |-> "alnum"]]

Settings(period) ==
  [payload_bytes |-> 0, pattern_seed |-> Most, status_period_us |-> period,
   health_period_us |-> 10000, lease_ms |-> 30000]
Board_limits(f, c) ==
  [encoding |-> Ordinary!EncodingId[f], crc_enabled |-> (c = "on"), max_payload_bytes |-> 512,
   max_datagram_bytes |-> 1024, min_status_period_us |-> 1000, min_health_period_us |-> 10000,
   max_period_us |-> 10000000, min_lease_ms |-> 2000, max_lease_ms |-> 30000, available |-> FALSE]
Counts(n) ==
  [state |-> 2, received_requests |-> n, rejected_datagrams |-> 0, send_errors |-> 127,
   skipped_publications |-> 16384]
Sample(t) == [temperature_celsius |-> t, validity |-> 1, synthetic |-> TRUE]

Valid ==
  {Asked(1, 1) @@ [capabilities |-> <<>>], OnRun(Asked(2, 128), 1) @@ [configure |-> Settings(0)],
   OnRun(Asked(3, 2), Most) @@ [renew |-> <<>>], OnRun(Asked(4, 3), 2) @@ [stop |-> <<>>],
   OnRun(Asked(5, Most), 1) @@ Payload(512) @@ [probe |-> <<>>],
   OnRun(Asked(11, 1), 1) @@ [uptime_ms |-> 0, limits |-> Board_limits("protobuf", "on")],
   OnRun(Asked(12, 1), 1) @@ [uptime_ms |-> 1, result |-> [code |-> 10, lease_remaining_ms |-> 30000]],
   OnRun(Asked(15, 1), 1) @@ Payload(0) @@ [uptime_ms |-> 1, probe_response |-> <<>>],
   OnRun(Base(21), 1) @@ Payload(1)
     @@ [uptime_ms |-> Most, sequence |-> 0, status |-> Sample("minus_zero")],
   OnRun(Base(22), 1) @@ Payload(511) @@ [uptime_ms |-> 1, sequence |-> 128, health |-> Counts(Most)]}

Invalid ==
  {[Asked(1, 1) EXCEPT !.protocol_version = 2] @@ [capabilities |-> <<>>],
   OnRun(Asked(1, 1), 1) @@ [capabilities |-> <<>>],
   OnRun(Asked(2, 0), 1) @@ [configure |-> Settings(1)],
   OnRun(Asked(2, 1), 1) @@ [configure |-> [payload_bytes |-> 1]],
   OnRun(Asked(3, 1), 1) @@ [renew |-> <<>>, stop |-> <<>>],
   OnRun(Asked(5, 1), 1) @@ Payload(513) @@ [probe |-> <<>>],
   OnRun(Asked(12, 1), 0) @@ [uptime_ms |-> 1, result |-> [code |-> 1, lease_remaining_ms |-> 0]],
   OnRun(Base(21), 1) @@ Payload(1) @@ [uptime_ms |-> 1, sequence |-> 0, status |-> Sample("extreme")]}

MCMessages == Valid \cup Invalid

Raw(num, wire) == [num |-> num, wire |-> wire, size |-> 2, val |-> 0]
MCStrays(m) ==
  {<<Raw(30, 0)>>, <<Raw(12, 2)>>}
    \cup {<<Opening(Bodies[b].tag, 2), Raw(15, 0)>> : b \in DOMAIN m \cap DOMAIN Bodies}

(* The right wire type of a field's number, from what is written. *)
Wrong(tag) == Raw(tag \div 8, IF tag % 8 = 2 THEN 0 ELSE 2)
MCMistyped(m) == {<<Wrong(EnvelopeWrites[i][2])>> : i \in DOMAIN EnvelopeWrites}

(* The limits name the encoding and the mode they are sent in. *)
MCSuited(m, f, c) ==
  IF "limits" \in DOMAIN m
  THEN [m EXCEPT !.limits.encoding = Ordinary!EncodingId[f], !.limits.crc_enabled = (c = "on")]
  ELSE m

INSTANCE Codec WITH
  Messages <- MCMessages, Schema <- Envelope, Strays <- MCStrays, Mistyped <- MCMistyped,
  BodyWith <- Body_of, EncodeWith <- encode, DecodeWith <- decode, SaidSizeOf <- SaidSize,
  Normal <- Ordinary!normalize, Suited <- MCSuited
=============================================================================
