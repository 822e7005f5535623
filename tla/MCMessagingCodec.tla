-------------------------- MODULE MCMessagingCodec --------------------------
(***************************************************************************)
(* The messaging protocol's codec for TLC: every kind of message, with the *)
(* numbers at the boundaries of the varint sizes, and messages that are    *)
(* not valid in one way or another.                                        *)
(***************************************************************************)
EXTENDS MessagingCodec
CONSTANTS FormatNames, CrcModes, MaxEdits
VARIABLES format, crc, stage, message, second, room, datagram, edits, verdict

Board == [len |-> 9, class |-> "name"]
Nonce == [len |-> 16, class |-> "hex"]
Most == 2147483647

Base(kind) == [protocol_version |-> 1, kind |-> kind, device_id |-> Board]
Request(kind, id) == Base(kind) @@ [client_session |-> Nonce, request_id |-> id]
Response(kind, up) == Request(kind, 1) @@ [boot_id |-> Nonce, uptime_ms |-> up]
Publication(kind, seq) == Base(kind) @@ [boot_id |-> Nonce, uptime_ms |-> 128, sequence |-> seq]

Info == [firmware_version |-> [len |-> 32, class |-> "print"], encoding |-> 3]
Sample(t) == [temperature_celsius |-> t, validity |-> 1, synthetic |-> TRUE]
Counts(n) ==
  [state |-> 2, received_requests |-> n, rejected_datagrams |-> 0, send_errors |-> 127,
   skipped_publications |-> 16384]

Valid ==
  {Request(1, 1) @@ [get_device_info |-> <<>>], Request(2, Most) @@ [get_status |-> <<>>],
   Request(3, 128) @@ [get_health |-> <<>>], Response(11, 0) @@ [device_info |-> Info],
   Response(12, Most) @@ [status |-> Sample("minus_zero")],
   Response(12, 0) @@ [status |-> [validity |-> 3, synthetic |-> TRUE]],
   Response(13, 5) @@ [health |-> Counts(Most)], Response(14, 5) @@ [error |-> [code |-> 2]],
   Publication(21, 2097152) @@ [status |-> Sample("normal")],
   Publication(22, 0) @@ [health |-> Counts(128)]}

Invalid ==
  {[Request(1, 1) EXCEPT !.protocol_version = 2] @@ [get_device_info |-> <<>>],
   Request(2, 0) @@ [get_status |-> <<>>],
   Request(3, 1) @@ [get_health |-> <<>>, error |-> [code |-> 1]],
   Request(12, 1) @@ [status |-> Sample("normal")],
   Response(14, 1) @@ [health |-> Counts(1)],
   Response(11, 1) @@ [device_info |-> [Info EXCEPT !.firmware_version = EmptyText]],
   Response(13, 1) @@ [health |-> [state |-> -1, send_errors |-> 1]],
   Publication(21, 1) @@ [status |-> Sample("extreme")],
   [Request(1, 1) EXCEPT !.device_id = [len |-> 33, class |-> "name"]] @@ [get_device_info |-> <<>>],
   [Publication(22, 1) EXCEPT !.boot_id.class = "zeros"] @@ [health |-> Counts(1)]}

MCMessages == Valid \cup Invalid

Raw(num, wire) == [num |-> num, wire |-> wire, size |-> 2, val |-> 0]
MCStrays(m) ==
  {<<Raw(30, 0)>>, <<Raw(12, 2)>>}
    \cup {<<Opening(Bodies[b].tag, 2), Raw(9, 0)>> : b \in DOMAIN m \cap DOMAIN Bodies}

(* A known number with another wire type and one zero byte as contents. *)
Wrong(S, num) == Raw(num, IF 2 \in S.arms[num].wires THEN 0 ELSE 2)
MCMistyped(m) ==
  {<<Wrong(Envelope, num)>> : num \in DOMAIN Envelope.arms}
    \cup UNION {{<<Opening(Bodies[b].tag, 2), Wrong(Bodies[b].schema, num)>> :
                   num \in DOMAIN Bodies[b].schema.arms} : b \in DOMAIN m \cap DOMAIN Bodies}

(* device_info names the encoding it is sent in. *)
MCSuited(m, f, c) ==
  IF "device_info" \in DOMAIN m THEN [m EXCEPT !.device_info.encoding = EncodingId[f]] ELSE m

INSTANCE Codec WITH
  Messages <- MCMessages, Schema <- Envelope, Strays <- MCStrays, Mistyped <- MCMistyped,
  BodyWith <- Body_of, EncodeWith <- encode, DecodeWith <- decode, SaidSizeOf <- SaidSize,
  Normal <- normalize, Suited <- MCSuited
=============================================================================
