--------------------------------- MODULE MCCodec ---------------------------------
(***************************************************************************)
(* Both protocols' codecs for TLC.  A node uses one of them throughout.    *)
(***************************************************************************)
CONSTANTS FormatNames, CrcModes, MaxEdits
VARIABLES protocol, format, crc, stage, message, second, room, datagram, edits, verdict

Messaging == INSTANCE MCMessagingCodec
Benchmark == INSTANCE MCBenchmarkCodec

vars == <<protocol, format, crc, stage, message, second, room, datagram, edits, verdict>>

Init ==
  \/ protocol = "messaging" /\ Messaging!Init
  \/ protocol = "benchmark" /\ Benchmark!Init

Next ==
  \/ protocol = "messaging" /\ Messaging!Next /\ UNCHANGED protocol
  \/ protocol = "benchmark" /\ Benchmark!Next /\ UNCHANGED protocol

Spec == Init /\ [][Next]_vars
-----------------------------------------------------------------------------
\* What encode() made is what decode() gives back, in every format and with or without the
\* trailer: the tables the generated code has once per direction agree.
RoundTrip ==
  /\ protocol = "messaging" => Messaging!RoundTrip
  /\ protocol = "benchmark" => Benchmark!RoundTrip

\* The length compute_size declares for a body is the number of bytes that follow, and no
\* message outgrows MAX_SIZE.
SizesAgree ==
  /\ protocol = "messaging" => Messaging!SizesAgree
  /\ protocol = "benchmark" => Benchmark!SizesAgree

\* What a decoder does not know it skips to the byte, inside a body as well; for the messaging
\* protocol's decoders, whose match arms are guarded (generate.py:30), that includes a known
\* field of another wire type.  BenchmarkMistypedSkipped is the same of the benchmark's.
UnknownSkipped ==
  /\ protocol = "messaging" => Messaging!UnknownSkipped /\ Messaging!MistypedSkipped
  /\ protocol = "benchmark" => Benchmark!UnknownSkipped

\* The benchmark's decoders skip a known field of another wire type: "normal Protobuf
\* unknown-field/duplicate-field semantics" (BENCHMARK_CONTRACT.md:57), by which such a
\* field is an unknown one (generate.py:30, PROTOBUF_REVIEW.md:29-31).  The code's match arms
\* (benchmark_protobuf.rs:3782 and following) look at the field number only.
BenchmarkMistypedSkipped == protocol = "benchmark" => Benchmark!MistypedSkipped

\* Two Protobuf messages in a row are their merge, and are accepted exactly when it is valid.
MergedAsOne ==
  /\ protocol = "messaging" => Messaging!MergedAsOne
  /\ protocol = "benchmark" => Benchmark!MergedAsOne

\* The size is rejected before the checksum, the checksum before the body.
LayersInOrder ==
  /\ protocol = "messaging" => Messaging!LayersInOrder
  /\ protocol = "benchmark" => Benchmark!LayersInOrder

\* Whatever is accepted, of whatever origin, can be sent again in every format unchanged.
AcceptedIsStable ==
  /\ protocol = "messaging" => Messaging!AcceptedIsStable
  /\ protocol = "benchmark" => Benchmark!AcceptedIsStable
=============================================================================
