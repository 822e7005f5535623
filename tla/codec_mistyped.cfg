\* A known field of another wire type behind a message of the benchmark protocol.
SPECIFICATION Spec
CONSTANTS
  FormatNames = {"protobuf"}
  CrcModes = {"on"}
  MaxEdits = 1
INVARIANTS BenchmarkMistypedSkipped
