\* Every kind of message of both protocols in the three formats, with and without the
\* trailer, and one edit on the way.
SPECIFICATION Spec
CONSTANTS
  FormatNames = {"csv", "json", "protobuf"}
  CrcModes = {"off", "on"}
  MaxEdits = 1
INVARIANTS RoundTrip SizesAgree UnknownSkipped MergedAsOne LayersInOrder AcceptedIsStable
