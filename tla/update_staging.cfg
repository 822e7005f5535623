\* Uploads with failing flash and power, a forged image and images of every kind.
SPECIFICATION Spec
CONSTANTS
  factory = factory
  update = update
  messaging = messaging
  forged = forged
  None = None
  Images <- AllImages
  Signed <- Released
  Kind <- AllKinds
  Blocks <- Lengths
  Capacity = 2
  Factory = factory
  Faults = {"erase", "program"}
INVARIANTS PendingIsVerified
PROPERTIES RollsBack FieldSpec
