\* Released images only, whose confirmation may fail to be programmed.
SPECIFICATION Spec
CONSTANTS
  factory = factory
  update = update
  messaging = messaging
  forged = forged
  None = None
  Images <- Released
  Signed <- Released
  Kind <- Releases
  Blocks <- Lengths
  Capacity = 2
  Factory = factory
  Faults = {"confirm"}
PROPERTIES RollsBack
