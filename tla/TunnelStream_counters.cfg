\* What the status log reports of a stream's traffic.
SPECIFICATION Spec
CONSTANTS
  Kinds = {"user"}
  Byte = {"Y", "!", "a", "b", "c", "r", "s"}
  Request <- ThreeBytes
  Reply <- TwoBytes
  Window = 2
CHECK_DEADLOCK FALSE
INVARIANTS TrafficReported
