\* A request of three bytes, one more than the peek reads, and a reply of two.
SPECIFICATION FairSpec
CONSTANTS
  Kinds = {"user", "probe"}
  Byte = {"Y", "!", "a", "b", "c", "r", "s"}
  Request <- ThreeBytes
  Reply <- TwoBytes
  Window = 2
CHECK_DEADLOCK FALSE
INVARIANTS TypeOK Intact ReplyComplete VerifiedByPlugin
PROPERTIES BothEndsClose
