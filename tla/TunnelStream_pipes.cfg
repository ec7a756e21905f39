\* A reply larger than the window, and an application that goes away.
SPECIFICATION FairSpec
CONSTANTS
  Kinds = {"user"}
  Byte = {"Y", "!", "a", "r", "s", "t", "u"}
  Request <- OneByte
  Reply <- FourBytes
  Window = 2
CHECK_DEADLOCK FALSE
PROPERTIES PipesReturn
