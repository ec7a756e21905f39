\* The limits of the code.
SPECIFICATION FairPSpec
CONSTANTS
  DegradeLimit = 3
  RecoverLimit = 2
INVARIANTS PTypeOK
PROPERTIES Patient Removed Restored DirectRecovers
