SPECIFICATION FairOffloadSpec
CONSTANTS
  NumBlocks = 2
  MaxBlock = 2
  MaxPackage = 2
  Overhead = 4
  SingleBuffer = 10
  Lengths <- TwoBlockLengths
  MaxRounds = 2
  PkgLimit = 6
  InfoBound = 1
  TurnTimeouts = TRUE
INVARIANT TypeOK
INVARIANT NoUnreadOverwritten
INVARIANT OneBlockHasTheTurn
INVARIANT BlocksStayInPlan
INVARIANT FlowBound
INVARIANT CallComplete
PROPERTY ImplementsStream
PROPERTY CallDelivered
CHECK_DEADLOCK FALSE
