SPECIFICATION FairSpec
CONSTANTS
  MaxBuffers = 3
  Peers = {p1, p2}
  Program <- ServeAndConnect
  Failures = TRUE
CHECK_DEADLOCK FALSE
INVARIANT TypeOK
INVARIANT BuffersNotShared
INVARIANT AcceptedIsAnswered
PROPERTY StreamEnds
