SPECIFICATION Spec
CONSTANTS
  MaxBuffers = 1
  Peers = {p1, p2}
  Program <- ServeTwo
  Failures = FALSE
CHECK_DEADLOCK FALSE
INVARIANT NoAnswerWithoutBuffer
