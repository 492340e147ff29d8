SPECIFICATION Spec
CONSTANTS
  Depth = 4
  QueueNums <- OneOrTwo
  MaxStarts = 1
INVARIANT DoneMeansCreated
CHECK_DEADLOCK FALSE
