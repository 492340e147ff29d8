SPECIFICATION FairSpec
CONSTANTS
  NumBlocks = 2
  FifoDepth = 2
  SingleBuffer = 30
  MaxPackage = 5
  Portion = 2
  Payload = 3
  FpgaWindow = 5
  CallLengths <- Lengths
  NumCalls = 5
  FirstRecords <- Records
  PayloadWords <- Words
  Timeouts = TRUE
INVARIANT TypeOK
INVARIANT NoOverwriteInUse
INVARIANT DeliveredInOrder
PROPERTY CallsReturn
CHECK_DEADLOCK FALSE
