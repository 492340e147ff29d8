SPECIFICATION FairSpec
CONSTANTS
  NumRanks = 2
  NumThreads = 2
  Batches <- BatchSizes
  PerEpoch = 2
  Epochs = 2
INVARIANT TypeOK
INVARIANT NoRace
INVARIANT StepsExact
PROPERTY TrainingEnds
