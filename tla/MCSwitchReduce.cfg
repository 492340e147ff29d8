SPECIFICATION FairSpec
CONSTANTS
  NodeSize = 2
  CntWidth = 1
  Rounds = 4
  LinkDepth = 2
INVARIANT TypeOK
INVARIANT TakenOnce
INVARIANT CompleteMeansAll
PROPERTY ImplementsBarrier
PROPERTY AllRoundsFinish
