SPECIFICATION Spec
CONSTANTS
  Layouts <- Cards
  HugePages = 2
  PerHuge = 2
  MaxProbes = 2
  Bases <- Where
  MaxStarts = 2
  Threads = {t1, t2}
  PageSize = 2
  Size = 6
  Sizes <- AllocSizes
  MaxCalls = 3
SYMMETRY Symmetry
CONSTRAINT AllocatorApart
CHECK_DEADLOCK FALSE
INVARIANT MmapHasInstance
