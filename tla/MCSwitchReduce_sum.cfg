SPECIFICATION Spec
CONSTANTS
  NodeSize = 2
  CntWidth = 8
  Rounds = 2
  LinkDepth = 1
INVARIANT MulticastIsSum
