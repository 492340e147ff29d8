SPECIFICATION Spec
CONSTANTS
  NodeSize = 2
  CntWidth = 8
  Rounds = 1
  LinkDepth = 1
INVARIANT ResendIsSum
