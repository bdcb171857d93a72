CONSTANTS
  MaxN = 7
  Keys = {1, 2, 3}
  threshold = 2
  limit_factor = 1
  Hole = Hole
SPECIFICATION Spec
CHECK_DEADLOCK FALSE
INVARIANTS UnguardedInBounds KeepsElements BlocksInOrder Sorts DepthBounded
PROPERTY Terminates
