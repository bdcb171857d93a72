CONSTANTS
  Arrays <- MCArrays
  Moved <- MCMoved
  SelfMoveKeeps = TRUE
  insertion_limit = 3
  merge_sort_chunk_size = 1
  Limits = {3, 5, 7}
  PermutationLimit = 4
SPECIFICATION Spec
INVARIANTS KeepsElements Delivers Stable WritesInPlace
CHECK_DEADLOCK FALSE
