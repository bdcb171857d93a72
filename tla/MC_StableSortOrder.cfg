CONSTANTS
  Arrays <- MCArrays
  Moved <- MCMoved
  SelfMoveKeeps = TRUE
  insertion_limit = 3
  merge_sort_chunk_size = 1
  Limits = {3}
  PermutationLimit = 4
SPECIFICATION Spec
INVARIANT StableSortIsStable
CHECK_DEADLOCK FALSE
