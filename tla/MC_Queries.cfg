CONSTANTS
  Arrays <- MCArrays
  Keys = {0, 1, 2}
SPECIFICATION Spec
INVARIANTS Finds Compares CombinesSets CopiesSome
CHECK_DEADLOCK FALSE
