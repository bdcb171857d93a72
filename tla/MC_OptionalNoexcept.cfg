CONSTANTS
  a = a
  b = b
  u = u
  w = w
  Unspecified = Unspecified
  Raw = Raw
  Absent = Absent
  Empty = Empty
  Opts <- MC_Opts
  Values <- MC_Values
  Templates <- MC_CopyingOptional
SPECIFICATION Spec
INVARIANT NoexceptHonoured
