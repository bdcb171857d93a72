CONSTANTS
  a = a
  b = b
  u = u
  w = w
  tmp = tmp
  Unspecified = Unspecified
  Raw = Raw
  Absent = Absent
  Invalid = Invalid
  Vars <- MC_Vars
  Values <- MC_Values
  Templates <- MC_Templates
  Alternatives = 2
SPECIFICATION Spec
INVARIANT VisitsValid
