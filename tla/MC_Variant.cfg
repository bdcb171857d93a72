CONSTANTS
  a = a
  b = b
  u = u
  tmp = tmp
  Unspecified = Unspecified
  Raw = Raw
  Absent = Absent
  Invalid = Invalid
  w = w
  Vars <- MC_Vars
  Values <- MC_Values
  Templates <- MC_Templates
  Alternatives = 2
SPECIFICATION Spec
INVARIANTS TypeOK IndexAgrees LifetimesNest NothrowMoveKeepsValid OnlyOneClauseFails
PROPERTIES ValueSemantics CallsReturn
