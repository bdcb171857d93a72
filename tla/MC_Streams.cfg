CONSTANTS
  Texts <- MCTexts
  MaxMakes = 4
  MaxFaults = 2
SPECIFICATION Spec
INVARIANTS ItemsOnce OutputFaithful
 
CHECK_DEADLOCK FALSE
