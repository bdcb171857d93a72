CONSTANT N = 4
SPECIFICATION Spec
INVARIANTS Inv LifetimesNest MovedValuesAreHeld
PROPERTIES AllOrNothing CallsReturn
