CONSTANTS
  Ranges <- MCRanges
  Length = 3
  Moved = Moved
SPECIFICATION Spec
PROPERTY Implements
