CONSTANTS
  i1 = i1
  i2 = i2
  Images = {i1, i2}
  Limit = 1
SPECIFICATION Spec
INVARIANTS ImagesHaveFiles
PROPERTIES EmptiedByOverlap
