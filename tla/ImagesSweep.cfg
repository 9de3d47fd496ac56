CONSTANTS
  i1 = i1
  i2 = i2
  Images = {i1}
  Limit = 1
SPECIFICATION FairSpec
PROPERTIES OrphansAreSwept EmptyNotesEnd
