CONSTANTS
  Hrefs = {h1}
  Fields = {f1, f2}
  Values = {v1, v2}
  Unreadable = Unreadable
  None = None
  Discarded = Discarded
  Runs = {s1, s2}
  MaxClock = 3
SPECIFICATION Spec
SYMMETRY Symmetry
INVARIANTS KeptOrReported TokenIsApplied ArchivedWasDeleted
PROPERTIES ImportedOnce
