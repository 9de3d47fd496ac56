\* The system stops once its rows are used up and nobody is signed in.
CHECK_DEADLOCK FALSE
CONSTANTS
  a = a
  b = b
  r1 = r1
  w1 = w1
  c1 = c1
  Accounts = {a, b}
  None = None
  Receivers = {r1}
  InboxWorkers = {w1}
  CallWorkers = {c1}
  ReadLimit = 1
  Cap = 1
  MaxEntries = 1
  MaxRows = 2
SYMMETRY Symmetry
SPECIFICATION Spec
INVARIANTS SentByOwner CursorBehindCapture
PROPERTIES SwitchLosesNothingCounted OnlySentLeave
