CONSTANTS
  Instances = {a, b}
  NoInstance = NoInstance
  Triggers = {"initial", "tick"}
  Period = 4
  Margin = 1
  StaleAfter = 3
  RunLimit = 4
  a = a
  b = b
SPECIFICATION FairSpec
PROPERTIES SuccessesApart FreshLockIsSafe LeakedLockReclaimed
