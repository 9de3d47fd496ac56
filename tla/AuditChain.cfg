CONSTANTS
  anna = anna
  ben = ben
  e1 = e1
  e2 = e2
  e3 = e3
  Requests = {r1, r2}
  Users = {anna, ben}
  Events = {e1, e2, e3}
  Actor <- MCActor
SPECIFICATION FairSpec
INVARIANTS OnlyCommittedOnce NothingForgotten ChainHolds
PROPERTIES DrainEnds
