CONSTANTS
  Writers = {w1, p, x}
  Priority = {p}
  Impatient = {x, p}
  w1 = w1
  w2 = w2
  p = p
  x = x
SPECIFICATION PoolFairSpec
INVARIANTS MutualExclusion NoLostWakeup SqliteBehindGate
PROPERTIES ImplementsLock ServedInTurn
