CONSTANTS
  Readers = {r1, r2, r3}
  Writers = {w1, w2}
  Free = Free
  Mortal = {w1, w2}
  MayExpire = {}
  MaxReadCount = 5
SPECIFICATION Spec
INVARIANTS MutualExclusion LockInv
PROPERTIES KeepsPromise
