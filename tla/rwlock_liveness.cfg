CONSTANTS
  Readers = {r1, r2}
  Writers = {w1, w2}
  Free = Free
  Mortal = {r1}
  MayExpire = {"counter_lock", "global_lock"}
  MaxReadCount = 2
SPECIFICATION FairSpec
PROPERTIES WaitingWriterIsServed SomebodyEnters
