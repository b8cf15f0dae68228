\* Three threads for two registration slots, one of them a late comer; any of
\* them may leave its loop; one cell and the least epochs that let an entry be
\* retired, collected and its address used again.
CONSTANTS
  t1 = t1
  t2 = t2
  t3 = t3
  Threads = {t1, t2, t3}
  Main = t1
  MayExit = {t1, t2, t3}
  c1 = c1
  Cells = {c1}
  p1 = p1
  p2 = p2
  Ptrs = {p1, p2}
  NULL = NULL
  EPOCH_MAX_THREADS = 2
  EPOCH_GC_THRESHOLD = 1
  UINT64_MAX = 5
SPECIFICATION FairSpec
CHECK_DEADLOCK FALSE
INVARIANTS OwnedOnce NoUseAfterFree ReaderBehindRetire
PROPERTIES BacklogCollected
