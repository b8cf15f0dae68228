\* Two reactors that do not remove, or of which one inserts, or one reactor
\* with every operation, in a table of two cells that tombstones and other
\* keys fill.
CONSTANTS
  t1 = t1
  t2 = t2
  k1 = k1
  k2 = k2
  k3 = k3
  v1 = v1
  v2 = v2
  s1 = s1
  s2 = s2
  s3 = s3
  Threads = {t1, t2}
  Keys = {k1, k2, k3}
  Vals = {v1, v2}
  Records = {s1, s2, s3}
  NSlots = 2
  Hash <- Collide
  Workloads <- Quiet
  Expiries = {1}
  MaxClock = 1
  NULL = NULL
SPECIFICATION FairHistorySpec
INVARIANTS SlotsRight
PROPERTIES Linearizable OpsReturn
