\* Two reactors on one key, that do not remove it or of which one inserts it,
\* with the commands on strings, lists, hashes and deadlines; numbers of two bits.
CONSTANTS
  r1 = r1
  r2 = r2
  k1 = k1
  x = x
  f1 = f1
  f2 = f2
  o1 = o1
  o2 = o2
  o3 = o3
  o4 = o4
  Reactors = {r1, r2}
  Keys = {k1}
  Workloads <- Served
  Objects = {o1, o2, o3, o4}
  MaxRetries = 1
  MaxClock = 1
  MaxLen = 3
  MaxInt = 1
  NULL = NULL
SPECIFICATION FairRespSpec
INVARIANTS NoEmptyContainer
PROPERTIES RefinesRedis TtlGiven CommandsEnd
