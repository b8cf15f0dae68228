\* Two reactors that poll, with background saves of either (a process id can come
\* back) or foreground saves of one in a server that may be killed at any step.
CONSTANTS
  r1 = r1
  r2 = r2
  p1 = p1
  p2 = p2
  i1 = i1
  i2 = i2
  i3 = i3
  Reactors = {r1, r2}
  Pids = {p1, p2}
  Inodes = {i1, i2, i3}
  Workloads <- OneKindOfSave
  NULL = NULL
SPECIFICATION FairSnapSpec
INVARIANTS FilesRight
PROPERTIES SaveEnds
