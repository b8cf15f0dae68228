\* Two reactors that emit for ever, a cap of one that both can pass before
\* either counts, the two addresses it then takes, and a main thread that may
\* sleep without a deadline.
CONSTANTS
  p1 = p1
  p2 = p2
  Producers = {p1, p2}
  n1 = n1
  n2 = n2
  Nodes = {n1, n2}
  stub = stub
  NULL = NULL
  QueueCap = 1
  MaxDropped = 1
SPECIFICATION FairStreamSpec
INVARIANTS SizeRight NoLostWakeup
PROPERTIES WaitServed
