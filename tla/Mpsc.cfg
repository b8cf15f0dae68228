\* Three producers that keep enqueueing, three addresses that come back, and a
\* consumer that keeps dequeueing: two enqueues in flight behind a third.
CONSTANTS
  p1 = p1
  p2 = p2
  p3 = p3
  Producers = {p1, p2, p3}
  n1 = n1
  n2 = n2
  n3 = n3
  Nodes = {n1, n2, n3}
  stub = stub
  NULL = NULL
SPECIFICATION FairMpscSpec
INVARIANTS ChainWhole
PROPERTIES RefinesFifo AllDequeued
