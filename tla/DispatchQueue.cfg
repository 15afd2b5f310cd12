SPECIFICATION FairSpec
CONSTANTS
  t1 = t1
  t2 = t2
  t3 = t3
  Tasks <- Closures
  MaxThreads = 3
  MaxResizes = 1
INVARIANTS TypeOK BatchDone
PROPERTIES FirstBatchesReturn TerminationEnds PoolSpec
