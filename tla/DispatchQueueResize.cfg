SPECIFICATION FairSpec
CONSTANTS
  t1 = t1
  t2 = t2
  t3 = t3
  Tasks <- Pair
  MaxThreads = 2
  MaxResizes = 1
PROPERTIES
  BatchReturns
