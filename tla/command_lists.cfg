SPECIFICATION FairSpec
CONSTANTS
  Buffers = {m1}
  Heaps = {h1, h2}
  m1 = m1
  h1 = h1
  h2 = h2
  FreeThreads = {"app"}
  MaxLists = 3
  PoolDepth = 2
  StartSlots = 3
  MaxSlots = 5
  SlotsOfDispatch = 2
  LedgerSize = 2
 
INVARIANT DispatchesWhole
INVARIANT MapsSynchronized
PROPERTY WaitsEnd
CHECK_DEADLOCK FALSE
