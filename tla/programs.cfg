SPECIFICATION FairSpec
CONSTANTS
  p1 = p1
  p2 = p2
  d1 = d1
  d2 = d2
  Programs = {p1, p2}
  AssociatedDevices <- TwoDevices
  Kinds <- InputAndLinked
  BinaryTypes = {"LIBRARY", "EXECUTABLE"}
  KernelObjects = {}
  HasCache = FALSE
  EarlyBuilds = FALSE
  MaxInputs = 2
  MaxJobs = 3
INVARIANT OneBuildAtATime
INVARIANT PendingLinksCounted
 
CHECK_DEADLOCK FALSE
