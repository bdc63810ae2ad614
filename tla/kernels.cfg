SPECIFICATION ExecFairSpec
CONSTANTS
  p1 = p1
  d1 = d1
  d2 = d2
  k1 = k1
  k2 = k2
  t1 = t1
  t2 = t2
  c1 = c1
  Programs = {p1}
  AssociatedDevices <- OneDevice
  Kinds <- OneProgram
  BinaryTypes = {"LIBRARY", "EXECUTABLE"}
  KernelObjects = {k1, k2}
  HasCache = FALSE
  EarlyBuilds = FALSE
  MaxInputs = 1
  MaxJobs = 2
  Tasks = {t1, t2}
  Configs = {c1}
  UnbuiltDevices = FALSE
INVARIANT ValuesAlive
PROPERTY WaitsForSpecializationEnd
CHECK_DEADLOCK FALSE
