SPECIFICATION Spec
CONSTANTS
  Threads = {t1, t2}
  Cells = {1, 2}
  Regions <- MCRegions
  Values = {1}
  MaxMaps = 2
  MaxDeviceWrites = 1
SYMMETRY MCSymmetry
INVARIANT MappingsCoherent
INVARIANT UndoneOnce
INVARIANT AliveWhileUsed
CHECK_DEADLOCK FALSE
