SPECIFICATION Spec
CONSTANTS
  FlagSets <- MCFlagSets
  Sizes = {4, 8}
  Origins = {0, 4}
  Extents <- MCExtents
  ArraySizes = {2}
  HostPitches = {0}
  Formats = {1, 2}
  ImageTypes <- MCImageTypes
  Alignment = 4
  MaxAxis = 2
  MaxSize = 8
  MaxObjects = 2
  Points <- MCPoints
  HostPoints <- MCHostPoints
  Regions <- MCRegions
  Pitches <- MCPitches
  Layouts <- MCLayouts
  Patterns = {2}
  PitchUnit = 2
  PlaceUnit = 4
  Signatures <- MCSignatures
  WorkOffsets = {0, 3}
  SamplerSet = {1}
  LocalBytes = {2, 5}
  Primes <- MCPrimes
  WaveSizes <- MCWaves
  MaxDims <- MCMaxDims
  MaxThreads = 8
  MaxGroups = 5
  UINT16_MAX = 15
  UINT_MAX = 31
  LocalUnit = 4
  MaxBound = 1
  a1 = a1
  a2 = a2
  a3 = a3
  Allocations = {a1, a2, a3}
  SizeOf <- MCSizes
  Spaces = {0, 1, 2}
  MaxExecuted = 3
  h1 = h1
  h2 = h2
  h3 = h3
  HeapBuffers = {h1, h2, h3}
  Callers = {1, 2}
  ByteSizes = {1, 3, 4, 5}
  MinBlockSize = 2
  MaxOrder = 3
  BucketOrder = 1
INVARIANT NoAccessGained
 
INVARIANT RunsTheRange
INVARIANT ResidentWhenRun
INVARIANT SuballocationsApart
