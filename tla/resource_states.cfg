SPECIFICATION Spec
CONSTANTS
  Textures = {t}
  Buffers = {b, s}
  Staging = s
  Subresources = 2
  MaxLists = 2
PROPERTY StatesSuffice
PROPERTY FencesTell
PROPERTY BarriersMatch
CHECK_DEADLOCK FALSE
VIEW View
