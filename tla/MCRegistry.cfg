\* The registry as the code is called, a failed move of its document left out.
CONSTANTS
  i1 = i1
  i2 = i2
  r1 = r1
  r2 = r2
  Ids <- MCIds
  Paths <- MCPaths
  HostPaths <- MCPaths
  NoId = NoId
  NoPath = NoPath
  Null = Null
  NoRecord = NoRecord
  NoCheckpoint = NoCheckpoint
  NoFile = NoFile
  MovesCanFail = FALSE
SYMMETRY Symmetric
SPECIFICATION Spec
INVARIANTS TypeOK Bijection LiveOrRetired ReadsBack CleanIsDurable
PROPERTY ImplementsLedger
