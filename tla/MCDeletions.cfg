CONSTANTS
  root = root
  p1 = p1
  p2 = p2
  p3 = p3
  i1 = i1
  i2 = i2
  t1 = t1
  t2 = t2
  t3 = t3
  Paths <- MCPaths
  RootPath = root
  Ids <- MCIds
  Texts <- MCTexts
  NoPath = NoPath
  NoDoc = NoDoc
  NoId = NoId
  NoLog = NoLog
  NoPlan = NoPlan
  Fresh = Fresh
  Retired = Retired
  MaxLog = 2
  Freedoms = {}
SYMMETRY Symmetry
SPECIFICATION Spec
INVARIANT EntriesAreAnswered
PROPERTIES RecordsAreKept BytesAreKept LiveIdsStay
