CONSTANTS
  r = r
  p = p
  q = q
  s = s
  i1 = i1
  i2 = i2
  e1 = e1
  Ids <- MCIds
  Paths <- MCPaths
  RegPath = r
  Edits <- MCEdits
  Policies <- MCPolicies
  Storages <- MCStorages
  Freedoms <- OnlyOthersWrite
  MaxStamps = 2
  NoId = NoId
  NoPath = NoPath
  Null = Null
  NoRecord = NoRecord
  NoCheckpoint = NoCheckpoint
  NoDoc = NoDoc
  Unread = Unread
  NoJournal = NoJournal
SYMMETRY Symmetry
SPECIFICATION Spec
INVARIANTS TwoHomesAgree RecordsNameDocuments
PROPERTIES NothingRecordedIsDropped GuardedReadsKeepEdits
