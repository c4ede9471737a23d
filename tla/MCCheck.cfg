CONSTANTS
  root = root
  a = a
  b = b
  c = c
  i1 = i1
  i2 = i2
  Docs <- MCDocs
  Root = root
  First = a
  FirstId = i1
  InPathOrder <- MCOrder
  Near <- MCNear
  Bare <- MCBare
  Alike <- MCAlike
  Ids <- MCIds
  NoId = NoId
  Nowhere = Nowhere
  NoLink = NoLink
  MaxLinks = 2
  MaxEdits = 3
  MaxAttended = 2
  Modes = {"mechanical", "interactive"}
  Freedoms = {}
SPECIFICATION Spec
INVARIANTS
  CleanMeansWhole
  IslandsComeHome
  RepairsResolve
PROPERTIES
  ClaimsAreKept
  LiveIdsStay
  Settles
