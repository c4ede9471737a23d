CONSTANTS
  root = root
  p = p
  q = q
  i = i
  Paths <- MCPaths
  RootPath = root
  Ids <- MCIds
  Linkable <- MCLinkable
  NoDoc = NoDoc
  NoPath = NoPath
  NoIndex = NoIndex
  NoAsk = NoAsk
  MaxLinks = 1
  MaxStale = 1
SYMMETRY Symmetry
SPECIFICATION Spec
INVARIANT FreshIndexIsTheCensus
