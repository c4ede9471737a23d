CONSTANTS
  root = root
  p1 = p1
  p2 = p2
  p3 = p3
  Paths <- MCPaths
  RootPath = root
  NoPath = NoPath
  NoDoc = NoDoc
SPECIFICATION Spec
PROPERTIES AnswersAreKept LoopsAreAdopted VerbsTendForest
CONSTRAINT FewStray
