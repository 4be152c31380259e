CONSTANTS
  Values <- JsonValues
  Bodies <- LargeBodies
  Item = "[]"
  Inherited <- NoNames
  MaxDepth = 1
SPECIFICATION Spec
INVARIANTS
  ExtractionIsExact
  DiffIsExact
  StoredMeansChanged
  SeverityTellsCompatibility
