CONSTANTS
  Values <- JsonValues
  Bodies <- SmallBodies
  Item = "[]"
  Inherited <- JavaScriptNames
  MaxDepth = 1
SPECIFICATION Spec
INVARIANT RemovedFieldIsCritical
