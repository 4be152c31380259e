CONSTANTS
  r1 = r1
  p2 = p2
  p1 = p1
  m1 = m1
  base = base
  dropped = dropped
  retyped = retyped
  None = None
  Monitors = {m1}
  Polls = {p1}
  Requests = {r1}
  Schemas <- TwoSchemas
  Verdict <- VerdictTable
  Overlap = FALSE
  Environment = {"acknowledge"}
  MaxEvents = 3
SPECIFICATION Spec
PROPERTIES
  ResolvedIsFinal
