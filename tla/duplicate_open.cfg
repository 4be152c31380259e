CONSTANTS
  r1 = r1
  p2 = p2
  p1 = p1
  m1 = m1
  base = base
  dropped = dropped
  retyped = retyped
  None = None
  Monitors = {m1}
  Polls = {p1, p2}
  Requests = {r1}
  Schemas <- TwoSchemas
  Verdict <- VerdictTable
  Overlap = TRUE
  Environment = {}
  MaxEvents = 1
SPECIFICATION Spec
INVARIANTS
  AtMostOneOpen
